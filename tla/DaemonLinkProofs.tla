-------------------------- MODULE DaemonLinkProofs --------------------------
(***************************************************************************)
(* Proofs about the daemon service and the calls over its socket: the      *)
(* types, the lone service and the truth of what a launch call is told,    *)
(* for any number of daemons, calls and sessions and any allowance.        *)
(***************************************************************************)
EXTENDS DaemonLink, TLAPS

-----------------------------------------------------------------------------
(* The lone service.                                                       *)

(* The inductive form of ServedAlone: the name also leads to nobody but a  *)
(* daemon that listens, so that a crash, a bind or an unlink by the owner  *)
(* of the lock cannot take it from another.                                *)
ServiceInv ==
    ~lost
        => \A d \in Daemons :
              /\ proc[d].at \in Owning => lock = d
              /\ proc[d].at \in Listening => path = d
              /\ path = d => proc[d].at \in Listening

(* The steps of the service, whatever becomes of the calls.                *)
ServiceStep(d) ==
    \/ OperatorStarts(d) \/ SystemdRestarts(d) \/ Proceed(d) \/ ConfirmLease(d) \/ Signal(d)
    \/ CloseServer(d) \/ Exit(d) \/ Crash(d) \/ HolderEnds(d) \/ LoseHolder(d)

(* A step of the project is a step of one daemon or leaves the processes,  *)
(* the lock and the socket name alone.                                     *)
LEMMA StepsOfService ==
    ASSUME [Next]_vars
    PROVE  \/ \E d \in Daemons : ServiceStep(d)
           \/ UNCHANGED <<proc, lock, path, lost>>
<1>1. CASE UNCHANGED vars
    BY <1>1 DEF vars, service
<1>2. ASSUME NEW d \in Daemons,
             \/ DaemonStarts(d) \/ DaemonRestarts(d) \/ DaemonStep(d) \/ DaemonConfirms(d)
             \/ DaemonSignaled(d) \/ DaemonCloses(d) \/ DaemonExits(d) \/ DaemonCrashes(d) \/ HolderGone(d)
      PROVE  ServiceStep(d)
    BY <1>2 DEF ServiceStep, DaemonStarts, DaemonRestarts, DaemonStep, DaemonConfirms, DaemonSignaled,
                DaemonCloses, DaemonExits, DaemonCrashes, HolderGone
<1>3. ASSUME NEW c \in Calls, CallStep(c)
      PROVE  UNCHANGED <<proc, lock, path, lost>>
    BY <1>3 DEF CallStep, CallTool, ReadClaim, Connect, ConnectFails, Abort, HostExits, HandshakeTimer,
                RequestTimer, Consume, SeeClose, service
<1>4. ASSUME NEW c \in Calls, ServerStep(c)
      PROVE  UNCHANGED <<proc, lock, path, lost>>
    BY <1>4 DEF ServerStep, ServerReads, ServerSeesClose, VerifyCaller, Effect, HandlerEnds, service
<1>5. CASE OccupantChanges
    BY <1>5 DEF OccupantChanges
<1> QED
    BY <1>1, <1>2, <1>3, <1>4, <1>5 DEF Next

(* Taking from an allowance leaves a count for every kind.                 *)
LEMMA UseKeepsCounts ==
    ASSUME left \in Allowance, NEW what \in {"starts", "crashes", "losses", "faults", "signals", "calls", "turnovers"},
           Use(what)
    PROVE  left' \in Allowance
BY DEF Allowance, Use

(* A process moved to a step of the code, or begun anew, is a process.     *)
LEMMA ProcessMoves ==
    ASSUME proc \in [Daemons -> Process], NEW d \in Daemons, NEW step \in Down \cup Up
    PROVE  /\ [proc EXCEPT ![d].at = step] \in [Daemons -> Process]
           /\ \A b \in BOOLEAN, n \in {0, 1} :
                 [proc EXCEPT ![d] = [at |-> step, signaled |-> b, code |-> n]] \in [Daemons -> Process]
           /\ \A n \in {0, 1} :
                 [proc EXCEPT ![d] = [@ EXCEPT !.at = step, !.code = n]] \in [Daemons -> Process]
<1>1. [proc[d] EXCEPT !.at = step] \in Process
    BY DEF Process
<1>2. \A b \in BOOLEAN, n \in {0, 1} : [at |-> step, signaled |-> b, code |-> n] \in Process
    BY DEF Process
<1>3. \A n \in {0, 1} : [proc[d] EXCEPT !.at = step, !.code = n] \in Process
    BY DEF Process
<1> QED
    BY <1>1, <1>2, <1>3

(* Every step of a daemon keeps the types of the service.                  *)
LEMMA ServiceTypeStep ==
    ASSUME ServiceTypeOK, NEW d \in Daemons, ServiceStep(d)
    PROVE  ServiceTypeOK'
<1> DEFINE Steps == Down \cup Up
           Procs == [Daemons -> Process]
<1>1. /\ \A step \in Steps : [proc EXCEPT ![d].at = step] \in Procs
      /\ \A step \in Steps, b \in BOOLEAN, n \in {0, 1} :
            [proc EXCEPT ![d] = [at |-> step, signaled |-> b, code |-> n]] \in Procs
      /\ \A step \in Steps, n \in {0, 1} : [proc EXCEPT ![d] = [@ EXCEPT !.at = step, !.code = n]] \in Procs
    BY ProcessMoves DEF ServiceTypeOK
<1>2. /\ "locked" \in Steps /\ "swept" \in Steps /\ "checked" \in Steps /\ "probed" \in Steps
      /\ "cleared" \in Steps /\ "bound" \in Steps /\ "serving" \in Steps /\ "stopping" \in Steps
      /\ "closed" \in Steps /\ "draining" \in Steps /\ "stopped" \in Steps /\ "failed" \in Steps
    BY DEF Down, Up, Owning, Starting, Listening
<1>3. proc[d].code \in {0, 1} /\ proc[d].signaled \in BOOLEAN
    BY DEF ServiceTypeOK, Process
<1> HIDE DEF Steps, Procs
<1>4. Rollback(d) => proc' \in Procs /\ lock' \in Daemons \cup {None}
    BY <1>1, <1>2 DEF Rollback, Released, ServiceTypeOK
<1>5. AcquireDaemonInstance(d) => proc' \in Procs /\ lock' \in Daemons \cup {None} /\ UNCHANGED <<path, lost>>
    BY <1>1, <1>2 DEF AcquireDaemonInstance, Advance, ServiceTypeOK
<1>6. Fault => left' \in Allowance
    BY UseKeepsCounts DEF Fault, ServiceTypeOK
<1>7. ServiceTypeOK => /\ proc \in Procs /\ lock \in Daemons \cup {None} /\ left \in Allowance
                       /\ path \in Daemons \cup {None, Stale} /\ lost \in BOOLEAN
    BY DEF ServiceTypeOK, Procs
<1> SUFFICES /\ proc' \in Procs /\ lock' \in Daemons \cup {None} /\ left' \in Allowance
             /\ path' \in Daemons \cup {None, Stale} /\ lost' \in BOOLEAN
    BY DEF ServiceTypeOK, Procs
<1>8. CASE OperatorStarts(d)
    BY <1>5, <1>7, <1>8, UseKeepsCounts DEF OperatorStarts
<1>9. CASE SystemdRestarts(d)
    BY <1>5, <1>7, <1>9 DEF SystemdRestarts
<1>10. CASE Sweep(d)
    BY <1>1, <1>2, <1>4, <1>6, <1>7, <1>10 DEF Sweep, Advance
<1>11. CASE CheckLease(d)
    BY <1>1, <1>2, <1>4, <1>7, <1>11 DEF CheckLease, Advance
<1>12. CASE Probe(d)
    BY <1>1, <1>2, <1>4, <1>6, <1>7, <1>12 DEF Probe, Advance
<1>13. CASE ClearPath(d)
    BY <1>1, <1>2, <1>4, <1>6, <1>7, <1>13 DEF ClearPath, Advance
<1>14. CASE Listen(d)
    BY <1>1, <1>2, <1>4, <1>7, <1>14 DEF Listen, Advance
<1>15. CASE Stop(d)
    BY <1>1, <1>2, <1>6, <1>7, <1>15 DEF Stop, Advance
<1>16. CASE ReleaseLock(d)
    <2>1. proc' \in Procs
        <3>1. CASE LeaseHeld(d)
            <4>1. proc' = [proc EXCEPT ![d] = [@ EXCEPT !.at = "draining", !.code = proc[d].code]]
                BY <1>16, <3>1 DEF ReleaseLock
            <4> QED
                BY <1>1, <1>2, <1>3, <4>1
        <3>2. CASE ~LeaseHeld(d)
            <4>1. proc' = [proc EXCEPT ![d] = [@ EXCEPT !.at = "draining", !.code = 1]]
                BY <1>16, <3>2 DEF ReleaseLock
            <4> QED
                BY <1>1, <1>2, <4>1
        <3> QED
            BY <3>1, <3>2
    <2> QED
        BY <1>7, <1>16, <2>1 DEF ReleaseLock, Released
<1>17. CASE ConfirmLease(d)
    BY <1>1, <1>2, <1>7, <1>17 DEF ConfirmLease, Advance
<1>18. CASE Signal(d)
    BY <1>7, <1>18, UseKeepsCounts DEF Signal, Procs, Process
<1>19. CASE CloseServer(d)
    BY <1>1, <1>2, <1>7, <1>19 DEF CloseServer, Advance
<1>20. CASE Exit(d)
    <2>1. proc' \in Procs
        BY <1>1, <1>2, <1>3, <1>20 DEF Exit
    <2> QED
        BY <1>7, <1>20, <2>1 DEF Exit
<1>21. CASE Crash(d)
    BY <1>1, <1>2, <1>7, <1>21, UseKeepsCounts DEF Crash
<1>22. CASE HolderEnds(d)
    BY <1>7, <1>22 DEF HolderEnds
<1>23. CASE LoseHolder(d)
    BY <1>7, <1>23, UseKeepsCounts DEF LoseHolder
<1> QED
    BY <1>8, <1>9, <1>10, <1>11, <1>12, <1>13, <1>14, <1>15, <1>16, <1>17, <1>18, <1>19, <1>20, <1>21, <1>22, <1>23
       DEF ServiceStep, Proceed

(* Every step of a daemon keeps the lone service.  The owner of the lock   *)
(* is the only daemon past it, so what it does to the name it does alone.  *)
LEMMA ServiceInvStep ==
    ASSUME ServiceTypeOK, ServiceInv, NEW d \in Daemons, ServiceStep(d)
    PROVE  ServiceInv'
<1> SUFFICES ASSUME ~lost', NEW e \in Daemons
             PROVE  /\ proc'[e].at \in Owning => lock' = e
                    /\ proc'[e].at \in Listening => path' = e
                    /\ path' = e => proc'[e].at \in Listening
    BY DEF ServiceInv
<1> USE DistinctNames DEF ServiceTypeOK, ServiceInv, Process, Down, Up, Owning, Starting, Listening, Advance
<1>1. CASE OperatorStarts(d)
    BY <1>1 DEF OperatorStarts, AcquireDaemonInstance
<1>2. CASE SystemdRestarts(d)
    BY <1>2 DEF SystemdRestarts, AcquireDaemonInstance
<1>3. CASE Sweep(d)
    BY <1>3 DEF Sweep, Rollback, Released
<1>4. CASE CheckLease(d)
    BY <1>4 DEF CheckLease, Rollback, Released
<1>5. CASE Probe(d)
    BY <1>5 DEF Probe, Rollback, Released
<1>6. CASE ClearPath(d)
    BY <1>6 DEF ClearPath, Rollback, Released
<1>7. CASE Listen(d)
    BY <1>7 DEF Listen, Rollback, Released
<1>8. CASE Stop(d)
    <2>1. proc'[e].at = (IF e = d THEN "stopping" ELSE proc[e].at)
        <3>1. CASE Advance(d, "stopping")
            BY <3>1
        <3>2. CASE proc' = [proc EXCEPT ![d] = [@ EXCEPT !.at = "stopping", !.code = 1]]
            BY <3>2
        <3> QED
            BY <1>8, <3>1, <3>2 DEF Stop
    <2> QED
        BY <1>8, <2>1 DEF Stop
<1>9. CASE ReleaseLock(d)
    <2>1. proc'[e].at = (IF e = d THEN "draining" ELSE proc[e].at)
        BY <1>9 DEF ReleaseLock
    <2> QED
        BY <1>9, <2>1 DEF ReleaseLock, Released
<1>10. CASE ConfirmLease(d)
    BY <1>10 DEF ConfirmLease, LeaseHeld
<1>11. CASE Signal(d)
    BY <1>11 DEF Signal
<1>12. CASE CloseServer(d)
    BY <1>12 DEF CloseServer
<1>13. CASE Exit(d)
    BY <1>13 DEF Exit
<1>14. CASE Crash(d)
    BY <1>14 DEF Crash
<1>15. CASE HolderEnds(d)
    BY <1>15 DEF HolderEnds
<1>16. CASE LoseHolder(d)
    BY <1>16 DEF LoseHolder
<1> QED
    BY <1>1, <1>2, <1>3, <1>4, <1>5, <1>6, <1>7, <1>8, <1>9, <1>10, <1>11, <1>12, <1>13, <1>14, <1>15, <1>16
       DEF ServiceStep, Proceed
-----------------------------------------------------------------------------
(* Lines under way.                                                        *)

Among(line, lines) == \E i \in DOMAIN lines : lines[i] = line

(* What a prefix, a tail or a longer sequence holds; the head is held.     *)
LEMMA LinesOfTail ==
    ASSUME NEW S, NEW lines \in Seq(S), lines # <<>>
    PROVE  /\ Tail(lines) \in Seq(S) /\ Len(Tail(lines)) = Len(lines) - 1
           /\ Head(lines) \in S /\ Among(Head(lines), lines)
           /\ \A line : Among(line, Tail(lines)) => Among(line, lines)
BY DEF Among

(* A line appended is the one line more.                                   *)
LEMMA LinesOfAppend ==
    ASSUME NEW S, NEW lines \in Seq(S), NEW last \in S
    PROVE  /\ Append(lines, last) \in Seq(S) /\ Len(Append(lines, last)) = Len(lines) + 1
           /\ \A line : Among(line, Append(lines, last)) => Among(line, lines) \/ line = last
BY DEF Among

(* A prefix brings nothing new.                                            *)
LEMMA LinesOfPrefix ==
    ASSUME NEW S, NEW lines \in Seq(S), NEW n \in 0 .. Len(lines)
    PROVE  /\ SubSeq(lines, 1, n) \in Seq(S) /\ Len(SubSeq(lines, 1, n)) <= Len(lines)
           /\ \A line : Among(line, SubSeq(lines, 1, n)) => Among(line, lines)
<1>1. SubSeq(lines, 1, n) \in Seq(S) /\ Len(SubSeq(lines, 1, n)) = n
    OBVIOUS
<1>2. \A i \in 1 .. n : SubSeq(lines, 1, n)[i] = lines[i]
    OBVIOUS
<1> QED
    BY <1>1, <1>2 DEF Among
-----------------------------------------------------------------------------
(* The calls.                                                              *)

LinkTypeOK ==
    /\ call \in [Calls -> CallStates]
    /\ conn \in [Calls -> ConnStates]
    /\ handler \in [Calls -> HandlerStates]
    /\ occupant \in Sessions \cup {None}

(* Before the connection nothing is under way and nothing runs.            *)
Unsent(c) == call[c].at \in {"idle", "snapshot", "connect"} => conn[c] = NoConn /\ handler[c] = NoHandler

(* A handler runs and acts for the session its caller claimed.             *)
Keyed(c) == handler[c].at = "body" \/ handler[c].effect => handler[c].key = call[c].claim

(* A stranger reads no claim, so no handler body ever runs for it.         *)
Estranged(c) ==
    call[c].kind = "stranger" =>
        /\ call[c].at # "snapshot" /\ call[c].claim = None
        /\ handler[c].at # "body" /\ ~handler[c].effect

(* A host of ours writes one request, after the ack has been read; one     *)
(* handler answers it, and a line on its way to the client says what that  *)
(* handler did.                                                            *)
OneRequest(c) ==
    call[c].kind # "stranger" =>
        /\ Len(conn[c].up) <= 1
        /\ handler[c].at # "none" => conn[c].up = <<>>
        /\ handler[c].at \in {"none", "verify"} => ~handler[c].effect
        /\ call[c].at = "ready" =>
              /\ handler[c].at = "none"
              /\ ~Among("request", conn[c].up)
              /\ Among("ack", conn[c].down) => conn[c].up = <<>>
        /\ Among("reply", conn[c].down) => handler[c].at = "answered" /\ handler[c].key = call[c].claim
        /\ \A line \in IdentityRefusals :
              Among(line, conn[c].down) => handler[c].at = "answered" /\ ~handler[c].effect

(* What OutcomeIsTrue says of a launch call that has ended.                *)
Told(c) ==
    call[c].at = "ended" /\ call[c].kind = "launch" =>
        /\ (call[c].out.cert = "none" /\ call[c].out.code # "OK") \/ call[c].out.log = "absent"
              => handler[c].at = "none" /\ ~Among("request", conn[c].up)
        /\ call[c].out.code = "OK" => handler[c].at = "answered" /\ handler[c].key = call[c].claim
        /\ call[c].out.code \in IdentityRefusals => ~handler[c].effect /\ handler[c].at = "answered"

CallInv(c) == Unsent(c) /\ Keyed(c) /\ Estranged(c) /\ OneRequest(c) /\ Told(c)

LinkInv == \A c \in Calls : CallInv(c)

(* A call that ends: its outcome is set once, what it had written may be   *)
(* cut short, what was coming to it is dropped, and no other call changes. *)
LEMMA EndOfCall ==
    ASSUME LinkTypeOK, NEW c \in Calls, NEW out \in Outcomes, End(c, out)
    PROVE  /\ call' \in [Calls -> CallStates] /\ conn' \in [Calls -> ConnStates]
           /\ \A x \in Calls \ {c} : call'[x] = call[x] /\ conn'[x] = conn[x]
           /\ call'[c].at = "ended" /\ call'[c].out = out
           /\ call'[c].kind = call[c].kind /\ call'[c].claim = call[c].claim
           /\ conn'[c].down = <<>> /\ Len(conn'[c].up) <= Len(conn[c].up)
           /\ \A line : Among(line, conn'[c].up) => Among(line, conn[c].up)
<1>1. conn[c].up \in Seq(UpLines)
    BY DEF LinkTypeOK, ConnStates
<1>2. PICK n \in 0 .. Len(conn[c].up) :
         conn' = [conn EXCEPT ![c] = [@ EXCEPT !.up = SubSeq(conn[c].up, 1, n), !.down = <<>>, !.left = TRUE]]
    BY DEF End, Prefixes
<1> DEFINE sent == SubSeq(conn[c].up, 1, n)
<1>3. /\ sent \in Seq(UpLines) /\ Len(sent) <= Len(conn[c].up)
      /\ \A line : Among(line, sent) => Among(line, conn[c].up)
    BY <1>1, LinesOfPrefix
<1>4. conn' = [conn EXCEPT ![c] = [@ EXCEPT !.up = sent, !.down = <<>>, !.left = TRUE]]
    BY <1>2
<1> HIDE DEF sent
<1>5. <<>> \in Seq(DownLines)
    OBVIOUS
<1>6. conn' \in [Calls -> ConnStates]
    <2>1. conn[c] \in ConnStates
        BY DEF LinkTypeOK
    <2>2. [conn[c] EXCEPT !.up = sent, !.down = <<>>, !.left = TRUE] \in ConnStates
        BY <1>3, <1>5, <2>1 DEF ConnStates
    <2> QED
        BY <1>4, <2>2 DEF LinkTypeOK
<1>7. call' \in [Calls -> CallStates]
    <2>1. call[c] \in CallStates
        BY DEF LinkTypeOK
    <2>2. [call[c] EXCEPT !.at = "ended", !.out = out] \in CallStates
        BY <2>1 DEF CallStates, Phases
    <2> QED
        BY <2>2 DEF LinkTypeOK, End
<1>8. /\ \A x \in Calls \ {c} : call'[x] = call[x]
      /\ call'[c].at = "ended" /\ call'[c].out = out
      /\ call'[c].kind = call[c].kind /\ call'[c].claim = call[c].claim
    BY DEF End, LinkTypeOK, CallStates
<1>9. /\ \A x \in Calls \ {c} : conn'[x] = conn[x]
      /\ conn'[c].down = <<>> /\ conn'[c].up = sent
    BY <1>4 DEF LinkTypeOK, ConnStates
<1> QED
    BY <1>3, <1>6, <1>7, <1>8, <1>9

(* The outcomes of the code are outcomes.                                  *)
LEMMA OutcomesOfCalls ==
    /\ \A code \in Codes, cert \in {"none", "unknown"} :
          /\ ErrorOutcome(code, cert) \in Outcomes
          /\ ErrorOutcome(code, cert).code = code
          /\ ErrorOutcome(code, cert).cert = cert
          /\ ErrorOutcome(code, cert).log = "unknown"
    /\ SuccessOutcome \in Outcomes /\ SuccessOutcome.code = "OK" /\ SuccessOutcome.log = "confirmed"
    /\ InvalidOutcome \in Outcomes /\ InvalidOutcome.code = "INVALID_INPUT" /\ InvalidOutcome.log = "absent"
BY DEF ErrorOutcome, SuccessOutcome, InvalidOutcome, Outcomes, Logged, Codes

(* A call that ends with nothing sent, and one whose request was issued.   *)
LEMMA EndsWithout ==
    ASSUME LinkTypeOK, LinkInv, NEW c \in Calls,
           call[c].at \in {"idle", "snapshot", "connect", "ready"},
           NEW out \in Outcomes, End(c, out), out.code \notin IdentityRefusals \cup {"OK"},
           UNCHANGED handler
    PROVE  LinkInv'
<1> SUFFICES ASSUME NEW x \in Calls
             PROVE  CallInv(x)'
    BY DEF LinkInv
<1>1. CallInv(x) /\ CallInv(c)
    BY DEF LinkInv
<1>2. CASE x # c
    BY <1>1, <1>2, EndOfCall DEF CallInv, Unsent, Keyed, Estranged, OneRequest, Told
<1>3. CASE x = c
    <2>1. /\ call[c].kind # "stranger" => handler[c].at = "none" /\ ~Among("request", conn[c].up)
          /\ conn[c].up \in Seq(UpLines) /\ conn'[c].up \in Seq(UpLines) /\ call[c].kind \in Kinds
        BY <1>1, EndOfCall DEF CallInv, Unsent, OneRequest, NoConn, NoHandler, Among, LinkTypeOK, ConnStates, CallStates
    <2>2. \A line : ~Among(line, conn'[c].down)
        BY EndOfCall DEF Among
    <2>3. Unsent(c)' /\ Keyed(c)' /\ Estranged(c)' /\ OneRequest(c)'
        BY <1>1, <2>1, <2>2, EndOfCall DEF CallInv, Unsent, Keyed, Estranged, OneRequest
    <2>4. Told(c)'
        BY <1>1, <2>1, EndOfCall DEF Told
    <2> QED
        BY <1>3, <2>3, <2>4 DEF CallInv
<1> QED
    BY <1>2, <1>3

(* A call whose request may have left ends with an outcome its handler     *)
(* bears out: an error that admits it does not know, an identity refusal   *)
(* read off the connection, or the reply.                                  *)
LEMMA EndsIssued ==
    ASSUME LinkTypeOK, LinkInv, NEW c \in Calls, NEW out \in Outcomes, End(c, out), UNCHANGED handler,
           call[c].kind = "launch" =>
               /\ out.code = "OK" \/ out.cert = "unknown"
               /\ out.log # "absent"
               /\ out.code = "OK" => Among("reply", conn[c].down)
               /\ out.code \in IdentityRefusals => Among(out.code, conn[c].down),
           call[c].at \in {"ready", "pending"}
    PROVE  LinkInv'
<1> SUFFICES ASSUME NEW x \in Calls
             PROVE  CallInv(x)'
    BY DEF LinkInv
<1>1. CallInv(x) /\ CallInv(c)
    BY DEF LinkInv
<1>2. CASE x # c
    BY <1>1, <1>2, EndOfCall DEF CallInv, Unsent, Keyed, Estranged, OneRequest, Told
<1>3. CASE x = c
    <2>1. conn[c].up \in Seq(UpLines) /\ conn'[c].up \in Seq(UpLines) /\ call[c].kind \in Kinds
        BY EndOfCall DEF LinkTypeOK, ConnStates, CallStates
    <2>2. \A line : ~Among(line, conn'[c].down)
        BY EndOfCall DEF Among
    <2>3. Unsent(c)' /\ Keyed(c)' /\ Estranged(c)' /\ OneRequest(c)'
        BY <1>1, <2>1, <2>2, EndOfCall DEF CallInv, Unsent, Keyed, Estranged, OneRequest
    <2>4. Told(c)'
        BY <1>1, <2>1, EndOfCall DEF Told, CallInv, OneRequest
    <2> QED
        BY <1>3, <2>3, <2>4 DEF CallInv
<1> QED
    BY <1>2, <1>3

(* The ends of the code: a failure before the request and one after it.    *)
LEMMA EndUnsentStep ==
    ASSUME LinkTypeOK, LinkInv, NEW c \in Calls, call[c].at \in {"idle", "snapshot", "connect", "ready"},
           NEW code \in Codes \ (IdentityRefusals \cup {"OK"}), EndUnsent(c, code), UNCHANGED <<handler, occupant>>
    PROVE  LinkTypeOK' /\ LinkInv'
<1>1. /\ ErrorOutcome(code, "none") \in Outcomes /\ ErrorOutcome(code, "none").code = code
      /\ End(c, ErrorOutcome(code, "none"))
    BY OutcomesOfCalls DEF EndUnsent
<1>2. LinkTypeOK'
    BY <1>1, EndOfCall DEF LinkTypeOK
<1>3. LinkInv'
    BY <1>1, EndsWithout
<1> QED
    BY <1>2, <1>3

(* Whatever rejects an issued launch, the outcome says `unknown'.          *)
LEMMA EndIssuedStep ==
    ASSUME LinkTypeOK, LinkInv, NEW c \in Calls, call[c].at \in {"ready", "pending"},
           NEW code \in Codes \ {"OK"}, EndIssued(c, code), UNCHANGED <<handler, occupant>>,
           code \in IdentityRefusals => Among(code, conn[c].down)
    PROVE  LinkTypeOK' /\ LinkInv'
<1> DEFINE out == ErrorOutcome(code, Projected(c))
<1>1. /\ out \in Outcomes /\ out.code = code /\ out.cert = Projected(c) /\ out.log = "unknown"
      /\ End(c, out)
    BY OutcomesOfCalls DEF EndIssued, Projected
<1>2. call[c].kind = "launch" => out.cert = "unknown"
    BY <1>1 DEF Projected
<1> HIDE DEF out
<1>3. LinkTypeOK'
    BY <1>1, EndOfCall DEF LinkTypeOK
<1>4. LinkInv'
    BY <1>1, <1>2, EndsIssued
<1> QED
    BY <1>3, <1>4

(* A step of one call or of its connection concerns that call alone.       *)
LEMMA OthersKeep ==
    ASSUME LinkInv, NEW c \in Calls, CallInv(c)',
           \A x \in Calls \ {c} : call'[x] = call[x] /\ conn'[x] = conn[x] /\ handler'[x] = handler[x]
    PROVE  LinkInv'
<1> SUFFICES ASSUME NEW x \in Calls, x # c
             PROVE  CallInv(x)'
    BY DEF LinkInv
<1>1. CallInv(x)
    BY DEF LinkInv
<1> QED
    BY <1>1 DEF CallInv, Unsent, Keyed, Estranged, OneRequest, Told

(* A fresh call has written and received nothing.                          *)
LEMMA NothingAmongNone ==
    /\ \A line : ~Among(line, <<>>)
    /\ NoConn.up = <<>> /\ NoConn.down = <<>> /\ Len(NoConn.up) = 0
    /\ NoHandler.at = "none" /\ ~NoHandler.effect
BY DEF Among, NoConn, NoHandler

(* The host's own steps.                                                   *)
LEMMA CallToolStep ==
    ASSUME LinkTypeOK, LinkInv, NEW c \in Calls, CallTool(c)
    PROVE  LinkTypeOK' /\ LinkInv'
<1>1. CASE /\ Move(c, IF call[c].kind = "stranger" THEN "connect" ELSE "snapshot")
           /\ UNCHANGED conn
    <2> DEFINE phase == IF call[c].kind = "stranger" THEN "connect" ELSE "snapshot"
    <2>1. /\ phase \in {"connect", "snapshot"} /\ call' = [call EXCEPT ![c].at = phase]
          /\ call[c].kind = "stranger" => phase = "connect"
        BY <1>1 DEF Move
    <2> HIDE DEF phase
    <2>2. UNCHANGED <<conn, handler, occupant>> /\ call[c].at = "idle" /\ call[c] \in CallStates
        BY <1>1 DEF CallTool, At, LinkTypeOK
    <2>3. LinkTypeOK'
        <3>1. [call[c] EXCEPT !.at = phase] \in CallStates
            BY <2>1, <2>2 DEF CallStates, Phases
        <3> QED
            BY <2>1, <2>2, <3>1 DEF LinkTypeOK
    <2>4. /\ \A x \in Calls \ {c} : call'[x] = call[x]
          /\ call'[c].at = phase /\ call'[c].kind = call[c].kind /\ call'[c].claim = call[c].claim
        BY <2>1, <2>2 DEF LinkTypeOK, CallStates
    <2>5. CallInv(c)
        BY DEF LinkInv
    <2>6. CallInv(c)'
        BY <2>1, <2>2, <2>4, <2>5 DEF CallInv, Unsent, Keyed, Estranged, OneRequest, Told
    <2> QED
        BY <2>2, <2>3, <2>4, <2>6, OthersKeep
<1>2. CASE End(c, InvalidOutcome)
    <2>1. /\ InvalidOutcome \in Outcomes /\ InvalidOutcome.code \notin IdentityRefusals \cup {"OK"}
          /\ call[c].at = "idle" /\ UNCHANGED <<handler, occupant>>
        BY OutcomesOfCalls DEF IdentityRefusals, CallTool, At
    <2>2. LinkTypeOK'
        BY <1>2, <2>1, EndOfCall DEF LinkTypeOK
    <2>3. LinkInv'
        BY <1>2, <2>1, EndsWithout
    <2> QED
        BY <2>2, <2>3
<1> QED
    BY <1>1, <1>2 DEF CallTool

(* The claim is read while nothing runs that could hold another.           *)
LEMMA ReadClaimStep ==
    ASSUME LinkTypeOK, LinkInv, NEW c \in Calls, ReadClaim(c)
    PROVE  LinkTypeOK' /\ LinkInv'
<1>1. CASE /\ call' = [call EXCEPT ![c] = [@ EXCEPT !.at = "connect", !.claim = ResolveManagerSession]]
           /\ UNCHANGED conn
    <2>1. UNCHANGED <<conn, handler, occupant>> /\ call[c].at = "snapshot" /\ call[c] \in CallStates
        BY <1>1 DEF ReadClaim, At, LinkTypeOK
    <2>2. LinkTypeOK'
        <3>1. [call[c] EXCEPT !.at = "connect", !.claim = ResolveManagerSession] \in CallStates
            BY <2>1 DEF CallStates, Phases, ResolveManagerSession, LinkTypeOK
        <3> QED
            BY <1>1, <2>1, <3>1 DEF LinkTypeOK
    <2>3. /\ \A x \in Calls \ {c} : call'[x] = call[x]
          /\ call'[c].at = "connect" /\ call'[c].kind = call[c].kind
        BY <1>1, <2>1 DEF LinkTypeOK, CallStates
    <2>4. conn[c] = NoConn /\ handler[c] = NoHandler /\ call[c].kind # "stranger"
        BY <2>1 DEF LinkInv, CallInv, Unsent, Estranged
    <2>5. CallInv(c)'
        BY <2>1, <2>3, <2>4, NothingAmongNone DEF CallInv, Unsent, Keyed, Estranged, OneRequest, Told
    <2> QED
        BY <2>1, <2>2, <2>3, <2>5, OthersKeep
<1>2. ASSUME NEW code \in DelegatedRefusals \cup {"CONTEXT_UNAVAILABLE", "CLI_FAILED"}, EndUnsent(c, code)
      PROVE  LinkTypeOK' /\ LinkInv'
    <2>1. code \in Codes \ (IdentityRefusals \cup {"OK"})
        BY <1>2 DEF Codes, IdentityRefusals, DelegatedRefusals
    <2> QED
        BY <1>2, <2>1, EndUnsentStep DEF ReadClaim, At
<1> QED
    BY <1>1, <1>2 DEF ReadClaim

(* The connection begins with one line; ours is the hello.                 *)
LEMMA ConnectStep ==
    ASSUME LinkTypeOK, LinkInv, NEW c \in Calls, Connect(c)
    PROVE  LinkTypeOK' /\ LinkInv'
<1> USE DEF Connect, Move
<1>1. PICK first \in UpLines :
         /\ call[c].kind # "stranger" => first = "hello"
         /\ conn' = [conn EXCEPT ![c] = [NoConn EXCEPT !.to = path, !.up = <<first>>, !.srv = "new"]]
    BY DEF UpLines
<1>2. UNCHANGED <<handler, occupant>> /\ call[c].at = "connect" /\ call[c] \in CallStates /\ path \in Daemons
    BY DEF At, LinkTypeOK
<1> DEFINE new == [NoConn EXCEPT !.to = path, !.up = <<first>>, !.srv = "new"]
<1>3. new \in ConnStates /\ new.up = <<first>> /\ new.down = <<>>
    <2>1. <<first>> \in Seq(UpLines) /\ <<>> \in Seq(DownLines)
        OBVIOUS
    <2> QED
        BY <1>2, <2>1 DEF NoConn, ConnStates
<1> HIDE DEF new
<1>4. LinkTypeOK'
    <2>1. [call[c] EXCEPT !.at = "ready"] \in CallStates
        BY <1>2 DEF CallStates, Phases
    <2>2. conn' = [conn EXCEPT ![c] = new]
        BY <1>1 DEF new
    <2> QED
        BY <1>2, <1>3, <2>1, <2>2 DEF LinkTypeOK
<1>5. /\ \A x \in Calls \ {c} : call'[x] = call[x] /\ conn'[x] = conn[x]
      /\ call'[c].at = "ready" /\ call'[c].kind = call[c].kind /\ call'[c].claim = call[c].claim
      /\ conn'[c].up = <<first>> /\ conn'[c].down = <<>>
    BY <1>1, <1>2, <1>3 DEF LinkTypeOK, CallStates, new
<1>6. CallInv(c) /\ handler[c] = NoHandler
    BY <1>2 DEF LinkInv, CallInv, Unsent
<1>7. Len(<<first>>) = 1 /\ \A line : Among(line, <<first>>) => line = first
    BY DEF Among
<1>8. CallInv(c)'
    BY <1>1, <1>2, <1>5, <1>6, <1>7, NothingAmongNone DEF CallInv, Unsent, Keyed, Estranged, OneRequest, Told
<1> QED
    BY <1>2, <1>4, <1>5, <1>8, OthersKeep

(* The name leads nowhere, or the connect timer fires.                     *)
LEMMA ConnectFailsStep ==
    ASSUME LinkTypeOK, LinkInv, NEW c \in Calls, ConnectFails(c) \/ HandshakeTimer(c)
    PROVE  LinkTypeOK' /\ LinkInv'
<1>1. "DAEMON_UNAVAILABLE" \in Codes \ (IdentityRefusals \cup {"OK"})
    BY DEF Codes, IdentityRefusals
<1> QED
    BY <1>1, EndUnsentStep DEF ConnectFails, HandshakeTimer, At

(* An abort that only sets its flag changes nothing the invariant reads.   *)
LEMMA AbortStep ==
    ASSUME LinkTypeOK, LinkInv, NEW c \in Calls, Abort(c)
    PROVE  LinkTypeOK' /\ LinkInv'
<1>1. /\ "ABORTED" \in Codes \ (IdentityRefusals \cup {"OK"})
      /\ "DAEMON_UNAVAILABLE" \in Codes \ (IdentityRefusals \cup {"OK"})
    BY DEF Codes, IdentityRefusals
<1>2. CASE At(c, "snapshot") /\ EndUnsent(c, "ABORTED")
    BY <1>1, <1>2, EndUnsentStep DEF Abort, At
<1>3. CASE call' = [call EXCEPT ![c].aborted = TRUE] /\ UNCHANGED conn
    <2>1. UNCHANGED <<conn, handler, occupant>> /\ call[c] \in CallStates
        BY <1>3 DEF Abort, LinkTypeOK
    <2>2. LinkTypeOK'
        <3>1. [call[c] EXCEPT !.aborted = TRUE] \in CallStates
            BY <2>1 DEF CallStates
        <3> QED
            BY <1>3, <2>1, <3>1 DEF LinkTypeOK
    <2>3. /\ \A x \in Calls \ {c} : call'[x] = call[x]
          /\ call'[c].at = call[c].at /\ call'[c].kind = call[c].kind /\ call'[c].claim = call[c].claim
          /\ call'[c].out = call[c].out
        BY <1>3, <2>1 DEF LinkTypeOK, CallStates
    <2>4. CallInv(c)'
        BY <2>1, <2>3 DEF LinkInv, CallInv, Unsent, Keyed, Estranged, OneRequest, Told
    <2> QED
        BY <2>1, <2>2, <2>3, <2>4, OthersKeep
<1>4. CASE At(c, "pending") /\ EndIssued(c, "DAEMON_UNAVAILABLE")
    BY <1>1, <1>4, EndIssuedStep DEF Abort, At
<1> QED
    BY <1>2, <1>3, <1>4 DEF Abort

(* A host that exits publishes nothing.                                    *)
LEMMA HostExitsStep ==
    ASSUME LinkTypeOK, LinkInv, NEW c \in Calls, HostExits(c)
    PROVE  LinkTypeOK' /\ LinkInv'
<1>1. conn[c].up \in Seq(UpLines) /\ conn[c] \in ConnStates /\ call[c] \in CallStates
    BY DEF LinkTypeOK, ConnStates
<1>2. PICK n \in 0 .. Len(conn[c].up) :
         conn' = [conn EXCEPT ![c] = [@ EXCEPT !.up = SubSeq(conn[c].up, 1, n), !.down = <<>>, !.left = TRUE]]
    BY DEF HostExits, Prefixes
<1> DEFINE sent == SubSeq(conn[c].up, 1, n)
<1>3. /\ sent \in Seq(UpLines) /\ Len(sent) <= Len(conn[c].up)
    BY <1>1, LinesOfPrefix
<1>4. conn' = [conn EXCEPT ![c] = [@ EXCEPT !.up = sent, !.down = <<>>, !.left = TRUE]]
    BY <1>2
<1> HIDE DEF sent
<1>5. LinkTypeOK'
    <2>1. <<>> \in Seq(DownLines)
        OBVIOUS
    <2>2. [conn[c] EXCEPT !.up = sent, !.down = <<>>, !.left = TRUE] \in ConnStates
        BY <1>1, <1>3, <2>1 DEF ConnStates
    <2>3. [call[c] EXCEPT !.at = "gone"] \in CallStates
        BY <1>1 DEF CallStates, Phases
    <2> QED
        BY <1>4, <2>2, <2>3 DEF LinkTypeOK, HostExits, Move
<1>6. /\ \A x \in Calls \ {c} : call'[x] = call[x]
      /\ call'[c].at = "gone" /\ call'[c].kind = call[c].kind /\ call'[c].claim = call[c].claim
    BY <1>1 DEF LinkTypeOK, CallStates, HostExits, Move
<1>7. /\ \A x \in Calls \ {c} : conn'[x] = conn[x]
      /\ conn'[c].down = <<>> /\ conn'[c].up = sent
    BY <1>1, <1>4 DEF LinkTypeOK, ConnStates
<1>8. UNCHANGED <<handler, occupant>>
    BY DEF HostExits
<1>9. CallInv(c)'
    BY <1>1, <1>3, <1>6, <1>7, <1>8, NothingAmongNone DEF LinkInv, CallInv, Unsent, Keyed, Estranged, OneRequest, Told
<1> QED
    BY <1>5, <1>6, <1>7, <1>8, <1>9, OthersKeep

(* The deadline of the request, and the close of the socket.               *)
LEMMA RequestTimerStep ==
    ASSUME LinkTypeOK, LinkInv, NEW c \in Calls, RequestTimer(c) \/ SeeClose(c)
    PROVE  LinkTypeOK' /\ LinkInv'
<1>1. /\ "DAEMON_REQUEST_TIMEOUT" \in Codes \ (IdentityRefusals \cup {"OK"})
      /\ "DAEMON_UNAVAILABLE" \in Codes \ (IdentityRefusals \cup {"OK"})
    BY DEF Codes, IdentityRefusals
<1>2. CASE RequestTimer(c)
    BY <1>1, <1>2, EndIssuedStep DEF RequestTimer, At
<1>3. CASE SeeClose(c)
    BY <1>1, <1>3, EndIssuedStep, EndUnsentStep DEF SeeClose, Fail, At
<1> QED
    BY <1>2, <1>3

(* The ack is read when the hello is, so that the request stands alone.    *)
LEMMA TakeAckStep ==
    ASSUME LinkTypeOK, LinkInv, NEW c \in Calls, call[c].at = "ready", conn[c].down # <<>>,
           Head(conn[c].down) = "ack", TakeAck(c), UNCHANGED <<handler, occupant>>
    PROVE  LinkTypeOK' /\ LinkInv'
<1>1. CASE RequestTooLarge(c)
    <2>1. "DAEMON_PROTOCOL_ERROR" \in Codes \ (IdentityRefusals \cup {"OK"})
        BY DEF Codes, IdentityRefusals
    <2> QED
        BY <1>1, <2>1, EndIssuedStep DEF RequestTooLarge
<1>2. CASE ~RequestTooLarge(c)
    <2>1. PICK next \in UpLines :
             /\ call[c].kind # "stranger" => next = "request"
             /\ conn' = [conn EXCEPT ![c] = [@ EXCEPT !.up = Append(conn[c].up, next), !.down = Tail(conn[c].down)]]
        BY <1>2 DEF TakeAck, UpLines
    <2>2. /\ conn[c] \in ConnStates /\ call[c] \in CallStates
          /\ conn[c].up \in Seq(UpLines) /\ conn[c].down \in Seq(DownLines)
        BY DEF LinkTypeOK, ConnStates
    <2> DEFINE up == Append(conn[c].up, next)
               down == Tail(conn[c].down)
    <2>3. /\ up \in Seq(UpLines) /\ Len(up) = Len(conn[c].up) + 1
          /\ down \in Seq(DownLines) /\ \A line : Among(line, down) => Among(line, conn[c].down)
          /\ Among("ack", conn[c].down)
        BY <2>2, LinesOfAppend, LinesOfTail
    <2>4. conn' = [conn EXCEPT ![c] = [@ EXCEPT !.up = up, !.down = down]]
        BY <2>1
    <2>5. call' = [call EXCEPT ![c].at = "pending"]
        BY <1>2 DEF TakeAck
    <2> HIDE DEF up, down
    <2>6. LinkTypeOK'
        <3>1. [conn[c] EXCEPT !.up = up, !.down = down] \in ConnStates
            BY <2>2, <2>3 DEF ConnStates
        <3>2. [call[c] EXCEPT !.at = "pending"] \in CallStates
            BY <2>2 DEF CallStates, Phases
        <3> QED
            BY <2>4, <2>5, <3>1, <3>2 DEF LinkTypeOK
    <2>7. /\ \A x \in Calls \ {c} : call'[x] = call[x]
          /\ call'[c].at = "pending" /\ call'[c].kind = call[c].kind /\ call'[c].claim = call[c].claim
        BY <2>2, <2>5 DEF LinkTypeOK, CallStates
    <2>8. /\ \A x \in Calls \ {c} : conn'[x] = conn[x]
          /\ conn'[c].up = up /\ conn'[c].down = down
        BY <2>2, <2>4 DEF LinkTypeOK, ConnStates
    <2>9. CallInv(c)
        BY DEF LinkInv
    <2>10. call[c].kind # "stranger" => handler[c].at = "none" /\ Len(up) = 1
        BY <2>3, <2>9 DEF CallInv, OneRequest
    <2>11. CallInv(c)'
        BY <2>3, <2>7, <2>8, <2>9, <2>10 DEF CallInv, Unsent, Keyed, Estranged, OneRequest, Told
    <2> QED
        BY <2>6, <2>7, <2>8, <2>11, OthersKeep
<1> QED
    BY <1>1, <1>2

(* Every line the client reads ends the call truly or opens it.            *)
LEMMA ConsumeStep ==
    ASSUME LinkTypeOK, LinkInv, NEW c \in Calls, Consume(c)
    PROVE  LinkTypeOK' /\ LinkInv'
<1> DEFINE line == Head(conn[c].down)
<1>1. /\ UNCHANGED <<handler, occupant>> /\ conn[c].down # <<>>
      /\ conn[c].down \in Seq(DownLines) /\ Among(line, conn[c].down)
    BY LinesOfTail DEF Consume, LinkTypeOK, ConnStates
<1>2. /\ "PROTOCOL_MISMATCH" \in Codes \ (IdentityRefusals \cup {"OK"})
      /\ "DAEMON_PROTOCOL_ERROR" \in Codes \ (IdentityRefusals \cup {"OK"})
    BY DEF Codes, IdentityRefusals
<1>3. CASE At(c, "ready") /\ line = "ack" /\ TakeAck(c)
    BY <1>1, <1>3, TakeAckStep DEF At
<1>4. CASE At(c, "ready") /\ line = "mismatch" /\ EndUnsent(c, "PROTOCOL_MISMATCH")
    BY <1>1, <1>2, <1>4, EndUnsentStep DEF At
<1>5. CASE At(c, "ready") /\ line = "refusal" /\ EndUnsent(c, "DAEMON_PROTOCOL_ERROR")
    BY <1>1, <1>2, <1>5, EndUnsentStep DEF At
<1>6. CASE At(c, "pending") /\ line = "refusal" /\ EndIssued(c, "DAEMON_PROTOCOL_ERROR")
    BY <1>1, <1>2, <1>6, EndIssuedStep DEF At
<1>7. CASE At(c, "pending") /\ line \in Failures /\ EndIssued(c, line)
    <2>1. line \in Codes \ {"OK"}
        BY <1>7 DEF Codes, Failures, IdentityRefusals
    <2> HIDE DEF line
    <2> QED
        BY <1>1, <1>7, <2>1, EndIssuedStep DEF At
<1>8. CASE At(c, "pending") /\ line = "reply" /\ TakeReply(c)
    <2>1. /\ SuccessOutcome \in Outcomes /\ SuccessOutcome.code = "OK" /\ SuccessOutcome.log # "absent"
          /\ "OK" \notin IdentityRefusals /\ End(c, SuccessOutcome) /\ Among("reply", conn[c].down)
        BY <1>1, <1>8, OutcomesOfCalls DEF TakeReply, IdentityRefusals
    <2>2. LinkTypeOK'
        BY <1>1, <2>1, EndOfCall DEF LinkTypeOK
    <2>3. LinkInv'
        BY <1>1, <1>8, <2>1, EndsIssued DEF At
    <2> QED
        BY <2>2, <2>3
<1> QED
    BY <1>3, <1>4, <1>5, <1>6, <1>7, <1>8 DEF Consume
-----------------------------------------------------------------------------
(* The daemon's side.                                                      *)

(* What the server makes of a connection's lines.                          *)
LEMMA ServerReadsStep ==
    ASSUME LinkTypeOK, LinkInv, NEW c \in Calls, ServerReads(c)
    PROVE  LinkTypeOK' /\ LinkInv'
<1>1. /\ conn[c] \in ConnStates /\ handler[c] \in HandlerStates
      /\ conn[c].up \in Seq(UpLines) /\ conn[c].down \in Seq(DownLines)
      /\ conn[c].up # <<>> /\ UNCHANGED <<call, occupant>>
    BY DEF LinkTypeOK, ConnStates, ServerReads
<1> DEFINE line == Head(conn[c].up)
           rest == Tail(conn[c].up)
<1>2. /\ rest \in Seq(UpLines) /\ Len(rest) = Len(conn[c].up) - 1 /\ Among(line, conn[c].up)
      /\ \A l : Among(l, rest) => Among(l, conn[c].up)
    BY <1>1, LinesOfTail
<1>3. CallInv(c)
    BY DEF LinkInv
<1>4. call[c].at \notin {"idle", "snapshot", "connect"}
    BY <1>1, <1>3, NothingAmongNone DEF CallInv, Unsent
<1>5. call[c].kind # "stranger" => handler[c].at = "none" /\ rest = <<>>
    <2> HAVE call[c].kind # "stranger"
    <2>1. handler[c].at = "none" /\ Len(conn[c].up) <= 1
        BY <1>1, <1>3 DEF CallInv, OneRequest
    <2> QED
        BY <1>1, <1>2, <2>1
<1>6. ASSUME NEW last \in {"mismatch", "refusal"}, Refuse(c, last), UNCHANGED handler
      PROVE  LinkTypeOK' /\ LinkInv'
    <2> DEFINE down == Append(conn[c].down, last)
    <2>1. /\ down \in Seq(DownLines) /\ <<>> \in Seq(UpLines)
          /\ \A l : Among(l, down) => Among(l, conn[c].down) \/ l = last
        BY <1>1, LinesOfAppend DEF DownLines
    <2>2. conn' = [conn EXCEPT ![c] = [@ EXCEPT !.up = <<>>, !.down = down, !.srv = "closed", !.ended = TRUE]]
        BY <1>6 DEF Refuse
    <2>3. last \notin IdentityRefusals /\ last # "reply" /\ last # "ack"
        BY <1>6 DEF IdentityRefusals
    <2> HIDE DEF down
    <2>4. LinkTypeOK'
        <3>1. [conn[c] EXCEPT !.up = <<>>, !.down = down, !.srv = "closed", !.ended = TRUE] \in ConnStates
            BY <1>1, <2>1 DEF ConnStates
        <3> QED
            BY <1>1, <1>6, <2>2, <3>1 DEF LinkTypeOK
    <2>5. /\ \A x \in Calls \ {c} : conn'[x] = conn[x]
          /\ conn'[c].up = <<>> /\ conn'[c].down = down
        BY <1>1, <2>2 DEF LinkTypeOK, ConnStates
    <2>6. CallInv(c)'
        BY <1>1, <1>3, <1>4, <1>6, <2>1, <2>3, <2>5, NothingAmongNone
           DEF CallInv, Unsent, Keyed, Estranged, OneRequest, Told
    <2> QED
        BY <1>1, <1>6, <2>4, <2>5, <2>6, OthersKeep
<1>7. CASE Ack(c) /\ UNCHANGED handler
    <2> DEFINE down == Append(conn[c].down, "ack")
    <2>1. /\ down \in Seq(DownLines)
          /\ \A l : Among(l, down) => Among(l, conn[c].down) \/ l = "ack"
        BY <1>1, LinesOfAppend DEF DownLines
    <2>2. conn' = [conn EXCEPT ![c] = [@ EXCEPT !.up = rest, !.down = down, !.srv = "acked"]]
        BY <1>7 DEF Ack
    <2>3. "ack" \notin IdentityRefusals
        BY DEF IdentityRefusals
    <2> HIDE DEF down, rest
    <2>4. LinkTypeOK'
        <3>1. [conn[c] EXCEPT !.up = rest, !.down = down, !.srv = "acked"] \in ConnStates
            BY <1>1, <1>2, <2>1 DEF ConnStates
        <3> QED
            BY <1>1, <1>7, <2>2, <3>1 DEF LinkTypeOK
    <2>5. /\ \A x \in Calls \ {c} : conn'[x] = conn[x]
          /\ conn'[c].up = rest /\ conn'[c].down = down
        BY <1>1, <2>2 DEF LinkTypeOK, ConnStates
    <2>6. CallInv(c)'
        BY <1>1, <1>2, <1>3, <1>4, <1>5, <1>7, <2>1, <2>3, <2>5, NothingAmongNone
           DEF CallInv, Unsent, Keyed, Estranged, OneRequest, Told
    <2> QED
        BY <1>1, <1>7, <2>4, <2>5, <2>6, OthersKeep
<1>8. CASE line = "request" /\ Dispatch(c)
    <2>1. conn' = [conn EXCEPT ![c].up = rest] /\ handler' = [handler EXCEPT ![c].at = "verify"]
        BY <1>8 DEF Dispatch
    <2>2. Among("request", conn[c].up)
        BY <1>2, <1>8
    <2> HIDE DEF rest
    <2>3. LinkTypeOK'
        <3>1. [conn[c] EXCEPT !.up = rest] \in ConnStates
            BY <1>1, <1>2 DEF ConnStates
        <3>2. [handler[c] EXCEPT !.at = "verify"] \in HandlerStates
            BY <1>1 DEF HandlerStates
        <3> QED
            BY <1>1, <2>1, <3>1, <3>2 DEF LinkTypeOK
    <2>4. /\ \A x \in Calls \ {c} : conn'[x] = conn[x]
          /\ conn'[c].up = rest /\ conn'[c].down = conn[c].down
        BY <1>1, <2>1 DEF LinkTypeOK, ConnStates
    <2>5. /\ \A x \in Calls \ {c} : handler'[x] = handler[x]
          /\ handler'[c].at = "verify" /\ handler'[c].key = handler[c].key /\ handler'[c].effect = handler[c].effect
        BY <1>1, <2>1 DEF LinkTypeOK, HandlerStates
    <2>6. call[c].kind = "launch" /\ call[c].at = "ended" => call[c].out.code \notin IdentityRefusals \cup {"OK"}
        BY <1>3, <1>5 DEF CallInv, Told
    <2>7. CallInv(c)'
        BY <1>1, <1>2, <1>3, <1>4, <1>5, <2>2, <2>4, <2>5, <2>6, NothingAmongNone
           DEF CallInv, Unsent, Keyed, Estranged, OneRequest, Told
    <2> QED
        BY <1>1, <2>3, <2>4, <2>5, <2>7, OthersKeep
<1> QED
    BY <1>6, <1>7, <1>8 DEF ServerReads

(* The server's end closes.                                                *)
LEMMA ServerSeesCloseStep ==
    ASSUME LinkTypeOK, LinkInv, NEW c \in Calls, ServerSeesClose(c)
    PROVE  LinkTypeOK' /\ LinkInv'
<1>1. /\ conn[c] \in ConnStates /\ UNCHANGED <<call, handler, occupant>>
      /\ conn' = [conn EXCEPT ![c] = [@ EXCEPT !.srv = "closed", !.ended = TRUE]]
      /\ conn[c].srv # "none"
    BY DEF LinkTypeOK, ServerSeesClose, Open
<1>2. LinkTypeOK'
    <2>1. [conn[c] EXCEPT !.srv = "closed", !.ended = TRUE] \in ConnStates
        BY <1>1 DEF ConnStates
    <2> QED
        BY <1>1, <2>1 DEF LinkTypeOK
<1>3. /\ \A x \in Calls \ {c} : conn'[x] = conn[x]
      /\ conn'[c].up = conn[c].up /\ conn'[c].down = conn[c].down
    BY <1>1 DEF LinkTypeOK, ConnStates
<1>4. CallInv(c) /\ NoConn.srv = "none"
    BY DEF LinkInv, NoConn
<1>5. CallInv(c)'
    BY <1>1, <1>3, <1>4 DEF CallInv, Unsent, Keyed, Estranged, OneRequest, Told
<1> QED
    BY <1>1, <1>2, <1>3, <1>5, OthersKeep

(* A handler's last word.  A reply is of the claimed session's handler, an *)
(* identity refusal of one that did nothing.                               *)
LEMMA AnswerStep ==
    ASSUME LinkTypeOK, LinkInv, NEW c \in Calls, NEW last \in DownLines \ {"ack"}, Answer(c, last),
           handler[c].at \in {"verify", "body"}, UNCHANGED <<call, occupant>>,
           last = "reply" => handler[c].at = "body",
           last \in IdentityRefusals => handler[c].at = "verify"
    PROVE  LinkTypeOK' /\ LinkInv'
<1>1. /\ conn[c] \in ConnStates /\ handler[c] \in HandlerStates /\ conn[c].down \in Seq(DownLines)
      /\ handler' = [handler EXCEPT ![c].at = "answered"]
    BY DEF LinkTypeOK, ConnStates, Answer
<1>2. CallInv(c)
    BY DEF LinkInv
<1>3. /\ handler' \in [Calls -> HandlerStates]
      /\ \A x \in Calls \ {c} : handler'[x] = handler[x]
      /\ handler'[c].at = "answered" /\ handler'[c].key = handler[c].key /\ handler'[c].effect = handler[c].effect
    BY <1>1 DEF LinkTypeOK, HandlerStates
<1>4. /\ conn' \in [Calls -> ConnStates]
      /\ \A x \in Calls \ {c} : conn'[x] = conn[x]
      /\ conn'[c].up = conn[c].up
      /\ \A l : Among(l, conn'[c].down) => Among(l, conn[c].down) \/ l = last
    <2>1. CASE conn' = conn
        BY <2>1 DEF LinkTypeOK
    <2>2. CASE conn' = [conn EXCEPT ![c].down = Append(@, last)]
        <3> DEFINE down == Append(conn[c].down, last)
        <3>1. /\ down \in Seq(DownLines) /\ conn' = [conn EXCEPT ![c].down = down]
              /\ \A l : Among(l, down) => Among(l, conn[c].down) \/ l = last
            BY <1>1, <2>2, LinesOfAppend
        <3> HIDE DEF down
        <3>2. [conn[c] EXCEPT !.down = down] \in ConnStates
            BY <1>1, <3>1 DEF ConnStates
        <3>3. /\ \A x \in Calls \ {c} : conn'[x] = conn[x]
              /\ conn'[c].up = conn[c].up /\ conn'[c].down = down
            BY <1>1, <3>1 DEF LinkTypeOK, ConnStates
        <3> QED
            BY <3>1, <3>2, <3>3 DEF LinkTypeOK
    <2> QED
        BY <2>1, <2>2 DEF Answer
<1>5. /\ call[c].at \notin {"idle", "snapshot", "connect"}
      /\ call[c].kind # "stranger" => call[c].at # "ready"
      /\ call[c].kind # "stranger" /\ handler[c].at = "verify" => ~handler[c].effect
    BY <1>2, NothingAmongNone DEF CallInv, Unsent, OneRequest
<1>6. /\ last = "reply" => handler[c].key = call[c].claim
      /\ call[c].kind = "launch" /\ call[c].at = "ended" =>
            /\ ~((call[c].out.cert = "none" /\ call[c].out.code # "OK") \/ call[c].out.log = "absent")
            /\ call[c].out.code \notin IdentityRefusals \cup {"OK"}
    BY <1>2 DEF CallInv, Keyed, Told
<1>7. Unsent(c)' /\ Keyed(c)' /\ Estranged(c)' /\ Told(c)'
    BY <1>2, <1>3, <1>4, <1>5, <1>6 DEF CallInv, Unsent, Keyed, Estranged, Told
<1>8. OneRequest(c)'
    BY <1>2, <1>3, <1>4, <1>5, <1>6 DEF CallInv, OneRequest
<1>9. CallInv(c)'
    BY <1>7, <1>8 DEF CallInv
<1> QED
    BY <1>3, <1>4, <1>9, OthersKeep DEF LinkTypeOK

(* The caller is verified against the pane of now: a body runs only for    *)
(* the session that is there and was claimed.                              *)
LEMMA VerifyCallerStep ==
    ASSUME LinkTypeOK, LinkInv, NEW c \in Calls, VerifyCaller(c)
    PROVE  LinkTypeOK' /\ LinkInv'
<1>1. handler[c].at = "verify" /\ UNCHANGED <<call, occupant>>
    BY DEF VerifyCaller
<1>2. ASSUME NEW last \in IdentityRefusals, Answer(c, last)
      PROVE  LinkTypeOK' /\ LinkInv'
    <2>1. last \in DownLines \ {"ack"} /\ last # "reply"
        BY <1>2 DEF IdentityRefusals, DownLines, Failures
    <2> QED
        BY <1>1, <1>2, <2>1, AnswerStep
<1>3. CASE /\ ResolveManagerSession # None /\ SameSession(c)
           /\ handler' = [handler EXCEPT ![c] = [@ EXCEPT !.at = "body", !.key = ResolveManagerSession]]
           /\ UNCHANGED conn
    <2>1. handler[c] \in HandlerStates /\ CallInv(c)
        BY DEF LinkTypeOK, LinkInv
    <2>2. LinkTypeOK'
        <3>1. [handler[c] EXCEPT !.at = "body", !.key = ResolveManagerSession] \in HandlerStates
            BY <2>1 DEF HandlerStates, ResolveManagerSession, LinkTypeOK
        <3> QED
            BY <1>1, <1>3, <3>1 DEF LinkTypeOK
    <2>3. /\ \A x \in Calls \ {c} : handler'[x] = handler[x]
          /\ handler'[c].at = "body" /\ handler'[c].key = call[c].claim /\ handler'[c].effect = handler[c].effect
          /\ call[c].claim # None
        BY <1>3, <2>1 DEF LinkTypeOK, HandlerStates, SameSession
    <2>4. CallInv(c)'
        BY <1>1, <1>3, <2>1, <2>3, NothingAmongNone DEF CallInv, Unsent, Keyed, Estranged, OneRequest, Told
    <2> QED
        BY <1>1, <1>3, <2>2, <2>3, <2>4, OthersKeep
<1>4. /\ "CALLER_IDENTITY_MALFORMED" \in IdentityRefusals /\ "SNAPSHOT_UNAVAILABLE" \in IdentityRefusals
      /\ "CALLER_IDENTITY_UNPROVEN" \in IdentityRefusals /\ "MANAGER_SESSION_UNAVAILABLE" \in IdentityRefusals
      /\ "CALLER_IDENTITY_MISMATCH" \in IdentityRefusals
    BY DEF IdentityRefusals
<1> QED
    BY <1>2, <1>3, <1>4 DEF VerifyCaller

(* The handler acts, and ends.                                             *)
LEMMA HandlerStep ==
    ASSUME LinkTypeOK, LinkInv, NEW c \in Calls, Effect(c) \/ HandlerEnds(c)
    PROVE  LinkTypeOK' /\ LinkInv'
<1>1. CASE Effect(c)
    <2>1. /\ handler[c] \in HandlerStates /\ CallInv(c) /\ handler[c].at = "body"
          /\ UNCHANGED <<call, conn, occupant>> /\ handler' = [handler EXCEPT ![c].effect = TRUE]
        BY <1>1 DEF LinkTypeOK, LinkInv, Effect
    <2>2. LinkTypeOK'
        <3>1. [handler[c] EXCEPT !.effect = TRUE] \in HandlerStates
            BY <2>1 DEF HandlerStates
        <3> QED
            BY <2>1, <3>1 DEF LinkTypeOK
    <2>3. /\ \A x \in Calls \ {c} : handler'[x] = handler[x]
          /\ handler'[c].at = "body" /\ handler'[c].key = handler[c].key /\ handler'[c].effect
        BY <2>1 DEF LinkTypeOK, HandlerStates
    <2>4. CallInv(c)'
        BY <2>1, <2>3, NothingAmongNone DEF CallInv, Unsent, Keyed, Estranged, OneRequest, Told
    <2> QED
        BY <2>1, <2>2, <2>3, <2>4, OthersKeep
<1>2. CASE HandlerEnds(c)
    <2>1. PICK last \in {"reply", "DAEMON_REQUEST_REFUSED", "DAEMON_REQUEST_FAILED", "DAEMON_RESPONSE_TOO_LARGE"} :
             Answer(c, last)
        BY <1>2 DEF HandlerEnds
    <2>2. last \in DownLines \ {"ack"} /\ last \notin IdentityRefusals
        BY <2>1 DEF DownLines, Failures, IdentityRefusals
    <2> QED
        BY <1>2, <2>1, <2>2, AnswerStep DEF HandlerEnds
<1> QED
    BY <1>1, <1>2

(* A daemon that closes or dies takes its connections along and, when it   *)
(* dies, its handlers; what it had answered stays answered.                *)
LEMMA DropStep ==
    ASSUME LinkTypeOK, LinkInv, NEW d \in Daemons, NEW kept \in Keeps, conn' = Dropped(Of(d), kept),
           \/ UNCHANGED handler
           \/ handler' = [c \in Calls |-> IF c \in Of(d) /\ Running(c) THEN [handler[c] EXCEPT !.at = "dead"]
                                          ELSE handler[c]],
           UNCHANGED <<call, occupant>>
    PROVE  LinkTypeOK' /\ LinkInv'
<1>1. ASSUME NEW c \in Calls
      PROVE  /\ conn'[c] \in ConnStates /\ handler'[c] \in HandlerStates
             /\ CallInv(c)'
    <2>1. /\ conn[c] \in ConnStates /\ handler[c] \in HandlerStates /\ CallInv(c)
          /\ conn[c].up \in Seq(UpLines) /\ conn[c].down \in Seq(DownLines) /\ kept[c] \in 0 .. Len(conn[c].down)
        BY DEF LinkTypeOK, LinkInv, ConnStates, Keeps
    <2>2. /\ handler'[c] \in HandlerStates /\ handler'[c].key = handler[c].key
          /\ handler'[c].effect = handler[c].effect
          /\ \/ handler'[c].at = handler[c].at
             \/ handler[c].at \in {"verify", "body"} /\ handler'[c].at = "dead"
          /\ handler[c] = NoHandler => handler'[c] = NoHandler
        <3>1. CASE handler'[c] = handler[c]
            BY <2>1, <3>1
        <3>2. CASE Running(c) /\ handler'[c] = [handler[c] EXCEPT !.at = "dead"]
            BY <2>1, <3>2, NothingAmongNone DEF Running, HandlerStates
        <3> QED
            BY <3>1, <3>2
    <2>3. /\ conn'[c] \in ConnStates
          /\ conn'[c].up = conn[c].up \/ conn'[c].up = <<>>
          /\ \A l : Among(l, conn'[c].down) => Among(l, conn[c].down)
          /\ conn[c] = NoConn => conn'[c] = NoConn
        <3>1. CASE conn'[c] = conn[c]
            BY <2>1, <3>1
        <3>2. CASE /\ Open(c)
                   /\ conn'[c] = [conn[c] EXCEPT !.up = <<>>, !.down = SubSeq(conn[c].down, 1, kept[c]),
                                                 !.srv = "closed", !.ended = TRUE]
            <4> DEFINE down == SubSeq(conn[c].down, 1, kept[c])
            <4>1. /\ down \in Seq(DownLines) /\ <<>> \in Seq(UpLines)
                  /\ \A l : Among(l, down) => Among(l, conn[c].down)
                BY <2>1, LinesOfPrefix
            <4>2. conn'[c] = [conn[c] EXCEPT !.up = <<>>, !.down = down, !.srv = "closed", !.ended = TRUE]
                BY <3>2
            <4> HIDE DEF down
            <4>3. conn'[c] \in ConnStates /\ conn'[c].up = <<>> /\ conn'[c].down = down
                BY <2>1, <4>1, <4>2 DEF ConnStates
            <4>4. conn[c] # NoConn
                BY <3>2 DEF Open, NoConn
            <4> QED
                BY <4>1, <4>3, <4>4
        <3> QED
            BY <3>1, <3>2 DEF Dropped
    <2>4. /\ Len(conn'[c].up) <= Len(conn[c].up) /\ conn[c].up = <<>> => conn'[c].up = <<>>
          /\ \A l : Among(l, conn'[c].up) => Among(l, conn[c].up)
        BY <2>1, <2>3, NothingAmongNone
    <2>5. Len(conn[c].up) \in Nat /\ Len(conn'[c].up) \in Nat
        BY <2>1, <2>3
    <2>6. Unsent(c)' /\ Keyed(c)' /\ Estranged(c)' /\ Told(c)'
        BY <2>1, <2>2, <2>3, <2>4 DEF CallInv, Unsent, Keyed, Estranged, Told
    <2>7. OneRequest(c)'
        BY <2>1, <2>2, <2>3, <2>4, <2>5 DEF CallInv, OneRequest
    <2> QED
        BY <2>2, <2>3, <2>6, <2>7 DEF CallInv
<1>2. conn' \in [Calls -> ConnStates] /\ handler' \in [Calls -> HandlerStates]
    <2>1. /\ conn' = [c \in Calls |-> conn'[c]]
          /\ handler' = [c \in Calls |-> handler'[c]]
        BY DEF Dropped, LinkTypeOK
    <2> QED
        BY <1>1, <2>1
<1> QED
    BY <1>1, <1>2 DEF LinkTypeOK, LinkInv
-----------------------------------------------------------------------------
(* Every step keeps the types and the invariant of the calls.              *)
LEMMA LinkStep ==
    ASSUME LinkTypeOK, LinkInv, [Next]_vars
    PROVE  LinkTypeOK' /\ LinkInv'
<1>1. CASE UNCHANGED link
    BY <1>1 DEF link, LinkTypeOK, LinkInv, CallInv, Unsent, Keyed, Estranged, OneRequest, Told
<1>2. CASE UNCHANGED vars
    BY <1>1, <1>2 DEF vars
<1>3. ASSUME NEW d \in Daemons, DaemonCloses(d) \/ DaemonCrashes(d)
      PROVE  LinkTypeOK' /\ LinkInv'
    BY <1>3, DropStep DEF DaemonCloses, DaemonCrashes
<1>4. ASSUME NEW d \in Daemons,
             \/ DaemonStarts(d) \/ DaemonRestarts(d) \/ DaemonStep(d) \/ DaemonConfirms(d)
             \/ DaemonSignaled(d) \/ DaemonExits(d) \/ HolderGone(d)
      PROVE  UNCHANGED link
    BY <1>4 DEF DaemonStarts, DaemonRestarts, DaemonStep, DaemonConfirms, DaemonSignaled, DaemonExits, HolderGone
<1>5. ASSUME NEW c \in Calls, CallStep(c)
      PROVE  LinkTypeOK' /\ LinkInv'
    BY <1>5, CallToolStep, ReadClaimStep, ConnectStep, ConnectFailsStep, AbortStep, HostExitsStep, RequestTimerStep,
       ConsumeStep DEF CallStep
<1>6. ASSUME NEW c \in Calls, ServerStep(c)
      PROVE  LinkTypeOK' /\ LinkInv'
    BY <1>6, ServerReadsStep, ServerSeesCloseStep, VerifyCallerStep, HandlerStep DEF ServerStep
<1>7. CASE OccupantChanges
    BY <1>7 DEF OccupantChanges, LinkTypeOK, LinkInv, CallInv, Unsent, Keyed, Estranged, OneRequest, Told
<1> QED
    BY <1>1, <1>2, <1>3, <1>4, <1>5, <1>6, <1>7 DEF Next

(* Every step keeps the types of the service: calls and turnovers only     *)
(* draw on the allowance.                                                  *)
LEMMA ServiceTypeKept ==
    ASSUME ServiceTypeOK, [Next]_vars
    PROVE  ServiceTypeOK'
<1>1. ASSUME NEW d \in Daemons, ServiceStep(d)
      PROVE  ServiceTypeOK'
    BY <1>1, ServiceTypeStep
<1>2. CASE UNCHANGED <<proc, lock, path, lost>> /\ left' \in Allowance
    BY <1>2 DEF ServiceTypeOK
<1>3. left' \in Allowance \/ \E d \in Daemons : ServiceStep(d)
    <2>1. left \in Allowance
        BY DEF ServiceTypeOK
    <2>2. ASSUME NEW c \in Calls, CallStep(c)
          PROVE  left' \in Allowance
        BY <2>1, <2>2, UseKeepsCounts
           DEF CallStep, CallTool, ReadClaim, Connect, ConnectFails, Abort, HostExits, HandshakeTimer, RequestTimer,
               Consume, SeeClose, service
    <2>3. ASSUME NEW c \in Calls, ServerStep(c)
          PROVE  left' \in Allowance
        BY <2>1, <2>3 DEF ServerStep, ServerReads, ServerSeesClose, VerifyCaller, Effect, HandlerEnds, service
    <2>4. OccupantChanges => left' \in Allowance
        BY <2>1, UseKeepsCounts DEF OccupantChanges
    <2>5. UNCHANGED vars => left' \in Allowance
        BY <2>1 DEF vars, service
    <2>6. ASSUME NEW d \in Daemons,
                 \/ DaemonStarts(d) \/ DaemonRestarts(d) \/ DaemonStep(d) \/ DaemonConfirms(d)
                 \/ DaemonSignaled(d) \/ DaemonCloses(d) \/ DaemonExits(d) \/ DaemonCrashes(d) \/ HolderGone(d)
          PROVE  ServiceStep(d)
        BY <2>6 DEF ServiceStep, DaemonStarts, DaemonRestarts, DaemonStep, DaemonConfirms, DaemonSignaled,
                    DaemonCloses, DaemonExits, DaemonCrashes, HolderGone
    <2> QED
        BY <2>2, <2>3, <2>4, <2>5, <2>6 DEF Next
<1> QED
    BY <1>1, <1>2, <1>3, StepsOfService

(* The first state.                                                        *)
LEMMA LinkStart ==
    ASSUME Init
    PROVE  ServiceTypeOK /\ ServiceInv /\ LinkTypeOK /\ LinkInv
<1>1. ServiceTypeOK
    BY AllowancesAreCounts DEF Init, ServiceInit, ServiceTypeOK, Process, Down
<1>2. ServiceInv
    BY DistinctNames DEF Init, ServiceInit, ServiceInv, Owning, Starting, Listening
<1>3. PICK kind \in [Calls -> Kinds] :
         call = [c \in Calls |-> [at |-> "idle", kind |-> kind[c], claim |-> None, aborted |-> FALSE, out |-> NoOutcome]]
    BY DEF Init, LinkInit
<1>4. NoOutcome \in Outcomes
    BY DEF NoOutcome, Outcomes, Codes
<1>5. NoConn \in ConnStates
    <2>1. <<>> \in Seq(UpLines) /\ <<>> \in Seq(DownLines)
        OBVIOUS
    <2> QED
        BY <2>1 DEF NoConn, ConnStates
<1>6. NoHandler \in HandlerStates
    BY DEF NoHandler, HandlerStates
<1>7. LinkTypeOK
    BY <1>3, <1>4, <1>5, <1>6 DEF LinkTypeOK, Init, LinkInit, CallStates, Phases
<1>8. LinkInv
    BY <1>3, NothingAmongNone
       DEF Init, LinkInit, LinkInv, CallInv, Unsent, Keyed, Estranged, OneRequest, Told
<1> QED
    BY <1>1, <1>2, <1>7, <1>8

(* The daemons, the calls, their connections and handlers keep their       *)
(* types: an exit code is never other than 0 or 1, an outcome never other  *)
(* than one the client can publish.                                        *)
THEOREM DaemonLinkTypes == Spec => []TypeOK
<1>1. Init => ServiceTypeOK /\ LinkTypeOK /\ LinkInv
    BY LinkStart
<1>2. ServiceTypeOK /\ LinkTypeOK /\ LinkInv /\ [Next]_vars => (ServiceTypeOK /\ LinkTypeOK /\ LinkInv)'
    BY ServiceTypeKept, LinkStep
<1>3. ServiceTypeOK /\ LinkTypeOK /\ LinkInv => TypeOK
    BY DEF TypeOK, LinkTypeOK
<1> QED
    BY <1>1, <1>2, <1>3, PTL DEF Spec

(* However many daemons start, crash, stop and restart for one namespace,  *)
(* and whatever sockets are left behind: as long as no lock holder is      *)
(* killed, only the owner of daemon.lock sweeps, unlinks, binds or serves, *)
(* and daemon.sock leads to it while it listens.                           *)
THEOREM DaemonServesAlone == Spec => []ServedAlone
<1>1. Init => ServiceTypeOK /\ ServiceInv
    BY LinkStart
<1>2. ServiceTypeOK /\ ServiceInv /\ [Next]_vars => (ServiceTypeOK /\ ServiceInv)'
    <2> SUFFICES ASSUME ServiceTypeOK, ServiceInv, [Next]_vars
                 PROVE  ServiceTypeOK' /\ ServiceInv'
        OBVIOUS
    <2>1. CASE \E d \in Daemons : ServiceStep(d)
        BY <2>1, ServiceInvStep, ServiceTypeKept
    <2>2. CASE UNCHANGED <<proc, lock, path, lost>>
        BY <2>2, ServiceTypeKept DEF ServiceInv
    <2> QED
        BY <2>1, <2>2, StepsOfService
<1>3. ServiceInv => ServedAlone
    BY DEF ServiceInv, ServedAlone
<1> QED
    BY <1>1, <1>2, <1>3, PTL DEF Spec

(* What a launch call tells its caller is so, for any number of calls,     *)
(* sessions and daemons, in any order of timers, aborts, exits, crashes    *)
(* and turnovers of the pane: an error without the certainty `unknown' is  *)
(* of a request no daemon has run or can still receive, a reply is of the  *)
(* handler that ran for the claimed session, and no effect is made for a   *)
(* session other than the claimed one.                                     *)
THEOREM OutcomesAreTrue == Spec => []OutcomeIsTrue
<1>1. Init => LinkTypeOK /\ LinkInv
    BY LinkStart
<1>2. LinkTypeOK /\ LinkInv /\ [Next]_vars => (LinkTypeOK /\ LinkInv)'
    BY LinkStep
<1>3. LinkInv => OutcomeIsTrue
    BY DEF LinkInv, CallInv, Keyed, Told, OutcomeIsTrue, Among, At
<1> QED
    BY <1>1, <1>2, <1>3, PTL DEF Spec
=============================================================================
