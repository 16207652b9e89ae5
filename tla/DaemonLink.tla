----------------------------- MODULE DaemonLink -----------------------------
(***************************************************************************)
(* A tool call over the daemon socket: the host (mcp/run.ts,               *)
(* mcp/adapter.ts, tool-surface.ts) derives the caller's claim and opens a *)
(* fresh connection, the client (daemon/client.ts) shakes hands and sends  *)
(* one request, the daemon (daemon/server.ts, daemon/runtime.ts) verifies  *)
(* the caller and runs the handler, and the answer, the timer, the abort   *)
(* or the death of either side ends the call.  What is written may still   *)
(* arrive after the writer closed; what a handler began it finishes.       *)
(***************************************************************************)
EXTENDS DaemonService, Sequences

CONSTANTS
    Calls,      \* tool calls of the managers' hosts
    Sessions,   \* native sessions that occupy the calling pane in turn
    Speaking    \* the daemons that speak the clients' protocol version

VARIABLES
    call,      \* call[c]: the call as its host sees it
    conn,      \* conn[c]: its connection, with the lines under way
    handler,   \* handler[c]: the daemon's execution of its request
    occupant   \* the session in the calling pane, None without one

link == <<call, conn, handler, occupant>>
vars == <<service, link>>

Kinds == {"launch", "read", "stranger"}

NoOutcome == [code |-> "", cert |-> "none", log |-> "none"]
NoConn == [to |-> None, up |-> <<>>, down |-> <<>>, srv |-> "none", left |-> FALSE, ended |-> FALSE]
NoHandler == [at |-> "none", key |-> None, effect |-> FALSE]

Phases == {"idle", "snapshot", "connect", "ready", "pending", "ended", "gone"}

IdentityRefusals ==
    {"CALLER_IDENTITY_MALFORMED", "SNAPSHOT_UNAVAILABLE", "CALLER_IDENTITY_UNPROVEN",
     "MANAGER_SESSION_UNAVAILABLE", "CALLER_IDENTITY_MISMATCH"}
Failures ==
    IdentityRefusals \cup {"DAEMON_REQUEST_REFUSED", "DAEMON_REQUEST_FAILED", "DAEMON_RESPONSE_TOO_LARGE"}

\* The policy gates of a delegated serve refuse before any traffic.
DelegatedRefusals == {"DELEGATED_CALLER_DISABLED", "DELEGATED_CALLER_REQUIRED", "DELEGATED_CALLER_INVALID"}

\* An outcome: its code, the certainty its details carry, and the certainty
\* the telemetry line records.
Codes ==
    {"", "OK", "INVALID_INPUT", "ABORTED", "CONTEXT_UNAVAILABLE", "CLI_FAILED", "DAEMON_UNAVAILABLE",
     "PROTOCOL_MISMATCH", "DAEMON_PROTOCOL_ERROR", "DAEMON_REQUEST_TIMEOUT"} \cup DelegatedRefusals \cup Failures
Outcomes == [code : Codes, cert : {"none", "unknown"}, log : {"absent", "unknown", "confirmed", "none"}]

\* What parseDaemonLine can make of a line: `junk' is any line it throws on.
UpLines == {"hello", "request", "junk"}
DownLines == {"ack", "mismatch", "refusal", "reply"} \cup Failures

CallStates == [at : Phases, kind : Kinds, claim : Sessions \cup {None}, aborted : BOOLEAN, out : Outcomes]
ConnStates ==
    [to : Daemons \cup {None}, up : Seq(UpLines), down : Seq(DownLines),
     srv : {"none", "new", "acked", "closed"}, left : BOOLEAN, ended : BOOLEAN]
HandlerStates ==
    [at : {"none", "verify", "body", "answered", "dead"}, key : Sessions \cup {None}, effect : BOOLEAN]

TypeOK ==
    /\ ServiceTypeOK
    /\ call \in [Calls -> CallStates]
    /\ conn \in [Calls -> ConnStates]
    /\ handler \in [Calls -> HandlerStates]
    /\ occupant \in Sessions \cup {None}

LinkInit ==
    /\ \E kind \in [Calls -> Kinds] :
          call = [c \in Calls |-> [at |-> "idle", kind |-> kind[c], claim |-> None, aborted |-> FALSE, out |-> NoOutcome]]
    /\ conn = [c \in Calls |-> NoConn]
    /\ handler = [c \in Calls |-> NoHandler]
    /\ occupant \in Sessions

Init == ServiceInit /\ LinkInit

Prefixes(s) == {SubSeq(s, 1, n) : n \in 0 .. Len(s)}

At(c, phase) == call[c].at = phase
Move(c, phase) == call' = [call EXCEPT ![c].at = phase]

Open(c) == conn[c].srv \in {"new", "acked"}
Running(c) == handler[c].at \in {"verify", "body"}
-----------------------------------------------------------------------------
(* How a call ends. *)

\* A transport failure passes its code on and no certainty.
ProjectedBare(c) == "none"

\* projectCallError: whatever rejects a launch that was sent, the error
\* carries the certainty `unknown'.
Projected(c) == IF call[c].kind = "launch" THEN "unknown" ELSE "none"

\* telemetryEffectCertainty: the certainty the value carries, or else one
\* that depends only on whether the call threw.
Logged(cert, fallback) == IF cert = "none" THEN fallback ELSE cert

ErrorOutcome(code, cert) == [code |-> code, cert |-> cert, log |-> Logged(cert, "unknown")]

SuccessOutcome == [code |-> "OK", cert |-> "none", log |-> Logged("none", "confirmed")]

\* The schema check comes first: an invalid call touches nothing.
InvalidOutcome == [code |-> "INVALID_INPUT", cert |-> "none", log |-> "absent"]

\* The call ends and the client destroys its socket: what it wrote may or may
\* not have left, what was coming is dropped.
End(c, out) ==
    /\ call' = [call EXCEPT ![c] = [@ EXCEPT !.at = "ended", !.out = out]]
    /\ \E sent \in Prefixes(conn[c].up) :
          conn' = [conn EXCEPT ![c] = [@ EXCEPT !.up = sent, !.down = <<>>, !.left = TRUE]]

\* The socket failed before the request: connectDaemon throws it as it is.
EndUnsent(c, code) == End(c, ErrorOutcome(code, "none"))

\* The request was issued: the call layer projects the rejection.
EndIssued(c, code) == End(c, ErrorOutcome(code, Projected(c)))

\* DaemonClientSocket.fail: a closed socket rejects the handshake or the one
\* pending request.
Fail(c, code) == IF At(c, "ready") THEN EndUnsent(c, code) ELSE EndIssued(c, code)
-----------------------------------------------------------------------------
(* The host. *)

CallTool(c) ==
    /\ At(c, "idle") /\ Use("calls")
    /\ \/ Move(c, IF call[c].kind = "stranger" THEN "connect" ELSE "snapshot") /\ UNCHANGED conn
       \/ /\ call[c].kind # "stranger"
          /\ End(c, InvalidOutcome)
    /\ UNCHANGED <<proc, lock, path, lost, handler, occupant>>

\* The session a fresh snapshot shows in the calling pane.
ResolveManagerSession == occupant

\* The claim is read anew for every call; a pane the snapshot does not show
\* once, or shows with contradictory sessions, has none.
ReadClaim(c) ==
    /\ At(c, "snapshot")
    /\ \/ call' = [call EXCEPT ![c] = [@ EXCEPT !.at = "connect", !.claim = ResolveManagerSession]] /\ UNCHANGED conn
       \/ \E code \in DelegatedRefusals \cup {"CONTEXT_UNAVAILABLE", "CLI_FAILED"} : EndUnsent(c, code)
    /\ UNCHANGED <<service, handler, occupant>>

\* The name is resolved now; the client writes hello at once.  A stranger may
\* begin with any other line.
Connect(c) ==
    /\ At(c, "connect") /\ path \in Daemons
    /\ Move(c, "ready")
    /\ \E first \in IF call[c].kind = "stranger" THEN UpLines ELSE {"hello"} :
          conn' = [conn EXCEPT ![c] = [NoConn EXCEPT !.to = path, !.up = <<first>>, !.srv = "new"]]
    /\ UNCHANGED <<service, handler, occupant>>

\* Nothing behind the name, or the connect timer.
ConnectFails(c) ==
    /\ At(c, "connect")
    /\ EndUnsent(c, "DAEMON_UNAVAILABLE")
    /\ UNCHANGED <<service, handler, occupant>>

\* An abort reaches the snapshot's CLI call, and the socket once the request
\* is out; while the connection is opened nobody listens for it.
Abort(c) ==
    /\ call[c].kind # "stranger" /\ ~call[c].aborted
    /\ \/ At(c, "snapshot") /\ EndUnsent(c, "ABORTED")
       \/ /\ call[c].at \in {"connect", "ready"}
          /\ call' = [call EXCEPT ![c].aborted = TRUE]
          /\ UNCHANGED conn
       \/ At(c, "pending") /\ EndIssued(c, "DAEMON_UNAVAILABLE")
    /\ UNCHANGED <<service, handler, occupant>>

\* The host exits under its call: no outcome is published.
HostExits(c) ==
    /\ call[c].at \in {"snapshot", "connect", "ready", "pending"}
    /\ Move(c, "gone")
    /\ \E sent \in Prefixes(conn[c].up) :
          conn' = [conn EXCEPT ![c] = [@ EXCEPT !.up = sent, !.down = <<>>, !.left = TRUE]]
    /\ UNCHANGED <<service, handler, occupant>>
-----------------------------------------------------------------------------
(* The client socket. *)

HandshakeTimer(c) ==
    /\ At(c, "ready")
    /\ EndUnsent(c, "DAEMON_UNAVAILABLE")
    /\ UNCHANGED <<service, handler, occupant>>

\* No deadline is set for the request.
NoRequestTimer(c) ==
    /\ At(c, "pending") /\ call[c].kind = "stranger"
    /\ EndIssued(c, "DAEMON_REQUEST_TIMEOUT")
    /\ UNCHANGED <<service, handler, occupant>>

\* The deadline drops the pending entry; the daemon may still be executing.
RequestTimer(c) ==
    /\ At(c, "pending")
    /\ EndIssued(c, "DAEMON_REQUEST_TIMEOUT")
    /\ UNCHANGED <<service, handler, occupant>>

\* A request whose frame exceeds the bound is rejected and never written.
RequestTooLarge(c) == EndIssued(c, "DAEMON_PROTOCOL_ERROR")

\* The ack opens the connection; the abort listener is set and the request is
\* written before anything else happens.
TakeAck(c) ==
    \/ /\ call' = [call EXCEPT ![c].at = "pending"]
       /\ \E next \in IF call[c].kind = "stranger" THEN UpLines ELSE {"request"} :
             conn' = [conn EXCEPT ![c] = [@ EXCEPT !.up = Append(conn[c].up, next), !.down = Tail(conn[c].down)]]
    \/ RequestTooLarge(c)

\* The reply has the shape its method documents: the daemon sends no other.
TakeReply(c) == End(c, SuccessOutcome)

\* consume: one line from the daemon, by where the handshake stands.
Consume(c) ==
    /\ call[c].at \in {"ready", "pending"} /\ conn[c].down # <<>>
    /\ LET line == Head(conn[c].down) IN
          \/ At(c, "ready") /\ line = "ack" /\ TakeAck(c)
          \/ At(c, "ready") /\ line = "mismatch" /\ EndUnsent(c, "PROTOCOL_MISMATCH")
          \/ At(c, "ready") /\ line = "refusal" /\ EndUnsent(c, "DAEMON_PROTOCOL_ERROR")
          \/ At(c, "pending") /\ line = "refusal" /\ EndIssued(c, "DAEMON_PROTOCOL_ERROR")
          \/ At(c, "pending") /\ line \in Failures /\ EndIssued(c, line)
          \/ At(c, "pending") /\ line = "reply" /\ TakeReply(c)
    /\ UNCHANGED <<service, handler, occupant>>

SeeClose(c) ==
    /\ call[c].at \in {"ready", "pending"} /\ conn[c].down = <<>> /\ conn[c].ended
    /\ Fail(c, "DAEMON_UNAVAILABLE")
    /\ UNCHANGED <<service, handler, occupant>>
-----------------------------------------------------------------------------
(* The server connection. *)

\* end(line): the one bounded error line is flushed ahead of the close.
Refuse(c, line) ==
    conn' = [conn EXCEPT ![c] = [@ EXCEPT !.up = <<>>, !.down = Append(conn[c].down, line),
                                          !.srv = "closed", !.ended = TRUE]]

Ack(c) ==
    conn' = [conn EXCEPT ![c] = [@ EXCEPT !.up = Tail(conn[c].up), !.down = Append(conn[c].down, "ack"),
                                          !.srv = "acked"]]

\* A request is dispatched and not awaited.
Dispatch(c) ==
    /\ conn' = [conn EXCEPT ![c].up = Tail(@)]
    /\ handler' = [handler EXCEPT ![c].at = "verify"]

ServerReads(c) ==
    /\ Open(c) /\ conn[c].up # <<>>
    /\ LET line == Head(conn[c].up) IN
          \/ /\ conn[c].srv = "new" /\ line = "hello"
             /\ IF conn[c].to \in Speaking THEN Ack(c) ELSE Refuse(c, "mismatch")
             /\ UNCHANGED handler
          \/ conn[c].srv = "new" /\ line # "hello" /\ Refuse(c, "refusal") /\ UNCHANGED handler
          \/ conn[c].srv = "acked" /\ line = "request" /\ Dispatch(c)
          \/ conn[c].srv = "acked" /\ line # "request" /\ Refuse(c, "refusal") /\ UNCHANGED handler
    /\ UNCHANGED <<service, call, occupant>>

ServerSeesClose(c) ==
    /\ Open(c) /\ conn[c].up = <<>> /\ conn[c].left
    /\ conn' = [conn EXCEPT ![c] = [@ EXCEPT !.srv = "closed", !.ended = TRUE]]
    /\ UNCHANGED <<service, call, handler, occupant>>

\* An answer is written only while its connection is open.
Answer(c, line) ==
    /\ handler' = [handler EXCEPT ![c].at = "answered"]
    /\ conn' = IF Open(c) /\ ~conn[c].left THEN [conn EXCEPT ![c].down = Append(@, line)] ELSE conn

\* parseCallerClaim: only a stranger's request may lack a usable identity.
MalformedClaim(c) == call[c].kind = "stranger"

SameSession(c) == ResolveManagerSession = call[c].claim

\* verifyDaemonCaller: one fresh snapshot decides whether the claim is true.
VerifyCaller(c) ==
    /\ handler[c].at = "verify"
    /\ \/ MalformedClaim(c) /\ Answer(c, "CALLER_IDENTITY_MALFORMED")
       \/ Answer(c, "SNAPSHOT_UNAVAILABLE")
       \/ Answer(c, "CALLER_IDENTITY_UNPROVEN")
       \/ ResolveManagerSession = None /\ Answer(c, "MANAGER_SESSION_UNAVAILABLE")
       \/ ResolveManagerSession # None /\ ~SameSession(c) /\ Answer(c, "CALLER_IDENTITY_MISMATCH")
       \/ /\ ResolveManagerSession # None /\ SameSession(c)
          /\ handler' = [handler EXCEPT ![c] = [@ EXCEPT !.at = "body", !.key = ResolveManagerSession]]
          /\ UNCHANGED conn
    /\ UNCHANGED <<service, call, occupant>>

\* The handler's own effect: a launch's child, a run operation's record.
Effect(c) ==
    /\ handler[c].at = "body" /\ ~handler[c].effect
    /\ handler' = [handler EXCEPT ![c].effect = TRUE]
    /\ UNCHANGED <<service, call, conn, occupant>>

\* A handler answers, refuses before its effect, or fails after it; a result
\* that does not fit a frame becomes a failure.
HandlerEnds(c) ==
    /\ handler[c].at = "body"
    /\ \/ Answer(c, "reply")
       \/ ~handler[c].effect /\ Answer(c, "DAEMON_REQUEST_REFUSED")
       \/ Answer(c, "DAEMON_REQUEST_FAILED")
       \/ Answer(c, "DAEMON_RESPONSE_TOO_LARGE")
    /\ UNCHANGED <<service, call, occupant>>

\* The pane's occupant leaves or another session takes it over.
OccupantChanges ==
    /\ Use("turnovers")
    /\ \E s \in (Sessions \cup {None}) \ {occupant} : occupant' = s
    /\ UNCHANGED <<proc, lock, path, lost, call, conn, handler>>
-----------------------------------------------------------------------------
(* What the daemon's life does to its connections. *)

Of(d) == {c \in Calls : conn[c].to = d}

\* The daemon's ends of these connections are gone; a written line may be
\* read by the client before it sees the close.
Dropped(gone, kept) ==
    [c \in Calls |-> IF c \in gone /\ Open(c)
                     THEN [conn[c] EXCEPT !.up = <<>>, !.down = SubSeq(conn[c].down, 1, kept[c]), !.srv = "closed", !.ended = TRUE]
                     ELSE conn[c]]

Keeps == {kept \in [Calls -> 0 .. 2] : \A c \in Calls : kept[c] <= Len(conn[c].down)}

DaemonCloses(d) ==
    /\ CloseServer(d)
    /\ \E kept \in Keeps : conn' = Dropped(Of(d), kept)
    /\ UNCHANGED <<call, handler, occupant>>

\* Handlers die with their process.
DaemonCrashes(d) ==
    /\ Crash(d)
    /\ \E kept \in Keeps : conn' = Dropped(Of(d), kept)
    /\ handler' = [c \in Calls |-> IF c \in Of(d) /\ Running(c) THEN [handler[c] EXCEPT !.at = "dead"] ELSE handler[c]]
    /\ UNCHANGED <<call, occupant>>

DaemonExits(d) ==
    /\ Exit(d)
    /\ \A c \in Of(d) : ~Open(c) /\ ~Running(c)
    /\ UNCHANGED link

DaemonStep(d) == Proceed(d) /\ UNCHANGED link
DaemonConfirms(d) == ConfirmLease(d) /\ UNCHANGED link
DaemonStarts(d) == OperatorStarts(d) /\ UNCHANGED link
DaemonRestarts(d) == SystemdRestarts(d) /\ UNCHANGED link
DaemonSignaled(d) == Signal(d) /\ UNCHANGED link
HolderGone(d) == (HolderEnds(d) \/ LoseHolder(d)) /\ UNCHANGED link

CallStep(c) ==
    \/ CallTool(c) \/ ReadClaim(c) \/ Connect(c) \/ ConnectFails(c) \/ Abort(c) \/ HostExits(c)
    \/ HandshakeTimer(c) \/ RequestTimer(c) \/ Consume(c) \/ SeeClose(c)

ServerStep(c) ==
    \/ ServerReads(c) \/ ServerSeesClose(c) \/ VerifyCaller(c) \/ Effect(c) \/ HandlerEnds(c)

Next ==
    \/ \E d \in Daemons :
          \/ DaemonStarts(d) \/ DaemonRestarts(d) \/ DaemonStep(d) \/ DaemonConfirms(d)
          \/ DaemonSignaled(d) \/ DaemonCloses(d) \/ DaemonExits(d) \/ DaemonCrashes(d) \/ HolderGone(d)
    \/ \E c \in Calls : CallStep(c) \/ ServerStep(c)
    \/ OccupantChanges

\* The event loops run, the timers fire, systemd restarts what failed and a
\* lock holder reads the end of its input.  Nothing makes a handler answer.
Fairness ==
    /\ \A d \in Daemons :
          /\ WF_vars(DaemonRestarts(d)) /\ WF_vars(DaemonStep(d)) /\ WF_vars(DaemonConfirms(d))
          /\ WF_vars(DaemonCloses(d)) /\ WF_vars(HolderEnds(d) /\ UNCHANGED link)
    /\ \A c \in Calls :
          /\ WF_vars(ReadClaim(c)) /\ WF_vars(ConnectFails(c))
          /\ WF_vars(HandshakeTimer(c)) /\ WF_vars(RequestTimer(c))

Spec == Init /\ [][Next]_vars /\ Fairness
-----------------------------------------------------------------------------
(* What a launch call tells its caller is so.  An outcome without a        *)
(* certainty, or one logged `absent', is of a request no daemon runs, has  *)
(* run or can still receive; a reply is the daemon's own, for the session  *)
(* the caller claimed; a refused identity left no effect; and no effect is *)
(* ever made for a session other than the claimed one.                     *)
OutcomeIsTrue ==
    \A c \in Calls :
        LET out == call[c].out IN
        /\ handler[c].effect => handler[c].key = call[c].claim
        /\ At(c, "ended") /\ call[c].kind = "launch" =>
              /\ (out.cert = "none" /\ out.code # "OK") \/ out.log = "absent"
                    => handler[c].at = "none" /\ ~\E i \in DOMAIN conn[c].up : conn[c].up[i] = "request"
              /\ out.code = "OK" => handler[c].at = "answered" /\ handler[c].key = call[c].claim
              /\ out.code \in IdentityRefusals => ~handler[c].effect

(* Every call ends: the handshake, the request and the connection each     *)
(* have their deadline, whatever becomes of the daemon and its handler.    *)
CallsEnd ==
    \A c \in Calls : call[c].at \in {"snapshot", "connect", "ready", "pending"} ~> call[c].at \in {"ended", "gone"}
=============================================================================
