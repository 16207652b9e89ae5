--------------------------- MODULE DaemonService ---------------------------
(***************************************************************************)
(* The life of the daemon processes of one endpoint namespace              *)
(* (daemon/main.ts, daemon/instance.ts, the listener of daemon/server.ts): *)
(* a process takes the instance lock, sweeps what the last run left, binds *)
(* daemon.sock and serves; a signal stops it in the fixed order; it may    *)
(* die anywhere.  The lock is a flock held by a child process: it outlives *)
(* a crash for a moment, and it is gone when that child dies.              *)
(***************************************************************************)
EXTENDS Naturals, FiniteSets

CONSTANTS
    Daemons,     \* processes started for the namespace
    None,
    Stale,       \* a daemon.sock file nothing listens behind
    Allowances   \* how often each kind of thing may happen in a behaviour

\* starts      of a stopped daemon, by the operator
\* crashes     of processes, without a word
\* losses      of lock holders, killed under a live daemon
\* faults      of sweeps, probes, file and shutdown steps
\* signals     SIGTERM or SIGINT
\* calls       of tools
\* turnovers   of the calling pane's occupant
Allowance == [starts : Nat, crashes : Nat, losses : Nat, faults : Nat, signals : Nat, calls : Nat, turnovers : Nat]

ASSUME DistinctNames == None \notin Daemons /\ Stale \notin Daemons /\ None # Stale
ASSUME AllowancesAreCounts == Allowances \subseteq Allowance

VARIABLES
    proc,   \* proc[d]: how far the start or the shutdown of d has come
    lock,   \* the process whose holder has daemon.lock
    path,   \* what the name daemon.sock leads to
    lost,   \* a lock holder was killed under its daemon
    left    \* what is left of the behaviour's allowance

service == <<proc, lock, path, lost, left>>

\* The steps of startDaemon and of shutdown, in their order.
Starting == {"locked", "swept", "checked", "probed", "cleared"}
Listening == {"bound", "serving", "stopping"}
Owning == Starting \cup Listening \cup {"closed"}
Down == {"stopped", "failed"}
Up == Owning \cup {"draining"}

Process == [at : Down \cup Up, signaled : BOOLEAN, code : {0, 1}]

ServiceTypeOK ==
    /\ proc \in [Daemons -> Process]
    /\ lock \in Daemons \cup {None}
    /\ path \in Daemons \cup {None, Stale}
    /\ lost \in BOOLEAN
    /\ left \in Allowance

ServiceInit ==
    /\ proc = [d \in Daemons |-> [at |-> "stopped", signaled |-> FALSE, code |-> 0]]
    /\ lock = None
    /\ path \in {None, Stale}
    /\ lost = FALSE
    /\ left \in Allowances

Advance(d, step) == proc' = [proc EXCEPT ![d].at = step]

Use(what) == left[what] > 0 /\ left' = [left EXCEPT ![what] = @ - 1]

Fault == Use("faults")

LeaseHeld(d) == lock = d

Released(d) == IF lock = d THEN None ELSE lock

\* A start that cannot go on drains what its sweep bound, frees the lock and
\* exits 1; `Restart=on-failure' starts it again.
Rollback(d) ==
    /\ proc' = [proc EXCEPT ![d] = [at |-> "failed", signaled |-> FALSE, code |-> 1]]
    /\ lock' = Released(d)
-----------------------------------------------------------------------------
(* The start. *)

\* acquireDaemonInstance does not wait: a held lock refuses the start.
AcquireDaemonInstance(d) ==
    \/ /\ lock = None
       /\ lock' = d
       /\ proc' = [proc EXCEPT ![d] = [at |-> "locked", signaled |-> FALSE, code |-> 0]]
       /\ UNCHANGED <<path, lost>>
    \/ /\ lock # None
       /\ Advance(d, "failed")
       /\ UNCHANGED <<lock, path, lost>>

OperatorStarts(d) == proc[d].at = "stopped" /\ Use("starts") /\ AcquireDaemonInstance(d)

SystemdRestarts(d) == proc[d].at = "failed" /\ AcquireDaemonInstance(d) /\ UNCHANGED left

\* recoverInterrupted, the first status write and the reattach sweep: they
\* come before the socket, whatever they find.
Sweep(d) ==
    /\ proc[d].at = "locked"
    /\ \/ Advance(d, "swept") /\ UNCHANGED <<lock, left>>
       \/ Fault /\ Rollback(d)
    /\ UNCHANGED <<path, lost>>

CheckLease(d) ==
    /\ proc[d].at = "swept"
    /\ IF LeaseHeld(d) THEN Advance(d, "checked") /\ UNCHANGED lock ELSE Rollback(d)
    /\ UNCHANGED <<path, lost, left>>

\* A socket that answers has a live owner; a stale or a missing one is taken.
Probe(d) ==
    /\ proc[d].at = "checked"
    /\ \/ /\ path \in Daemons
          /\ Rollback(d)
          /\ UNCHANGED left
       \/ /\ path \notin Daemons
          /\ Advance(d, "probed")
          /\ UNCHANGED <<lock, left>>
       \/ Fault /\ Rollback(d)
    /\ UNCHANGED <<path, lost>>

\* A crashed daemon's socket file is left where it is.
ClearPathKept(d) ==
    /\ proc[d].at = "probed"
    /\ \/ Advance(d, "cleared") /\ UNCHANGED <<lock, left>>
       \/ Fault /\ Rollback(d)
    /\ UNCHANGED <<path, lost>>

\* The unlink goes by the name, whatever the name leads to by now.
ClearPath(d) ==
    /\ proc[d].at = "probed"
    /\ \/ path' = None /\ Advance(d, "cleared") /\ UNCHANGED <<lock, left>>
       \/ Fault /\ Rollback(d) /\ UNCHANGED path
    /\ UNCHANGED lost

Listen(d) ==
    /\ proc[d].at = "cleared"
    /\ IF path = None
       THEN path' = d /\ Advance(d, "bound") /\ UNCHANGED lock
       ELSE Rollback(d) /\ UNCHANGED path
    /\ UNCHANGED <<lost, left>>

\* The lease is proved again after the bind.  A start that lost it closes its
\* listener, not the connections it has accepted: they keep the process up.
ConfirmLease(d) ==
    /\ proc[d].at = "bound"
    /\ IF LeaseHeld(d)
       THEN Advance(d, "serving") /\ UNCHANGED path
       ELSE /\ proc' = [proc EXCEPT ![d] = [@ EXCEPT !.at = "draining", !.code = 1]]
            /\ path' = None
    /\ UNCHANGED <<lock, lost, left>>
-----------------------------------------------------------------------------
(* The shutdown: one signal starts it once the start is through. *)

Signal(d) ==
    /\ proc[d].at \in Up /\ ~proc[d].signaled
    /\ Use("signals")
    /\ proc' = [proc EXCEPT ![d].signaled = TRUE]
    /\ UNCHANGED <<lock, path, lost>>

\* The lock is freed before the server closes.
StopUnlocked(d) ==
    /\ proc[d].at = "serving" /\ proc[d].signaled
    /\ Advance(d, "stopping")
    /\ lock' = Released(d)
    /\ UNCHANGED <<path, lost, left>>

\* The cadences stop, the handoffs flush, the supervisors stop and the stop
\* is recorded.  A failed step is remembered and the order still runs.
Stop(d) ==
    /\ proc[d].at = "serving" /\ proc[d].signaled
    /\ \/ Advance(d, "stopping") /\ UNCHANGED left
       \/ /\ Fault
          /\ proc' = [proc EXCEPT ![d] = [@ EXCEPT !.at = "stopping", !.code = 1]]
    /\ UNCHANGED <<lock, path, lost>>

\* The connections are destroyed and node unlinks the bound name.
CloseServer(d) ==
    /\ proc[d].at = "stopping"
    /\ Advance(d, "closed")
    /\ path' = None
    /\ UNCHANGED <<lock, lost, left>>

\* The exit code counts the failed steps.
ReleaseLockCounting(d) ==
    /\ proc[d].at = "closed"
    /\ proc' = [proc EXCEPT ![d] = [@ EXCEPT !.at = "draining", !.code = IF LeaseHeld(d) THEN proc[d].code ELSE proc[d].code + 1]]
    /\ lock' = Released(d)
    /\ UNCHANGED <<path, lost, left>>

\* A holder that died on its own makes the release indeterminate.
ReleaseLock(d) ==
    /\ proc[d].at = "closed"
    /\ proc' = [proc EXCEPT ![d] = [@ EXCEPT !.at = "draining", !.code = IF LeaseHeld(d) THEN proc[d].code ELSE 1]]
    /\ lock' = Released(d)
    /\ UNCHANGED <<path, lost, left>>

\* runDaemonMain only sets the exit code: the process ends when nothing keeps
\* its event loop alive.
Exit(d) ==
    /\ proc[d].at = "draining"
    /\ proc' = [proc EXCEPT ![d] = [at |-> IF proc[d].code = 0 THEN "stopped" ELSE "failed",
                                    signaled |-> FALSE, code |-> proc[d].code]]
    /\ UNCHANGED <<lock, path, lost, left>>
-----------------------------------------------------------------------------
(* What happens to a process. *)

Crash(d) ==
    /\ proc[d].at \in Up
    /\ Use("crashes")
    /\ proc' = [proc EXCEPT ![d] = [at |-> "failed", signaled |-> FALSE, code |-> 1]]
    /\ path' = IF path = d THEN Stale ELSE path
    /\ UNCHANGED <<lock, lost>>

\* The holder reads the end of its input after its daemon is gone.
HolderEnds(d) ==
    /\ lock = d /\ proc[d].at \in Down
    /\ lock' = None
    /\ UNCHANGED <<proc, path, lost, left>>

LoseHolder(d) ==
    /\ lock = d /\ proc[d].at \in Up
    /\ Use("losses")
    /\ lock' = None
    /\ lost' = TRUE
    /\ UNCHANGED <<proc, path>>

\* What a process does by itself once it is started.
Proceed(d) ==
    \/ Sweep(d) \/ CheckLease(d) \/ Probe(d) \/ ClearPath(d) \/ Listen(d)
    \/ Stop(d) \/ ReleaseLock(d)
-----------------------------------------------------------------------------
(* While no lock holder has been killed, a daemon that is past its lock    *)
(* has it to itself and the name daemon.sock leads to the daemon that      *)
(* listens: no start sweeps, unlinks or binds beside a live one, through   *)
(* crashes, stops, refused starts and sockets left behind.                 *)
ServedAlone ==
    ~lost
        => \A d \in Daemons :
              /\ proc[d].at \in Owning => lock = d
              /\ proc[d].at \in Listening => path = d

Reachable == \E d \in Daemons : proc[d].at = "serving" /\ path = d

(* A daemon that failed does not stay away: unless a lock holder was       *)
(* killed, some daemon comes to serve behind daemon.sock, or the daemons   *)
(* were stopped.  A start is never refused for ever by the socket file or  *)
(* the lock of a dead one.                                                 *)
ServiceReturns ==
    (\E d \in Daemons : proc[d].at = "failed")
        ~> \/ Reachable
           \/ lost
           \/ \A d \in Daemons : proc[d].at \in {"stopped", "draining"}
=============================================================================
