---------------------------- MODULE LaunchRequest ----------------------------
(***************************************************************************)
(* The first half of a launch (src/src/tools/launch.ts): the request, the  *)
(* routing decision, the intent boundary and the decision log, the durable *)
(* run and the supervision reservation, all before the host is touched.    *)
(* Also the state every phase of a launch shares.                          *)
(*                                                                         *)
(* An action is the code between two awaits.  What may go wrong is chosen  *)
(* by the cast of the behaviour, MaxTrouble times.                         *)
(***************************************************************************)
EXTENDS HerdrHost

CONSTANTS
    Casts,         \* the sets of disturbances a behaviour may have
    MaxTrouble     \* bound on the disturbances (fewer with a second launch)

(* The second launch of a cast is one of its own, or a recovery, by hand or   *)
(* automatic.                                                                 *)
ASSUME CastAssumption ==
    /\ \A c \in Casts : "auto" \in c => "two" \notin c /\ "manual" \notin c
    /\ MaxTrouble \in Nat \ {0}

VARIABLES
    L,             \* the launches
    run,           \* the durable run record of each launch
    rec,           \* the provider-limit recovery of launch 1
    frozen,        \* the launch freeze file exists
    trouble,       \* disturbances left
    cast

hostVars == <<pane, agent, late>>
vars == <<pane, agent, late, cool, L, run, rec, frozen, trouble, cast>>

NoPrior == [point |-> NoPoint, tier |-> NoTier, limited |-> FALSE, st |-> "none"]
NoRun == NoPrior

NoLook == [cand |-> NoPane, snapshot |-> "failed", made |-> FALSE]

(* What a provisional supervisor retains: the lifecycle it folded up to, the  *)
(* native session it saw first, and whether its evidence was rejected.        *)
NoProvisional == [seq |-> 0, native |-> NoAgent, rejected |-> FALSE]

(* The state of one execute call. *)
Fresh == [pc |-> "none", of |-> 0, internal |-> FALSE, prior |-> NoPrior, exact |-> NoPoint,
          asked |-> NoTier, tier |-> NoTier, r |-> NoRoute, todo |-> <<>>, cur |-> NoPoint,
          seen |-> {}, pane |-> NoPane, tab |-> NoTab, dispatched |-> FALSE, started |-> FALSE,
          startRec |-> NoAgent, sample |-> NoAgent, ident |-> NoAgent, base |-> 0, look |-> NoLook,
          hook |-> FALSE, submitted |-> FALSE, ack |-> NoAgent, resent |-> FALSE, limited |-> FALSE,
          res |-> "none", prov |-> NoProvisional, aborted |-> FALSE, cert |-> "none"]

Init ==
    /\ HostInit /\ CoolInit
    /\ L = [l \in Launches |-> Fresh]
    /\ run = [l \in Launches |-> NoRun]
    /\ rec = "none" /\ frozen = FALSE
    /\ cast \in Casts
    /\ trouble = IF "two" \in cast THEN 1 ELSE IF "manual" \in cast THEN MaxTrouble - 1 ELSE MaxTrouble

With(r, fields) ==
    [x \in DOMAIN r \union DOMAIN fields |-> IF x \in DOMAIN fields THEN fields[x] ELSE r[x]]
Put(l, fields) == L' = [L EXCEPT ![l] = With(@, fields)]
At(l, pc) == L[l].pc = pc
Ended == {"launched", "failed", "abstained", "refused", "not_started"}

Calm == UNCHANGED trouble
Trouble(word) == word \in cast /\ trouble > 0 /\ trouble' = trouble - 1

Rest == UNCHANGED <<frozen, cast>>
LaunchOnly == Rest /\ UNCHANGED <<hostVars, cool, run, rec>>

(* A failure after the first mutation was possible goes through the catch     *)
(* block, an earlier one ends the launch with no effect.                      *)
Failing(l, fields) == Put(l, With(fields, [pc |-> "failing"]))
Fails(l) == Put(l, [pc |-> "failing"])
EarlyFailure(l) == Put(l, [pc |-> "failed", cert |-> "absent", res |-> "released"])

-----------------------------------------------------------------------------
(* The request, up to the first effect. *)

(* The launch gate: a shared flock, and the freeze file decides. *)
GateOpen == ~frozen

Terminal == {"failed", "cancelled", "recovery_pending", "handed_off"}

(* Only a run with a terminal record is recovered.  A run is handed off with  *)
(* an artifact that was accepted, and each status an artifact may have is a   *)
(* terminal one: a hand-off without such a status has no state here.          *)
Recoverable(of) == of # 0 => run[of].st \in Terminal
PriorOf(of) == IF of = 0 THEN NoPrior ELSE run[of]

(* A task that is malformed, too large for its budgets, or whose working      *)
(* directory cannot be used; and the failed preflight.                        *)
Unusable(l, fields) == Trouble("faults") /\ Put(l, With(fields, [pc |-> "refused", cert |-> "absent"]))

(* Everything a request is refused for before anything of the host changed. *)
Resolves(l, fields) ==
    \/ Unusable(l, fields)
    \/ /\ ~Recoverable(fields.of) /\ Calm
       /\ Put(l, With(fields, [pc |-> "refused", cert |-> "absent"]))
    \/ /\ Recoverable(fields.of) /\ ~GateOpen /\ Calm
       /\ Put(l, With(fields, [pc |-> "refused"]))
    \/ /\ Recoverable(fields.of) /\ GateOpen /\ Calm
       /\ Put(l, With(fields, [pc |-> "route", prior |-> PriorOf(fields.of)]))

Request(l) ==
    /\ At(l, "none")
    /\ \E asked \in {NoTier} \union (IF "tiers" \in cast THEN Tiers ELSE {}),
          exact \in {NoPoint} \union (IF "exact" \in cast THEN Points ELSE {}) :
         \E of \in (IF l = 1 \/ "two" \in cast THEN {0} ELSE IF "manual" \in cast THEN {1} ELSE {}) :
           /\ of # 0 => L[of].pc \in Ended
           /\ Resolves(l, [of |-> of, asked |-> asked, exact |-> exact, internal |-> FALSE])
    /\ LaunchOnly

(* routeTask: the judge's answer sets the floor. *)
Judged(l, floor) ==
    LET t == EffectiveStartTier(floor, L[l].asked, RecoveryMinimum(L[l].prior))
    IN  Put(l, [pc |-> "probe", tier |-> t, r |-> Routing(ChainIds[t])])

(* routeTaskOnce: without a usable answer the decision is an abstention. *)
Route(l) ==
    /\ At(l, "route")
    /\ \/ \E floor \in Tiers : ("tiers" \in cast \/ floor = 1) /\ Judged(l, floor) /\ Calm
       \/ Trouble("faults") /\ Put(l, [pc |-> "boundary", r |-> NoRoute])
    /\ LaunchOnly

Probe(l) ==
    /\ At(l, "probe") /\ L[l].r.todo # <<>>
    /\ LET r == L[l].r
           p == Head(r.todo)
           skipped == LeftOut(L[l].prior, p) \/ IsExcluded(r, p)
       IN  \/ skipped /\ Calm /\ Put(l, [r |-> Skipped(r)])
           \/ ~skipped /\ Calm /\ Put(l, [r |-> Probed(r, p, Status(p))])
           \/ ~skipped /\ Trouble("faults") /\ Put(l, [pc |-> "boundary", r |-> NoRoute])
    /\ LaunchOnly

(* The selected point is compiled here, the others before the first effect. *)
Routed(l) ==
    /\ At(l, "probe") /\ L[l].r.todo = <<>>
    /\ \/ Calm /\ Put(l, [pc |-> "boundary", todo |-> ChainOf(L[l].r, L[l].exact)])
       \/ ChainOf(L[l].r, L[l].exact) # <<>> /\ Trouble("faults") /\ Put(l, [pc |-> "boundary"])
    /\ LaunchOnly

(* The intent hook, which an internal relaunch skips. *)
Boundary(l) ==
    /\ At(l, "boundary") /\ LaunchOnly
    /\ \/ ~L[l].internal /\ Trouble("faults") /\ Put(l, [pc |-> "failed"])
       \/ Calm /\ Put(l, [pc |-> "log"])

(* An abstention starts nothing, and neither does an aborted request. *)
Verdict(l) == IF L[l].todo = <<>> THEN "abstained"
              ELSE IF L[l].aborted THEN "not_started" ELSE "child"

(* The decision log, then the verdict. *)
LogDecision(l) ==
    /\ At(l, "log") /\ LaunchOnly
    /\ \/ Trouble("faults") /\ Put(l, [pc |-> "failed"])
       \/ Calm /\ Put(l, [pc |-> Verdict(l)])

-----------------------------------------------------------------------------
(* executeChild, up to the reservation. *)

(* The gate again, the contracts of the chain, and the snapshot that is the   *)
(* baseline of every later comparison.                                        *)
Child(l) ==
    /\ At(l, "child")
    /\ \/ ~GateOpen /\ Calm /\ Put(l, [pc |-> "failed"])
       \/ GateOpen /\ L[l].aborted /\ Calm /\ EarlyFailure(l)
       \/ /\ GateOpen /\ ~L[l].aborted /\ Calm
          /\ Put(l, [pc |-> "prepare", seen |-> OpenPanes])
       \/ /\ GateOpen /\ Trouble("faults")
          /\ \/ EarlyFailure(l)
             \/ \E dropped \in 2..Len(L[l].todo) :
                  Put(l, [pc |-> "prepare", seen |-> OpenPanes, todo |-> RemoveAt(L[l].todo, dropped)])
    /\ LaunchOnly

(* persist, then reserve: the run is durable before anything of the host is   *)
(* touched, and stays when the reservation is refused.                        *)
Prepare(l) ==
    /\ At(l, "prepare")
    /\ LET persisted == [point |-> Head(L[l].todo), tier |-> L[l].tier, limited |-> FALSE,
                         st |-> "awaiting_handoff"]
       IN  \/ Calm /\ Put(l, [pc |-> "place", res |-> "reserved"]) /\ run' = [run EXCEPT ![l] = persisted]
           \/ Trouble("faults") /\ EarlyFailure(l) /\ UNCHANGED run
           \/ Trouble("faults") /\ EarlyFailure(l) /\ run' = [run EXCEPT ![l] = persisted]
    /\ Rest /\ UNCHANGED <<hostVars, cool, rec>>
=============================================================================
