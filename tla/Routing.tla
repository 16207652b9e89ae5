------------------------------- MODULE Routing -------------------------------
(***************************************************************************)
(* The routing policy (src/src/routing-policy.ts, src/src/router.ts): from *)
(* the judged tier of a task to the chain of operating points a launch may *)
(* try.  Tiers are ranks, the judge's answer is an input.                  *)
(***************************************************************************)
EXTENDS Naturals, Sequences, SequencesExt

CONSTANTS
    Points,        \* operating points of the catalog
    MaxTier,       \* the rank of the highest tier (QUALITY_TIERS)
    TierChain,     \* [1..MaxTier -> Seq(Points)], the catalog's tierChains
    Provider,      \* [Points -> provider]
    Runner,        \* [Points -> runner]
    Kind,          \* [Points -> agent kind]
    Quota,         \* [Points -> quota key of the cooldown log]
    NoPoint

ASSUME RoutingAssumption ==
    /\ MaxTier \in Nat \ {0}
    /\ NoPoint \notin Points
    /\ DOMAIN TierChain = 1..MaxTier
    /\ \A t \in 1..MaxTier : TierChain[t] \in Seq(Points)

Tiers == 1..MaxTier
NoTier == 0

MaxOf(a, b) == IF a >= b THEN a ELSE b
NextTier(t) == IF t < MaxTier THEN t + 1 ELSE MaxTier

(* The judged floor, lifted by at most one tier on request, and to the        *)
(* recovery's minimum.                                                        *)
EffectiveStartTier(floor, requested, minimum) ==
    LET asked == IF requested > NextTier(floor) THEN NextTier(floor) ELSE requested
    IN  MaxOf(MaxOf(floor, asked), minimum)

(* One tier above the prior route, unless a provider limit ended it. *)
RecoveryMinimum(prior) ==
    IF prior.point = NoPoint THEN NoTier
    ELSE IF prior.limited THEN prior.tier ELSE NextTier(prior.tier)

(* The points of the chains from the tier upward, in order. *)
ChainIds[t \in 1..(MaxTier + 1)] ==
    IF t > MaxTier THEN <<>> ELSE TierChain[t] \o ChainIds[t + 1]

(* A recovery leaves out every point of the provider that failed. *)
LeftOut(prior, p) == prior.point # NoPoint /\ Provider[p] = Provider[prior.point]

-----------------------------------------------------------------------------

(* The loop over the points: what is left to probe, the chain so far, and the *)
(* quotas and runners a probe has found unavailable.                          *)
NoRoute == [todo |-> <<>>, chain |-> <<>>, spent |-> {}, local |-> {}]
Routing(ids) == [NoRoute EXCEPT !.todo = ids]

Unavailable == {"known-exhausted", "local-capacity-limited"}

(* Each point is taken once; one that shares a quota or a runner found        *)
(* unavailable is not probed, even when it comes again.                       *)
IsExcluded(r, p) == Quota[p] \in r.spent \/ Runner[p] \in r.local \/ Contains(r.chain, p)

Probed(r, p, status) ==
    [todo  |-> Tail(r.todo),
     chain |-> IF status \in Unavailable THEN r.chain ELSE Append(r.chain, p),
     spent |-> IF status = "known-exhausted" THEN r.spent \union {Quota[p]} ELSE r.spent,
     local |-> IF status = "local-capacity-limited" THEN r.local \union {Runner[p]} ELSE r.local]

Skipped(r) == [r EXCEPT !.todo = Tail(@)]

(* An exact request takes its point from the available ones, and no other;    *)
(* an empty chain is an abstention.                                           *)
ChainOf(r, exact) ==
    CASE exact = NoPoint -> r.chain
      [] Contains(r.chain, exact) -> <<exact>>
      [] OTHER -> <<>>
=============================================================================
