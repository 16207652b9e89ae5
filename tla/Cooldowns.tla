------------------------------ MODULE Cooldowns ------------------------------
(***************************************************************************)
(* The durable cooldown log (src/src/availability.ts): launch failures are *)
(* classified and appended under a flock, and every probe of an operating  *)
(* point reads its status off the log.                                     *)
(*                                                                         *)
(* Time is kept as the two questions availability asks of a record: is its *)
(* cooldown still active, and is it inside the evidence window.            *)
(***************************************************************************)
EXTENDS Routing

VARIABLE cool      \* the records that still matter

Classes == {"quota", "transport", "task-failure"}
Records == [quota : {Quota[p] : p \in Points}, class : Classes,
            signaled : BOOLEAN, active : BOOLEAN, recent : BOOLEAN]

CoolInit == cool = {}

(* Mutant: the failure's code is stored for its class. *)
RawFailure(code) == code

(* The codes a start can fail with, and a provider's limit. *)
ClassifyLaunchFailure(code) ==
    CASE code \in {"rate_limit"} -> "quota"
      [] code \in {"CLI_TIMEOUT", "CLI_PROTOCOL_ERROR", "TARGET_IDENTITY_UNAVAILABLE"} -> "transport"
      [] OTHER -> "task-failure"

(* Without a reset signal a quota cools for as long as the evidence window    *)
(* lasts; a signal may already be past.                                       *)
NewRecord(p, class, signaled, active) ==
    [quota |-> Quota[p], class |-> class, signaled |-> signaled,
     active |-> class = "quota" /\ active, recent |-> TRUE]

Recorded(p, code) == cool \union {NewRecord(p, ClassifyLaunchFailure(code), FALSE, TRUE)}
RecordedLimit(p, signaled, active) == cool \union {NewRecord(p, "quota", signaled, active \/ ~signaled)}

(* What availability answers for a point's quota key. *)
Status(p) ==
    LET matching == {r \in cool : r.quota = Quota[p]}
    IN  IF \E r \in matching : r.active THEN "known-exhausted"
        ELSE IF \E r \in matching : r.recent /\ r.class = "transport" THEN "local-capacity-limited"
        ELSE IF \E r \in matching : r.recent THEN "degraded" ELSE "unknown"

(* Time: a record leaves the window, and with it an unsignaled cooldown; a    *)
(* signaled one ends at its own instant.                                      *)
Lapse ==
    \E r \in cool : \E s \in {[r EXCEPT !.recent = FALSE, !.active = @ /\ r.signaled],
                             [r EXCEPT !.active = @ /\ ~r.signaled]} :
        /\ s # r
        /\ cool' = (cool \ {r}) \union (IF s.active \/ s.recent THEN {s} ELSE {})
=============================================================================
