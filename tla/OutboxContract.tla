--------------------------- MODULE OutboxContract ---------------------------
(***************************************************************************)
(* What the notification outbox promises, target by target, without        *)
(* leases, claims, generations of owners or workers:                       *)
(*                                                                         *)
(*   - a queued target is transported, withdrawn or refused;               *)
(*   - a round is one replay generation.  In a round the recipient sees    *)
(*     the target at most once, and after it may have seen it the target   *)
(*     is never queued again in that round;                                *)
(*   - `delivered' is said of a target only after the recipient saw it;    *)
(*   - a withdrawn or delivered target stays so; only a failed or an       *)
(*     uncertain one gets another round, from an operator.                 *)
(*                                                                         *)
(* A step moves any number of targets, as one ledger transaction does.     *)
(***************************************************************************)
EXTENDS Integers

CONSTANT Target

VARIABLES
    phase,  \* where each target stands
    round,  \* its replay generation
    seen    \* what a recipient saw: <<target, round, message>>

Phases == {"absent", "queued", "sending", "delivered", "failed", "withdrawn", "unknown"}

contractVars == <<phase, round, seen>>

SeenIn(t, n) == \E m \in seen : m[1] = t /\ m[2] = n

Seen(t) == SeenIn(t, round[t])

ContractInit ==
    /\ phase = [t \in Target |-> "absent"]
    /\ round = [t \in Target |-> 0]
    /\ seen = {}

\* The moves of one target within a round.
Enqueue(t)  == phase[t] = "absent" /\ phase'[t] = "queued"
Refuse(t)   == phase[t] = "queued" /\ phase'[t] \in {"withdrawn", "failed"}
Launch(t)   == phase[t] = "queued" /\ phase'[t] = "sending"
Confirm(t)  == phase[t] = "sending" /\ Seen(t) /\ phase'[t] = "delivered"
Bounce(t)   == phase[t] = "sending" /\ ~Seen(t) /\ phase'[t] \in {"queued", "failed"}
LoseSight(t) == phase[t] = "sending" /\ phase'[t] = "unknown"

Move(t) ==
    /\ Enqueue(t) \/ Refuse(t) \/ Launch(t) \/ Confirm(t) \/ Bounce(t) \/ LoseSight(t)
    /\ round'[t] = round[t]

\* An operator opens the next round.
Retry(t) ==
    /\ phase[t] \in {"failed", "unknown"}
    /\ phase'[t] = "queued"
    /\ round'[t] = round[t] + 1

Stay(t) == phase'[t] = phase[t] /\ round'[t] = round[t]

Transact ==
    /\ \A t \in Target : Move(t) \/ Retry(t) \/ Stay(t)
    /\ DOMAIN phase' = Target /\ DOMAIN round' = Target
    /\ seen' = seen

\* A recipient sees a target: in the round that is being sent or lost sight
\* of, or, from a process that slept through everything since, in an old one.
Arrive(t, n) ==
    /\ ~SeenIn(t, n)
    /\ \/ n = round[t] /\ phase[t] \in {"sending", "unknown"}
       \/ n \in 0 .. round[t] - 1
    /\ \E m \in seen' : m[1] = t /\ m[2] = n /\ seen' = seen \union {m}
    /\ UNCHANGED <<phase, round>>

ContractNext ==
    \/ Transact
    \/ \E t \in Target : \E n \in 0 .. round[t] : Arrive(t, n)

ContractSpec == ContractInit /\ [][ContractNext]_contractVars
=============================================================================
