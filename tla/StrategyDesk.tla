---------------------------- MODULE StrategyDesk ----------------------------
(***************************************************************************)
(* The live trade-card path of the market-features worker.  One cycle at a *)
(* time (the worker holds a process lock) selects at most one candidate,   *)
(* commits the decision to the operational database and asks flood control *)
(* whether its card may enter the notification outbox.  A NO_TRADE cycle   *)
(* leaves no selected decision and no card, and is not an action here.     *)
(*                                                                         *)
(* Selection and flood control both look at the cards already accepted     *)
(* today, and both derive them the same way: the selected decisions of the *)
(* session whose opportunity has a ":ready" event, the latest decision of  *)
(* each opportunity.  Selection ignores a failed read, delivery does not.  *)
(* The ranking itself is left open: any candidate may win.                 *)
(*                                                                         *)
(* The state is that of one session date.  An opportunity has one          *)
(* direction but may be found under several setups, and is selected again  *)
(* in every cycle in which it wins.                                        *)
(***************************************************************************)
EXTENDS Integers, FiniteSets

CONSTANTS
    Opportunity,    \* the opportunity ids of the session
    DirOf,          \* the direction of each
    SetupsOf,       \* the setups under which each can be found
    RthOpen,        \* when the session mode changes from gth to rth
    Stick,          \* gth_winner_stick_seconds, rth_winner_stick_seconds
    Cooldown,       \* candidate_cooldown_seconds
    Cap,            \* max_cards_per_direction_per_session
    Ttl,            \* opportunity_ttl_seconds
    MaxTime,        \* bound: the clock
    MaxFaults       \* bound: failed calls and crashes

Direction == {"UP", "DOWN", "NEUTRAL"}
Mode == {"gth", "rth"}
Condor == "IRON_CONDOR_DELTA"
Pin == "STABLE_PIN"
Independent == {"PREAVERAGE15_PULLBACK", "CLOSE_CONVERGENCE_60M"}
Setup == {Condor, Pin, "ES_VOLUME_MOMENTUM"} \union Independent

\* An iron condor's opportunity id hashes its strategy type and its four legs:
\* no other setup finds it, and it is neutral (iron_condor.py).
ASSUME DeskAssumption ==
    /\ DirOf \in [Opportunity -> Direction]
    /\ SetupsOf \in [Opportunity -> SUBSET Setup]
    /\ \A o \in Opportunity : Condor \in SetupsOf[o] => SetupsOf[o] = {Condor} /\ DirOf[o] = "NEUTRAL"
    /\ RthOpen \in Nat
    /\ Stick \in [Mode -> Nat]
    /\ Cooldown \in Nat /\ Cap \in Nat /\ Ttl \in Nat
    /\ MaxTime \in Nat /\ MaxFaults \in Nat

VARIABLES
    now,        \* the clock
    decisions,  \* the selected rows of table decisions
    cards,      \* the ":ready" events of the outbox
    cycle,      \* the cycle under way
    faults      \* how many faults have happened

vars == <<now, decisions, cards, cycle, faults>>

-----------------------------------------------------------------------------
(* State *)

Time == 0 .. MaxTime

\* A decision with a candidate; at is its decision_at.
Decision == [opp : Opportunity, setup : Setup, mode : Mode, at : Time]

\* A card keeps the decision it was rendered from, and when it was accepted.
Card == [opp : Opportunity, setup : Setup, mode : Mode, at : Time, sent : Time]

CardOf(d, t) == [opp |-> d.opp, setup |-> d.setup, mode |-> d.mode, at |-> d.at, sent |-> t]

Steps == {"persist", "admit", "enqueue"}

\* row holds the decision of the cycle.
Cycle == [pc : {"idle"} \union Steps, row : SUBSET Decision]

Idle == [pc |-> "idle", row |-> {}]

Init ==
    /\ now = 0
    /\ decisions = {}
    /\ cards = {}
    /\ cycle = Idle
    /\ faults = 0

\* Mutant of SessionMode: a mode the desk has no policy for.
SessionMode_Curb(t) == IF t < RthOpen THEN "gth" ELSE "curb"

SessionMode(t) == IF t < RthOpen THEN "gth" ELSE "rth"

-----------------------------------------------------------------------------
(* The accepted cards of the session *)

\* notification_event_exists("<opportunity>:ready").
Ready(opp) == \E c \in cards : c.opp = opp

\* outbox_accepted_strategy_cards: the latest row of every opportunity that
\* reached the outbox.
Accepted(rows) ==
    {r \in rows : Ready(r.opp) /\ \A s \in rows : s.opp = r.opp => s.at <= r.at}

\* session_direction_lock: the accepted rows of the latest direction, back to
\* the first row of another one; the lock counts from the earliest of them.
Streak(rows) ==
    {r \in rows : \A s \in rows : s.at >= r.at => DirOf[s.opp] = DirOf[r.opp]}

\* The lock in force at time t, as a set of at most one record.
Lock(accepted, mode, t) ==
    LET rows == {r \in accepted : r.mode = mode}
        streak == Streak(rows) IN
    {[dir |-> DirOf[latest.opp], opp |-> latest.opp, start |-> first.at] :
        latest \in {r \in streak : \A s \in rows : s.at <= r.at},
        first \in {r \in streak : \A s \in streak : r.at <= s.at /\ t < r.at + Stick[mode]}}

\* candidate_direction_lock_reason is not None.
LockedOut(opp, setup, mode, lock) ==
    /\ setup # Condor
    /\ ~(mode = "rth" /\ setup \in Independent)
    /\ \E l \in lock :
          IF mode = "rth" /\ l.dir = "NEUTRAL"
          THEN setup = Pin /\ opp # l.opp
          ELSE DirOf[opp] # l.dir

-----------------------------------------------------------------------------
(* build_strategy_decision *)

Tick ==
    /\ now < MaxTime
    /\ now' = now + 1
    /\ UNCHANGED <<decisions, cards, cycle, faults>>

\* decision_at is read anew in every cycle.
Begin ==
    /\ cycle.pc = "idle"
    /\ \A d \in decisions : d.at < now
    /\ UNCHANGED <<now, decisions, cards>>

Chosen(opp, setup) ==
    [pc |-> "persist",
     row |-> {[opp |-> opp, setup |-> setup, mode |-> SessionMode(now), at |-> now]}]

\* The GTH condor needs its quota proved free before it can be ranked.
CondorAllowed(setup, mode, accepted) ==
    setup = Condor /\ mode = "gth" =>
        \A r \in accepted : ~(r.setup = Condor /\ r.mode = "gth")

\* The accepted cards are read once: a candidate the lock blocks cannot win.
Select(opp, setup) ==
    LET mode == SessionMode(now)
        accepted == Accepted(decisions) IN
    /\ Begin
    /\ CondorAllowed(setup, mode, accepted)
    /\ ~LockedOut(opp, setup, mode, Lock(accepted, mode, now))
    /\ cycle' = Chosen(opp, setup)
    /\ UNCHANGED faults

\* The read fails: there is no lock, and no GTH condor.
SelectUnread(opp, setup) ==
    /\ Begin
    /\ faults < MaxFaults
    /\ ~(setup = Condor /\ SessionMode(now) = "gth")
    /\ cycle' = Chosen(opp, setup)
    /\ faults' = faults + 1

-----------------------------------------------------------------------------
(* _commit_strategy_decision and enqueue_strategy_decision *)

\* persist_strategy_decision.
Persist ==
    /\ cycle.pc = "persist"
    /\ decisions' = decisions \union cycle.row
    /\ cycle' = [cycle EXCEPT !.pc = "admit"]
    /\ UNCHANGED <<now, cards, faults>>

\* The cycle ends without a card.
NotPersisted == Idle

PersistFails ==
    /\ cycle.pc = "persist"
    /\ faults < MaxFaults
    /\ faults' = faults + 1
    /\ cycle' = NotPersisted
    /\ UNCHANGED <<now, decisions, cards>>

\* committed_strategy_decision and opportunity_valid_until.
Current(d) == now < d.at + Ttl

\* recent_selected_strategy_cards without this decision, filtered like the
\* selector's and without this opportunity.
Others(d) == {r \in Accepted(decisions \ {d}) : r.opp # d.opp}

SameMode(d) == {r \in Others(d) : r.mode = d.mode}

SameDirection(d) == {r \in SameMode(d) : DirOf[r.opp] = DirOf[d.opp]}

CondorSpent(d) ==
    /\ d.setup = Condor /\ d.mode = "gth"
    /\ \E r \in SameMode(d) : r.setup = Condor

\* Mutant of DirectionLocked: delivery trusts the selector's lock.
DirectionLocked_Trusts(d) == FALSE

DirectionLocked(d) ==
    d.setup # Condor /\ LockedOut(d.opp, d.setup, d.mode, Lock(Others(d), d.mode, now))

\* Mutant of CoolingDown: only the same opportunity cools down.
CoolingDown_Own(d) == \E r \in SameDirection(d) : r.opp = d.opp

CoolingDown(d) ==
    \E r \in SameDirection(d) : r.setup = d.setup /\ now <= r.at + Cooldown

\* Mutant of CapReached: the comparison is strict.
CapReached_Strict(d) ==
    ~(d.mode = "rth" /\ d.setup = Condor) /\ Cardinality(SameDirection(d)) > Cap

CapReached(d) ==
    ~(d.mode = "rth" /\ d.setup = Condor) /\ Cardinality(SameDirection(d)) >= Cap

\* _flood_control_block.
Blocked(d) == CondorSpent(d) \/ DirectionLocked(d) \/ CoolingDown(d) \/ CapReached(d)

\* An expired candidate, a duplicate and a blocked one all end the cycle.
Admit ==
    /\ cycle.pc = "admit"
    /\ cycle' = IF \E d \in cycle.row : Current(d) /\ ~Ready(d.opp) /\ ~Blocked(d)
                THEN [cycle EXCEPT !.pc = "enqueue"] ELSE Idle
    /\ UNCHANGED <<now, decisions, cards, faults>>

\* The clock is read again after the images are published.
Enqueue ==
    /\ cycle.pc = "enqueue"
    /\ cards' = cards \union {CardOf(d, now) : d \in {e \in cycle.row : Current(e)}}
    /\ cycle' = Idle
    /\ UNCHANGED <<now, decisions, faults>>

\* A quiet window takes the card without storing it.
EnqueueQuiet ==
    /\ cycle.pc = "enqueue"
    /\ cycle' = Idle
    /\ UNCHANGED <<now, decisions, cards, faults>>

\* The worker dies, a file cannot be written, or a read or the insert of the
\* delivery raises: nothing more happens in this cycle.
CycleStops ==
    /\ cycle.pc \in Steps \ {"persist"}
    /\ faults < MaxFaults
    /\ faults' = faults + 1
    /\ cycle' = Idle
    /\ UNCHANGED <<now, decisions, cards>>

-----------------------------------------------------------------------------
(* Specification *)

Next ==
    \/ Tick
    \/ \E o \in Opportunity : \E s \in SetupsOf[o] : Select(o, s) \/ SelectUnread(o, s)
    \/ Persist \/ PersistFails
    \/ Admit \/ Enqueue \/ EnqueueQuiet
    \/ CycleStops

Spec == Init /\ [][Next]_vars

-----------------------------------------------------------------------------
(* Properties *)

\* Every variable has its type.
TypeOK ==
    /\ now \in Time
    /\ decisions \subseteq Decision
    /\ cards \subseteq Card
    /\ cycle \in Cycle
    /\ faults \in 0 .. MaxFaults

\* A session sends at most Cap cards of one direction in one mode, and one
\* GTH condor, although quota is counted from decisions that are written
\* before their cards and repeated in every cycle; only RTH condors are free.
CardsCapped ==
    \A m \in Mode :
        /\ \A dir \in Direction :
              Cardinality({c \in cards : /\ c.mode = m /\ DirOf[c.opp] = dir
                                        /\ ~(m = "rth" /\ c.setup = Condor)}) <= Cap
        /\ m = "gth" => Cardinality({c \in cards : c.mode = m /\ c.setup = Condor}) <= 1

\* The decision of an accepted card was repeated under another setup.
Renamed(c) == \E r \in decisions : r.opp = c.opp /\ r.at > c.at /\ r.setup # c.setup

\* Two cards of one setup, direction and mode are a cooldown apart, even when
\* the second is admitted long after it was decided, unless the first card's
\* opportunity has been selected under another setup since.
CooldownKept ==
    \A c, d \in cards :
        /\ c.at < d.at /\ c.mode = d.mode /\ c.setup = d.setup
        /\ DirOf[c.opp] = DirOf[d.opp]
        => d.sent > c.at + Cooldown \/ Renamed(c)

Opposite(c, d) ==
    /\ c.mode = d.mode /\ c.at < d.at
    /\ {DirOf[c.opp], DirOf[d.opp]} = {"UP", "DOWN"}
    /\ d.setup \notin Independent

\* Selection r counted when card d was admitted: another opportunity, whose
\* own card is older.
Counted(r, d) == r.opp # d.opp /\ \E k \in cards : k.opp = r.opp /\ k.at < d.at

\* Between two cards, an accepted opportunity of another direction than the
\* first one's was selected.
Superseded(c, d) ==
    \E r \in decisions : /\ c.at < r.at /\ r.at < d.at
                         /\ Counted(r, d) /\ DirOf[r.opp] # DirOf[c.opp]

\* When d was sent the stick had passed for card c, or for a selection of its
\* direction from which on nothing of another direction had come before c.
StickPassed(c, d) ==
    \E r \in decisions :
        /\ r.mode = c.mode /\ r.at <= c.at
        /\ Counted(r, d) /\ DirOf[r.opp] = DirOf[c.opp]
        /\ d.sent >= r.at + Stick[c.mode]
        /\ \A s \in decisions :
              s.mode = c.mode /\ r.at < s.at /\ s.at < c.at /\ Counted(s, d)
                  => DirOf[s.opp] = DirOf[c.opp]

\* A card against the direction of an earlier one waits for the stick, even
\* when selection could not read the accepted cards, unless a third
\* opportunity has taken the lock over.
OppositeWaits ==
    \A c, d \in cards : Opposite(c, d) => StickPassed(c, d) \/ Superseded(c, d)

=============================================================================
