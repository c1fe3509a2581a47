------------------------- MODULE ProviderFailover -------------------------
(***************************************************************************)
(* The choice between Schwab and IBKR market data, and what the operator   *)
(* is told of it.  Three periodic tasks of the Core process share files:   *)
(*                                                                         *)
(*   provider_failover  judges both providers and saves the control file;  *)
(*   realtime_engine    turns the file into alerts for the outbox;         *)
(*   alert_engine       keeps the incident file, and notifies by itself    *)
(*                      when direct delivery is configured.                *)
(*                                                                         *)
(* A task works with the time it started at.  The verdict on a provider is *)
(* an input; a transition is named by the time it happened.  The incident  *)
(* file keeps ids only: the time an id was first seen is the id.           *)
(***************************************************************************)
EXTENDS Integers

CONSTANTS
    ContextAt,          \* monitoring_context_at: the trading calendar
    SchwabUnhealthy,    \* the four thresholds of provider_failover, in
    SchwabRecovery,     \*   consecutive observations
    IbkrUnhealthy,
    IbkrRecovery,
    ControlMaxAge,      \* control_state_max_age_seconds
    TransitionMaxAge,   \* transition_alert_max_age_seconds
    IncidentNotify,     \* PROVIDER_INCIDENT_NOTIFY_SECONDS
    RecoveryNotify,     \* PROVIDER_RECOVERY_NOTIFY_SECONDS
    Direct,             \* the values of notification.direct_delivery_enabled
    MaxLag,             \* how long an evaluation takes
    MaxTime,            \* bound: the clock
    MaxFaults           \* bound: lost files and failed calls

Primary == "schwab_primary"
Pending == "recovery_pending"
Fallback == "ibkr_fallback"
Both == "both_unavailable"
Mode == {Primary, Pending, Fallback, Both}
Context == {"rth", "gth", "globex", "closed"}
Time == 1 .. MaxTime

ASSUME FailoverAssumption ==
    /\ ContextAt \in [Time -> Context]
    /\ SchwabUnhealthy \in Nat \ {0} /\ SchwabRecovery \in Nat \ {0}
    /\ IbkrUnhealthy \in Nat \ {0} /\ IbkrRecovery \in Nat \ {0}
    /\ ControlMaxAge \in Nat /\ TransitionMaxAge \in Nat
    /\ IncidentNotify \in Nat /\ RecoveryNotify \in Nat
    /\ Direct \subseteq BOOLEAN
    /\ MaxLag \in Nat /\ MaxTime \in Nat \ {0} /\ MaxFaults \in Nat

\* The shipped threshold is 2 (config/runtime.toml); see EntriesBacked.
ASSUME ThresholdAssumption == SchwabUnhealthy <= 2

VARIABLES
    now,        \* the clock
    control,    \* provider_failover_state.json
    seen,       \* what the controller has really observed
    incident,   \* the provider keys of system_event_state.json
    direct,     \* the configured way of delivery
    engine,     \* the tick of the realtime engine
    cycle,      \* the cycle of the alert engine
    told,       \* the alerts handed over for delivery
    faults      \* how many faults have happened

vars == <<now, control, seen, incident, direct, engine, cycle, told, faults>>

-----------------------------------------------------------------------------
(* State *)

\* FailoverTransition; its id is its time.
Transition == [at : Time, from : Mode, to : Mode]

\* What is left of provider_failover_state.json: all of it; JSON that names the
\* context but holds no valid FailoverState; nothing that parses; no file.
Condition == {"readable", "invalid", "corrupt", "missing"}

\* FailoverState and what save_failover_state adds to it: the fields as they
\* were last saved, which only a readable file shows.  trans holds at most one
\* transition.
Control == [file : Condition, context : Context \union {"none"},
            mode : Mode, at : 0 .. MaxTime, su : 0 .. SchwabUnhealthy,
            sr : 0 .. SchwabRecovery, iu : 0 .. IbkrUnhealthy, ir : 0 .. IbkrRecovery,
            trans : SUBSET Transition]

\* FailoverState.initial.
InitialState == [file |-> "missing", context |-> "none", mode |-> Primary, at |-> 0,
                 su |-> 0, sr |-> 0, iu |-> 0, ir |-> 0, trans |-> {}]

\* Candidate, recovery candidate and alerted id (0: the key is missing).
Incident == [candidate : 0 .. MaxTime, recovery : 0 .. MaxTime, alerted : 0 .. MaxTime]

NoIncident == [candidate |-> 0, recovery |-> 0, alerted |-> 0]

\* The alert of a transition.
Alert == [mode : Mode, id : Time]

\* at is the time a task started at (0: it is not running); alert is what
\* the cycle has to notify.
Engine == 0 .. MaxTime
Cycle == [pc : {"idle", "notify", "persist"}, at : 0 .. MaxTime, alert : SUBSET Alert]
Resting == [pc |-> "idle", at |-> 0, alert |-> {}]

\* Consecutive healthy observations of each provider, and consecutive
\* observations without any healthy provider, as far back as the controller
\* can look: see StartsAfresh.
Seen == [schwab : 0 .. SchwabRecovery, ibkr : 0 .. IbkrRecovery,
         dark : 0 .. SchwabUnhealthy + IbkrUnhealthy]

NothingSeen == [schwab |-> 0, ibkr |-> 0, dark |-> 0]

Init ==
    /\ now = 1
    /\ control = InitialState
    /\ seen = NothingSeen
    /\ incident = NoIncident
    /\ direct \in Direct
    /\ engine = 0
    /\ cycle = Resting
    /\ told = {}
    /\ faults = 0

Tick ==
    /\ now < MaxTime
    /\ now' = now + 1
    /\ UNCHANGED <<control, seen, incident, direct, engine, cycle, told, faults>>

-----------------------------------------------------------------------------
(* advance_failover *)

\* Streaks are only compared with their thresholds, and stop there.
Streak(goes, n, threshold) ==
    IF ~goes THEN 0 ELSE IF n < threshold THEN n + 1 ELSE threshold

\* The mode after an observation, from the mode before and the new streaks.
NextMode(mode, schwab, ibkr, s) ==
    CASE mode = Primary /\ s.su >= SchwabUnhealthy -> IF ibkr THEN Fallback ELSE Pending
      [] mode # Primary /\ schwab /\ s.sr >= SchwabRecovery -> Primary
      [] mode \in {Pending, Both} /\ ibkr /\ ~schwab /\ s.ir >= IbkrRecovery -> Fallback
      [] mode \in {Pending, Fallback} /\ ~schwab /\ s.iu >= IbkrUnhealthy -> Both
      [] OTHER -> mode

AdvanceFailover(c, schwab, ibkr, at) ==
    LET s == [su |-> Streak(~schwab, c.su, SchwabUnhealthy),
              sr |-> Streak(schwab, c.sr, SchwabRecovery),
              iu |-> Streak(c.mode # Primary /\ ~ibkr, c.iu, IbkrUnhealthy),
              ir |-> Streak(ibkr, c.ir, IbkrRecovery)]
        mode == NextMode(c.mode, schwab, ibkr, s)
        turned == mode # c.mode
        anew == turned /\ mode \in {Primary, Pending} IN
    [c EXCEPT !.mode = mode, !.at = at, !.su = s.su, !.sr = s.sr,
              !.iu = IF anew THEN 0 ELSE s.iu, !.ir = IF anew THEN 0 ELSE s.ir,
              !.trans = IF turned THEN {[at |-> at, from |-> c.mode, to |-> mode]}
                        ELSE c.trans]

-----------------------------------------------------------------------------
(* evaluate_and_persist *)

\* Mutant of LoadFailoverState: a corrupt file counts as a missing one.
LoadFailoverState_Primary == IF control.file = "readable" THEN control ELSE InitialState

\* Mutant of LoadFailoverState: a mode that the file does not name is kept.
LoadFailoverState_Unnamed ==
    IF control.file = "readable" THEN control ELSE [InitialState EXCEPT !.mode = "none"]

\* load_failover_state.
LoadFailoverState ==
    CASE control.file = "readable"             -> control
      [] control.file = "missing"              -> InitialState
      [] control.file \in {"invalid", "corrupt"} -> [InitialState EXCEPT !.mode = Pending]

\* A change of context is only one when the file names the earlier context:
\* load_failover_control reads it even where the state itself is invalid.
ContextChanged(context) ==
    control.file \in {"readable", "invalid"} /\ control.context # context

\* Mutant of Rederived: a change of context also forgets the streaks.
Rederived_Anew(c, context, ibkr) ==
    IF ContextChanged(context) \/ (context = "gth" /\ c.mode = Primary)
    THEN [InitialState EXCEPT !.mode = IF context # "gth" THEN Primary
                                       ELSE IF ibkr THEN Fallback ELSE Pending]
    ELSE c

\* The mode follows from the new context; the streaks are carried over.
Rederived(c, context, ibkr) ==
    IF ContextChanged(context) \/ (context = "gth" /\ c.mode = Primary)
    THEN [c EXCEPT !.mode = IF context # "gth" THEN Primary
                            ELSE IF ibkr THEN Fallback ELSE Pending,
                   !.trans = {}]
    ELSE c

\* Without a file, and at a change of context without a valid state, the
\* controller starts from the primary mode with empty streaks: it knows
\* nothing of an outage before.
StartsAfresh(context) ==
    control.file = "missing" \/ (control.file = "invalid" /\ ContextChanged(context))

Observed(context, schwab, ibkr) ==
    [schwab |-> Streak(schwab, seen.schwab, SchwabRecovery),
     ibkr |-> Streak(ibkr, seen.ibkr, IbkrRecovery),
     dark |-> Streak(~schwab /\ ~ibkr, IF StartsAfresh(context) THEN 0 ELSE seen.dark,
                     SchwabUnhealthy + IbkrUnhealthy)]

\* One run of the controller, over the market data it loaded at time at.
EvaluateAndPersist(at, schwab, ibkr) ==
    LET context == ContextAt[at] IN
    /\ control.at < at /\ now <= at + MaxLag
    /\ context = "gth" => ~schwab
    /\ IF context = "closed"
       THEN /\ control' = [InitialState EXCEPT !.file = "readable", !.context = "closed",
                                               !.at = at]
            /\ seen' = NothingSeen
       ELSE /\ control' = [AdvanceFailover(Rederived(LoadFailoverState, context, ibkr),
                                           schwab, ibkr, at)
                              EXCEPT !.file = "readable", !.context = context]
            /\ seen' = Observed(context, schwab, ibkr)
    /\ UNCHANGED <<now, incident, direct, engine, cycle, told, faults>>

\* The file loses its state, can no longer be read or parsed, or is removed.
ControlLost(condition) ==
    /\ control.file = "readable" \/ (condition = "missing" /\ control.file # "missing")
    /\ faults < MaxFaults
    /\ faults' = faults + 1
    /\ control' = [control EXCEPT !.file = condition]
    /\ UNCHANGED <<now, seen, incident, direct, engine, cycle, told>>

\* new_entry_control_decision looks at the mode, the time and the flags, and so
\* may accept a file whose state is invalid in another field.
EntriesAllowed ==
    /\ control.file \in {"readable", "invalid"}
    /\ control.context # "closed"
    /\ control.mode \in {Primary, Fallback}
    /\ now - control.at <= ControlMaxAge

-----------------------------------------------------------------------------
(* provider_failover_incident_evaluation *)

\* load_provider_failover_state, as of time t: the control, when it can be
\* used, and without a transition that is too old.
Usable(t) ==
    /\ control.file = "readable"
    /\ control.context # "closed"
    /\ t - control.at \in 0 .. ControlMaxAge

Recent(t) == {x \in control.trans : t - x.at \in 0 .. TransitionMaxAge}

\* provider_failover_event_alert.
EventAlert(trans) ==
    {[mode |-> x.to, id |-> x.at] : x \in {y \in trans :
        /\ ~(control.context = "gth" /\ y.to = Fallback)
        /\ y.to # Pending
        /\ ~(y.to = Primary /\ y.from = Pending)}}

\* The id of the transition, or the one that is on file without it.
IdOf(trans, stored) == IF trans = {} THEN stored ELSE (CHOOSE x \in trans : TRUE).at

\* Mutant of OutageId: the first candidate stays.
OutageId_First(trans) == IF incident.candidate # 0 THEN incident.candidate ELSE IdOf(trans, 0)

OutageId(trans) == IdOf(trans, incident.candidate)

\* No incident is kept outside RTH and GTH, nor for the normal mode of GTH.
Silent ==
    \/ control.context \notin {"rth", "gth"}
    \/ control.context = "gth" /\ control.mode = Fallback

\* An outage is due once it has lasted, and is alerted once.
Outage(t) ==
    LET trans == Recent(t)
        id == OutageId(trans)
        alert == IF id # 0 /\ t - id >= IncidentNotify /\ incident.alerted # id
                 THEN EventAlert(trans) ELSE {} IN
    [alert |-> alert,
     next |-> [candidate |-> id, recovery |-> 0,
               alerted |-> IF alert # {} THEN id ELSE incident.alerted]]

\* A recovery is due once it has lasted, and closes an alerted incident.
Recovery(t) ==
    LET trans == Recent(t)
        id == IF incident.alerted = 0 THEN 0 ELSE IdOf(trans, incident.recovery)
        alert == IF id # 0 /\ t - id >= RecoveryNotify THEN EventAlert(trans) ELSE {} IN
    [alert |-> alert,
     next |-> IF alert # {} THEN NoIncident
              ELSE [candidate |-> 0, recovery |-> id, alerted |-> incident.alerted]]

\* The alert that is due at time t, and the incident file afterwards.
Evaluation(t) ==
    CASE ~Usable(t) -> [alert |-> {}, next |-> incident]
      [] Usable(t) /\ Silent -> [alert |-> {}, next |-> NoIncident]
      [] Usable(t) /\ ~Silent ->
            IF control.mode \in {Fallback, Both} THEN Outage(t) ELSE Recovery(t)

-----------------------------------------------------------------------------
(* RealtimeEngine.tick *)

TickStarts ==
    /\ engine = 0
    /\ engine' = now
    /\ UNCHANGED <<now, control, seen, incident, direct, cycle, told, faults>>

\* evaluate and append, after the analytics; the row is only scheduled when
\* the alert engine does not deliver by itself.
TickEvaluates ==
    /\ engine # 0
    /\ told' = IF direct THEN told ELSE told \union Evaluation(engine).alert
    /\ engine' = 0
    /\ UNCHANGED <<now, control, seen, incident, direct, cycle, faults>>

\* The snapshot, the analytics or the append fails.  The engine is a critical
\* task: its failure ends the process, once the threads of the other tasks
\* have returned, and systemd starts it again.
TickFails ==
    /\ engine # 0
    /\ faults < MaxFaults
    /\ faults' = faults + 1
    /\ engine' = 0
    /\ UNCHANGED <<now, control, seen, incident, direct, cycle, told>>

-----------------------------------------------------------------------------
(* alert_engine.run *)

\* evaluate_payload without persistence.
CycleEvaluates ==
    /\ cycle.pc = "idle"
    /\ cycle' = [pc |-> IF direct THEN "notify" ELSE "persist", at |-> now,
                 alert |-> Evaluation(now).alert]
    /\ UNCHANGED <<now, control, seen, incident, direct, engine, told, faults>>

\* notify_payload accepts the alerts.
CycleNotifies ==
    /\ cycle.pc = "notify"
    /\ told' = told \union cycle.alert
    /\ cycle' = [cycle EXCEPT !.pc = "persist"]
    /\ UNCHANGED <<now, control, seen, incident, direct, engine, faults>>

\* It does not, or raises: an alert that is pending is not recorded.
CycleNotSettled ==
    /\ cycle.pc = "notify"
    /\ faults < MaxFaults
    /\ faults' = faults + 1
    /\ cycle' = IF cycle.alert = {} THEN [cycle EXCEPT !.pc = "persist"] ELSE Resting
    /\ UNCHANGED <<now, control, seen, incident, direct, engine, told>>

\* persist_system_event_state evaluates again, as of the same time, over the
\* files as they are now.
CyclePersists ==
    /\ cycle.pc = "persist"
    /\ incident' = Evaluation(cycle.at).next
    /\ cycle' = Resting
    /\ UNCHANGED <<now, control, seen, direct, engine, told, faults>>

\* The cycle raises or the process dies; the files stay as they are.
CycleStops ==
    /\ cycle.pc # "idle"
    /\ faults < MaxFaults
    /\ faults' = faults + 1
    /\ cycle' = Resting
    /\ UNCHANGED <<now, control, seen, incident, direct, engine, told>>

-----------------------------------------------------------------------------
(* Specification *)

Next ==
    \/ Tick
    \/ \E at \in 1 .. now, schwab, ibkr \in BOOLEAN : EvaluateAndPersist(at, schwab, ibkr)
    \/ \E condition \in {"invalid", "corrupt", "missing"} : ControlLost(condition)
    \/ TickStarts \/ TickEvaluates \/ TickFails
    \/ CycleEvaluates \/ CycleNotifies \/ CycleNotSettled \/ CyclePersists \/ CycleStops

Spec == Init /\ [][Next]_vars

\* Each task starts again an interval after it has ended, or with the process:
\* a failure of the controller or of the realtime engine ends it, and systemd
\* starts it again (Restart=).  Failures and lost files are not required.
Fairness ==
    /\ WF_vars(Tick)
    /\ WF_vars(\E at \in 1 .. now, schwab, ibkr \in BOOLEAN : EvaluateAndPersist(at, schwab, ibkr))
    /\ WF_vars(TickStarts) /\ WF_vars(TickEvaluates)
    /\ WF_vars(CycleEvaluates) /\ WF_vars(CycleNotifies) /\ WF_vars(CyclePersists)

FairSpec == Spec /\ Fairness

-----------------------------------------------------------------------------
(* Properties *)

\* Every variable has its type.
TypeOK ==
    /\ now \in Time
    /\ control \in Control
    /\ seen \in Seen
    /\ incident \in Incident
    /\ direct \in BOOLEAN
    /\ engine \in Engine
    /\ cycle \in Cycle
    /\ told \subseteq Alert
    /\ faults \in 0 .. MaxFaults

\* Entries are only allowed while some provider has passed its health gate in
\* one of the last observations, fewer ago than its threshold, through every
\* change of context and every corrupt file.  A corrupt file forgets the
\* streaks, and the next change of context starts from the primary mode: with
\* a threshold above 2 the outage would go unnoticed for a while.  A file that
\* is removed, or invalid at a change of context, makes the controller start
\* afresh; the observations are counted from there.
EntriesBacked ==
    EntriesAllowed =>
        seen.dark < IF control.mode = Primary THEN SchwabUnhealthy ELSE IbkrUnhealthy

\* A step that improves the mode within a context is backed by observations.
Earned ==
    control'.context = control.context /\ control'.mode # control.mode =>
        /\ control'.mode = Primary => seen'.schwab >= SchwabRecovery
        /\ control'.mode = Fallback /\ control.mode # Primary => seen'.ibkr >= IbkrRecovery

\* Within a context nobody returns to a provider that has not really been
\* healthy for its threshold of consecutive observations, not even when the
\* file that said so is corrupt or invalid (load_failover_state: "A corrupt
\* state file must not silently restore primary semantics").  The exception is
\* a file that is removed: it restores the primary mode at once.
RecoveryEarned == [][control.file # "missing" => Earned]_vars

Holds(a) == IF a.mode = Primary THEN RecoveryNotify ELSE IncidentNotify

\* A step that leaves a mode comes after the delay of every alert so far.
Lasted ==
    control'.mode # control.mode \/ control'.context # control.context =>
        \A a \in told \union cycle.alert :
            control'.at > a.id + Holds(a) - ControlMaxAge

\* What the operator is told of has lasted: a mode that is announced, or about
\* to be, is not left before its notification delay, less the age the control
\* may have when it is read.
AnnouncedLasted == [][Lasted]_vars

\* notifier/policy.py: provider takeover and restoration "cannot be silently
\* vetoed".  An incident that is on file as alerted is handed over for
\* delivery, now or later.
AlertedIsTold ==
    \A t \in Time : incident.alerted = t ~> \E a \in told : a.id = t
=============================================================================
