----------------------- MODULE ProviderFailoverProofs -----------------------
(***************************************************************************)
(* Entries are only allowed on evidence, recoveries are earned and what is *)
(* announced has lasted, for every calendar, every delay and every         *)
(* threshold that FailoverAssumption and ThresholdAssumption admit, and    *)
(* however often the control file is lost.  What a removed file costs is   *)
(* part of the statements: see StartsAfresh and RecoveryEarned.            *)
(*                                                                         *)
(* The first two are not inductive: the observations count what happened,  *)
(* the control decides by its streaks, and the streaks are lost with the   *)
(* file.  StreaksBacked ties the two together.                             *)
(***************************************************************************)
EXTENDS ProviderFailover, TLAPS

\* The streaks last saved against the observations.  A corrupt file loses
\* them all, but is only followed by recovery_pending, where nothing needs
\* to be known beyond the last observation; a removed one starts afresh.
StreaksBacked ==
    /\ control.file \in {"readable", "invalid"} =>
          /\ seen.dark > 0 => control.su > 0
          /\ control.mode = Primary => seen.dark < SchwabUnhealthy
          /\ control.mode = Fallback => seen.dark <= control.iu /\ seen.dark < IbkrUnhealthy
          /\ control.sr <= seen.schwab /\ control.ir <= seen.ibkr
    /\ control.context = "closed" => control.mode = Primary

FailoverInv == TypeOK /\ StreaksBacked

-----------------------------------------------------------------------------
(* The operators of the controller *)

\* A streak stays within its threshold.
LEMMA StreakType ==
    ASSUME NEW goes \in BOOLEAN, NEW t \in Nat \ {0}, NEW n \in 0 .. t
    PROVE  Streak(goes, n, t) \in 0 .. t
  BY DEF Streak

\* The longer of two streaks stays the longer one.
LEMMA StreakMonotone ==
    ASSUME NEW goes \in BOOLEAN, NEW t \in Nat \ {0}, NEW k \in 0 .. t, NEW n \in 0 .. t,
           k <= n
    PROVE  Streak(goes, k, t) <= Streak(goes, n, t)
  BY DEF Streak

\* advance_failover leads from a mode to a mode.
LEMMA NextModeType ==
    ASSUME NEW mode \in Mode, NEW schwab \in BOOLEAN, NEW ibkr \in BOOLEAN, NEW s
    PROVE  NextMode(mode, schwab, ibkr, s) \in Mode
  BY DEF NextMode, Mode

\* FailoverState.initial is a state.
LEMMA InitialType == InitialState \in Control
  BY FailoverAssumption DEF InitialState, Control, Mode, Condition

\* load_failover_state returns a state whatever is on file.
LEMMA LoadType ==
    ASSUME control \in Control
    PROVE  LoadFailoverState \in Control
  <1>1. InitialState \in Control
    BY InitialType
  <1>2. [InitialState EXCEPT !.mode = Pending] \in Control
    BY <1>1 DEF Control, Mode
  <1>3. control.file \in Condition
    BY DEF Control
  <1> QED BY <1>1, <1>2, <1>3 DEF LoadFailoverState, Condition

\* A session boundary derives a state from a state.
LEMMA RederivedType ==
    ASSUME NEW c \in Control, NEW context \in Context, NEW ibkr \in BOOLEAN
    PROVE  Rederived(c, context, ibkr) \in Control
  <1> DEFINE m == IF context # "gth" THEN Primary ELSE IF ibkr THEN Fallback ELSE Pending
  <1>1. m \in Mode
    BY DEF Mode
  <1> HIDE DEF m
  <1>2. [c EXCEPT !.mode = m, !.trans = {}] \in Control
    BY <1>1 DEF Control
  <1>3. CASE ContextChanged(context) \/ (context = "gth" /\ c.mode = Primary)
    <2>1. Rederived(c, context, ibkr) = [c EXCEPT !.mode = m, !.trans = {}]
      BY <1>3 DEF Rederived, m
    <2> QED BY <2>1, <1>2
  <1>4. CASE ~(ContextChanged(context) \/ (context = "gth" /\ c.mode = Primary))
    BY <1>4 DEF Rederived
  <1> QED BY <1>3, <1>4

\* An observation leads from a state to a state.
LEMMA AdvanceType ==
    ASSUME NEW c \in Control, NEW schwab \in BOOLEAN, NEW ibkr \in BOOLEAN, NEW at \in Time
    PROVE  AdvanceFailover(c, schwab, ibkr, at) \in Control
  <1> DEFINE s == [su |-> Streak(~schwab, c.su, SchwabUnhealthy),
                   sr |-> Streak(schwab, c.sr, SchwabRecovery),
                   iu |-> Streak(c.mode # Primary /\ ~ibkr, c.iu, IbkrUnhealthy),
                   ir |-> Streak(ibkr, c.ir, IbkrRecovery)]
             mode == NextMode(c.mode, schwab, ibkr, s)
             anew == mode # c.mode /\ mode \in {Primary, Pending}
             iu == IF anew THEN 0 ELSE s.iu
             ir == IF anew THEN 0 ELSE s.ir
             trans == IF mode # c.mode THEN {[at |-> at, from |-> c.mode, to |-> mode]}
                      ELSE c.trans
  <1>1. /\ c.su \in 0 .. SchwabUnhealthy /\ c.sr \in 0 .. SchwabRecovery
        /\ c.iu \in 0 .. IbkrUnhealthy /\ c.ir \in 0 .. IbkrRecovery
        /\ c.mode \in Mode /\ c.trans \subseteq Transition
    BY DEF Control
  <1>2. /\ s.su \in 0 .. SchwabUnhealthy /\ s.sr \in 0 .. SchwabRecovery
        /\ s.iu \in 0 .. IbkrUnhealthy /\ s.ir \in 0 .. IbkrRecovery
    <2>1. Streak(~schwab, c.su, SchwabUnhealthy) \in 0 .. SchwabUnhealthy
      BY <1>1, StreakType, FailoverAssumption
    <2>2. Streak(schwab, c.sr, SchwabRecovery) \in 0 .. SchwabRecovery
      BY <1>1, StreakType, FailoverAssumption
    <2>3. Streak(c.mode # Primary /\ ~ibkr, c.iu, IbkrUnhealthy) \in 0 .. IbkrUnhealthy
      BY <1>1, StreakType, FailoverAssumption
    <2>4. Streak(ibkr, c.ir, IbkrRecovery) \in 0 .. IbkrRecovery
      BY <1>1, StreakType, FailoverAssumption
    <2> QED BY <2>1, <2>2, <2>3, <2>4
  <1>3. mode \in Mode
    BY <1>1, NextModeType
  <1>4. AdvanceFailover(c, schwab, ibkr, at) =
          [c EXCEPT !.mode = mode, !.at = at, !.su = s.su, !.sr = s.sr,
                    !.iu = iu, !.ir = ir, !.trans = trans]
    BY DEF AdvanceFailover
  <1> HIDE DEF s, mode
  <1>5. iu \in 0 .. IbkrUnhealthy /\ ir \in 0 .. IbkrRecovery
    BY <1>2, FailoverAssumption
  <1>6. trans \subseteq Transition
    BY <1>1, <1>3 DEF Transition
  <1>7. at \in 0 .. MaxTime
    BY DEF Time
  <1> HIDE DEF iu, ir, trans
  <1> QED BY <1>1, <1>2, <1>3, <1>4, <1>5, <1>6, <1>7 DEF Control

\* What an observation does to the streaks and the mode that entries depend on.
LEMMA AdvanceFields ==
    ASSUME NEW c \in Control, NEW schwab \in BOOLEAN, NEW ibkr \in BOOLEAN, NEW at \in Time
    PROVE  LET n == AdvanceFailover(c, schwab, ibkr, at) IN
           /\ ~schwab => n.su = IF c.su < SchwabUnhealthy THEN c.su + 1 ELSE SchwabUnhealthy
           /\ ~schwab /\ ~ibkr /\ n.mode = Primary =>
                 c.mode = Primary /\ n.su < SchwabUnhealthy
           /\ ~schwab /\ ~ibkr /\ n.mode = Fallback =>
                 /\ c.mode = Fallback /\ n.iu < IbkrUnhealthy
                 /\ n.iu = IF c.iu < IbkrUnhealthy THEN c.iu + 1 ELSE IbkrUnhealthy
           /\ n.sr = Streak(schwab, c.sr, SchwabRecovery)
           /\ n.ir \in {0, Streak(ibkr, c.ir, IbkrRecovery)}
           /\ n.mode = Primary /\ c.mode # Primary => n.sr >= SchwabRecovery
           /\ n.mode = Fallback /\ c.mode \notin {Primary, Fallback} =>
                 Streak(ibkr, c.ir, IbkrRecovery) >= IbkrRecovery
  <1> DEFINE s == [su |-> Streak(~schwab, c.su, SchwabUnhealthy),
                   sr |-> Streak(schwab, c.sr, SchwabRecovery),
                   iu |-> Streak(c.mode # Primary /\ ~ibkr, c.iu, IbkrUnhealthy),
                   ir |-> Streak(ibkr, c.ir, IbkrRecovery)]
             mode == NextMode(c.mode, schwab, ibkr, s)
             anew == mode # c.mode /\ mode \in {Primary, Pending}
             n == AdvanceFailover(c, schwab, ibkr, at)
  <1>1. /\ c.su \in 0 .. SchwabUnhealthy /\ c.iu \in 0 .. IbkrUnhealthy /\ c.mode \in Mode
        /\ SchwabUnhealthy \in Nat \ {0} /\ IbkrUnhealthy \in Nat \ {0}
    BY FailoverAssumption DEF Control
  <1>2. /\ n.mode = mode /\ n.su = s.su /\ n.iu = IF anew THEN 0 ELSE s.iu
        /\ n.sr = s.sr /\ n.ir = IF anew THEN 0 ELSE s.ir
    BY DEF AdvanceFailover, Control
  <1>3. ~schwab => s.su = IF c.su < SchwabUnhealthy THEN c.su + 1 ELSE SchwabUnhealthy
    BY DEF Streak
  <1>4. c.mode # Primary /\ ~ibkr =>
          s.iu = IF c.iu < IbkrUnhealthy THEN c.iu + 1 ELSE IbkrUnhealthy
    BY DEF Streak
  <1>5. s.su \in 0 .. SchwabUnhealthy /\ s.iu \in 0 .. IbkrUnhealthy
    BY <1>1 DEF Streak
  <1>13. /\ s.sr = Streak(schwab, c.sr, SchwabRecovery)
         /\ s.ir = Streak(ibkr, c.ir, IbkrRecovery)
    OBVIOUS
  <1> HIDE DEF s
  <1>14. mode = Primary /\ c.mode # Primary => s.sr >= SchwabRecovery
    BY <1>1 DEF NextMode, Mode, Primary, Pending, Fallback, Both
  <1>15. mode = Fallback /\ c.mode \notin {Primary, Fallback} => s.ir >= IbkrRecovery
    BY <1>1 DEF NextMode, Mode, Primary, Pending, Fallback, Both
  <1>6. ASSUME ~schwab, ~ibkr, mode = Primary
        PROVE  c.mode = Primary /\ s.su < SchwabUnhealthy
    BY <1>1, <1>5, <1>6 DEF NextMode, Mode, Primary, Pending, Fallback, Both
  <1>7. ASSUME ~schwab, ~ibkr, mode = Fallback
        PROVE  c.mode = Fallback /\ s.iu < IbkrUnhealthy
    BY <1>1, <1>5, <1>7 DEF NextMode, Mode, Primary, Pending, Fallback, Both
  <1> HIDE DEF mode, n
  <1>8. mode = Fallback => ~anew
    BY DEF Primary, Pending, Fallback
  <1>9. c.mode = Fallback => c.mode # Primary
    BY DEF Primary, Fallback
  <1> HIDE DEF anew
  <1>10. ~schwab /\ ~ibkr /\ n.mode = Fallback =>
           /\ c.mode = Fallback /\ n.iu < IbkrUnhealthy
           /\ n.iu = IF c.iu < IbkrUnhealthy THEN c.iu + 1 ELSE IbkrUnhealthy
    BY <1>2, <1>4, <1>7, <1>8, <1>9
  <1>11. ~schwab /\ ~ibkr /\ n.mode = Primary => c.mode = Primary /\ n.su < SchwabUnhealthy
    BY <1>2, <1>6
  <1>12. ~schwab => n.su = IF c.su < SchwabUnhealthy THEN c.su + 1 ELSE SchwabUnhealthy
    BY <1>2, <1>3
  <1>16. /\ n.sr = Streak(schwab, c.sr, SchwabRecovery)
         /\ n.ir \in {0, Streak(ibkr, c.ir, IbkrRecovery)}
         /\ n.mode = Primary /\ c.mode # Primary => n.sr >= SchwabRecovery
         /\ n.mode = Fallback /\ c.mode \notin {Primary, Fallback} =>
               Streak(ibkr, c.ir, IbkrRecovery) >= IbkrRecovery
    BY <1>2, <1>13, <1>14, <1>15
  <1> QED BY <1>10, <1>11, <1>12, <1>16 DEF n

\* What is known of the state that an evaluation starts from: where it says
\* primary or fallback, its streaks have counted the outage so far, IBKR is
\* healthy now, or it starts afresh.  Its recoveries are no longer than the
\* observed ones, and only a new context or a removed file makes a mode better.
LEMMA StartingPoint ==
    ASSUME FailoverInv, NEW context \in Context, NEW ibkr \in BOOLEAN
    PROVE  LET c == Rederived(LoadFailoverState, context, ibkr) IN
           /\ c.mode = Primary => StartsAfresh(context) \/ seen.dark = 0 \/ c.su > 0
           /\ c.mode = Fallback =>
                 ibkr \/ (seen.dark <= c.iu /\ seen.dark < IbkrUnhealthy)
           /\ c.sr <= seen.schwab /\ c.ir <= seen.ibkr
           /\ context = control.context /\ control.file # "missing" =>
                 /\ c.mode = Primary => control.mode = Primary
                 /\ c.mode = Fallback => control.mode \in {Primary, Fallback}
  <1> DEFINE l == LoadFailoverState
             c == Rederived(l, context, ibkr)
             m == IF context # "gth" THEN Primary ELSE IF ibkr THEN Fallback ELSE Pending
             fresh == ContextChanged(context) \/ (context = "gth" /\ l.mode = Primary)
  <1>1. /\ l \in Control /\ control \in Control /\ seen.dark \in Nat
        /\ seen.schwab \in Nat /\ seen.ibkr \in Nat
    BY LoadType, FailoverAssumption DEF FailoverInv, TypeOK, Seen
  <1>2. control.file = "missing" => /\ l = InitialState /\ StartsAfresh(context)
                                    /\ ~ContextChanged(context)
    BY DEF LoadFailoverState, StartsAfresh, ContextChanged
  <1>3. control.file \in {"corrupt", "invalid"} => l = [InitialState EXCEPT !.mode = Pending]
    BY DEF LoadFailoverState
  <1>4. control.file = "readable" => l = control
    BY DEF LoadFailoverState
  <1>11. control.file \in {"readable", "invalid", "corrupt", "missing"}
    BY <1>1 DEF Control, Condition
  <1>5. l.mode = Primary => StartsAfresh(context) \/ seen.dark = 0 \/ l.su > 0
    <2>1. CASE control.file \in {"corrupt", "invalid"}
      BY <2>1, <1>3 DEF InitialState, Primary, Pending
    <2> QED BY <2>1, <1>1, <1>2, <1>4, <1>11 DEF Control, FailoverInv, StreaksBacked
  <1>6. l.mode = Fallback => seen.dark <= l.iu /\ seen.dark < IbkrUnhealthy
    <2>1. CASE control.file \in {"corrupt", "invalid"}
      BY <2>1, <1>3 DEF InitialState, Fallback, Pending
    <2>2. CASE control.file = "missing"
      BY <2>2, <1>2 DEF InitialState, Fallback, Primary
    <2> QED BY <2>1, <2>2, <1>1, <1>4, <1>11 DEF Control, FailoverInv, StreaksBacked
  <1>9. l.sr <= seen.schwab /\ l.ir <= seen.ibkr
    <2>1. CASE control.file = "readable"
      BY <2>1, <1>4 DEF FailoverInv, StreaksBacked
    <2>2. CASE control.file # "readable"
      BY <2>2, <1>1, <1>2, <1>3, <1>11 DEF InitialState, Control
    <2> QED BY <2>1, <2>2
  <1>10. context = control.context /\ control.file # "missing" =>
           /\ ~ContextChanged(context)
           /\ l.mode = Primary => control.mode = Primary
           /\ l.mode = Fallback => control.mode = Fallback
    BY <1>1, <1>3, <1>4, <1>11
       DEF InitialState, Control, ContextChanged, Primary, Fallback, Pending
  <1>7. CASE fresh
    <2>1. c.mode = m /\ c.su = l.su /\ c.iu = l.iu /\ c.sr = l.sr /\ c.ir = l.ir
      BY <1>1, <1>7 DEF Rederived, Control
    <2>2. c.mode = Fallback => ibkr
      BY <2>1 DEF Primary, Pending, Fallback
    <2>3. c.mode = Primary => ContextChanged(context)
      BY <2>1, <1>7 DEF Primary, Pending, Fallback
    <2>4. ContextChanged(context) => StartsAfresh(context) \/ seen.dark = 0 \/ l.su > 0
      BY <1>1, <1>4 DEF ContextChanged, StartsAfresh, FailoverInv, StreaksBacked
    <2>5. context = control.context /\ control.file # "missing" =>
            c.mode # Primary /\ control.mode = Primary
      BY <2>3, <1>7, <1>10
    <2> HIDE DEF c
    <2> QED BY <2>1, <2>2, <2>3, <2>4, <2>5, <1>9 DEF c
  <1>8. CASE ~fresh
    <2>1. c = l
      BY <1>8 DEF Rederived
    <2> QED BY <2>1, <1>5, <1>6, <1>9, <1>10
  <1> QED BY <1>7, <1>8

\* The observations keep their type, and an observation without any healthy
\* provider counts once, from 0 where the controller starts afresh.
LEMMA ObservedFacts ==
    ASSUME TypeOK, NEW context \in Context, NEW schwab \in BOOLEAN, NEW ibkr \in BOOLEAN
    PROVE  LET seen1 == Observed(context, schwab, ibkr) IN
           /\ seen1 \in Seen
           /\ seen1.dark > 0 => ~schwab /\ ~ibkr
           /\ seen1.dark <= seen.dark + 1
           /\ StartsAfresh(context) => seen1.dark <= 1
  <1> DEFINE before == IF StartsAfresh(context) THEN 0 ELSE seen.dark
             seen1 == Observed(context, schwab, ibkr)
  <1>1. /\ seen.schwab \in 0 .. SchwabRecovery /\ seen.ibkr \in 0 .. IbkrRecovery
        /\ seen.dark \in 0 .. SchwabUnhealthy + IbkrUnhealthy
    BY DEF TypeOK, Seen
  <1>2. Streak(schwab, seen.schwab, SchwabRecovery) \in 0 .. SchwabRecovery
    BY <1>1, StreakType, FailoverAssumption
  <1>3. Streak(ibkr, seen.ibkr, IbkrRecovery) \in 0 .. IbkrRecovery
    BY <1>1, StreakType, FailoverAssumption
  <1>4. SchwabUnhealthy + IbkrUnhealthy \in Nat \ {0}
    BY FailoverAssumption
  <1>7. /\ before \in 0 .. SchwabUnhealthy + IbkrUnhealthy /\ before <= seen.dark
        /\ StartsAfresh(context) => before = 0
    BY <1>1, <1>4
  <1>8. seen1.dark = Streak(~schwab /\ ~ibkr, before, SchwabUnhealthy + IbkrUnhealthy)
    BY DEF Observed
  <1>9. seen1 = [schwab |-> Streak(schwab, seen.schwab, SchwabRecovery),
                 ibkr |-> Streak(ibkr, seen.ibkr, IbkrRecovery), dark |-> seen1.dark]
    BY DEF Observed
  <1> HIDE DEF before, seen1
  <1>5. seen1.dark \in 0 .. SchwabUnhealthy + IbkrUnhealthy
    BY <1>4, <1>7, <1>8, StreakType
  <1>6. /\ seen1.dark > 0 => ~schwab /\ ~ibkr
        /\ seen1.dark <= before + 1
    BY <1>4, <1>7, <1>8 DEF Streak
  <1>10. /\ seen1.dark <= seen.dark + 1
         /\ StartsAfresh(context) => seen1.dark <= 1
    BY <1>1, <1>4, <1>5, <1>6, <1>7
  <1>11. seen1 \in Seen
    BY <1>2, <1>3, <1>5, <1>9 DEF Seen
  <1> QED BY <1>6, <1>10, <1>11 DEF seen1

\* The observed recoveries stay at least as long as the ones on file.
LEMMA RecoveryCounted ==
    ASSUME TypeOK, NEW c \in Control, c.sr <= seen.schwab, c.ir <= seen.ibkr,
           NEW context \in Context, NEW schwab \in BOOLEAN, NEW ibkr \in BOOLEAN
    PROVE  /\ Streak(schwab, c.sr, SchwabRecovery) <= Observed(context, schwab, ibkr).schwab
           /\ Streak(ibkr, c.ir, IbkrRecovery) <= Observed(context, schwab, ibkr).ibkr
           /\ 0 <= Observed(context, schwab, ibkr).ibkr
  <1>1. /\ c.sr \in 0 .. SchwabRecovery /\ seen.schwab \in 0 .. SchwabRecovery
        /\ c.ir \in 0 .. IbkrRecovery /\ seen.ibkr \in 0 .. IbkrRecovery
    BY DEF Control, TypeOK, Seen
  <1>2. Streak(schwab, c.sr, SchwabRecovery) <= Streak(schwab, seen.schwab, SchwabRecovery)
    BY <1>1, StreakMonotone, FailoverAssumption
  <1>3. Streak(ibkr, c.ir, IbkrRecovery) <= Streak(ibkr, seen.ibkr, IbkrRecovery)
    BY <1>1, StreakMonotone, FailoverAssumption
  <1>4. Streak(ibkr, seen.ibkr, IbkrRecovery) \in 0 .. IbkrRecovery
    BY <1>1, StreakType, FailoverAssumption
  <1> QED BY <1>2, <1>3, <1>4 DEF Observed

-----------------------------------------------------------------------------
(* The incident evaluation *)

\* Whatever is on file, the alert that is due is one and the incident file keeps
\* its type.
LEMMA EvaluationType ==
    ASSUME TypeOK, NEW t \in 0 .. MaxTime
    PROVE  Evaluation(t).alert \subseteq Alert /\ Evaluation(t).next \in Incident
  <1>1. control.trans \subseteq Transition /\ Recent(t) \subseteq Transition
    BY DEF TypeOK, Control, Recent
  <1>2. EventAlert(Recent(t)) \subseteq Alert
    BY <1>1 DEF EventAlert, Alert, Transition
  <1>3. /\ incident \in Incident /\ NoIncident \in Incident /\ 0 \in 0 .. MaxTime
        /\ incident.candidate \in 0 .. MaxTime /\ incident.recovery \in 0 .. MaxTime
        /\ incident.alerted \in 0 .. MaxTime
    BY FailoverAssumption DEF TypeOK, Incident, NoIncident
  <1>4. ASSUME NEW stored \in 0 .. MaxTime
        PROVE  IdOf(Recent(t), stored) \in 0 .. MaxTime
    <2>1. CASE Recent(t) = {}
      BY <2>1 DEF IdOf
    <2>2. CASE Recent(t) # {}
      <3>1. (CHOOSE x \in Recent(t) : TRUE) \in Transition
        BY <2>2, <1>1
      <3>2. (CHOOSE x \in Recent(t) : TRUE).at \in 0 .. MaxTime
        BY <3>1 DEF Transition, Time
      <3> QED BY <3>2, <2>2 DEF IdOf
    <2> QED BY <2>1, <2>2
  <1>5. Outage(t).alert \subseteq Alert /\ Outage(t).next \in Incident
    <2>1. OutageId(Recent(t)) \in 0 .. MaxTime
      BY <1>3, <1>4 DEF OutageId
    <2> QED BY <2>1, <1>2, <1>3 DEF Outage, Incident
  <1>6. Recovery(t).alert \subseteq Alert /\ Recovery(t).next \in Incident
    <2>1. IdOf(Recent(t), incident.recovery) \in 0 .. MaxTime
      BY <1>3, <1>4
    <2> QED BY <2>1, <1>2, <1>3 DEF Recovery, Incident
  <1>7. Usable(t) \in BOOLEAN /\ Silent \in BOOLEAN
    BY DEF Usable, Silent
  <1> QED BY <1>3, <1>5, <1>6, <1>7 DEF Evaluation

-----------------------------------------------------------------------------
(* The steps *)

\* The parts of TypeOK that the controller touches, and the others.
LEMMA ControllerFrame ==
    ASSUME TypeOK, control' \in Control, seen' \in Seen,
           UNCHANGED <<now, incident, direct, engine, cycle, told, faults>>
    PROVE  TypeOK'
  BY DEF TypeOK

\* Steps of the other tasks leave the control and the observations alone.
LEMMA TaskFrame ==
    ASSUME FailoverInv, TypeOK', UNCHANGED <<control, seen>>
    PROVE  FailoverInv'
  BY DEF FailoverInv, StreaksBacked

\* An evaluation of the controller: an outage that the streaks have counted so
\* far is counted further, whatever the context or the file were.
LEMMA EvaluateKeeps ==
    ASSUME FailoverInv, NEW at \in Time, NEW schwab \in BOOLEAN, NEW ibkr \in BOOLEAN,
           EvaluateAndPersist(at, schwab, ibkr)
    PROVE  FailoverInv'
  <1> DEFINE context == ContextAt[at]
             c == Rederived(LoadFailoverState, context, ibkr)
             n == AdvanceFailover(c, schwab, ibkr, at)
  <1>1. context \in Context /\ TypeOK
    BY FailoverAssumption DEF FailoverInv
  <1>2. UNCHANGED <<now, incident, direct, engine, cycle, told, faults>>
    BY DEF EvaluateAndPersist
  <1>3. CASE context = "closed"
    <2>1. /\ control' = [InitialState EXCEPT !.file = "readable", !.context = "closed", !.at = at]
          /\ seen' = NothingSeen
      BY <1>3 DEF EvaluateAndPersist
    <2>2. control' \in Control
      <3>1. at \in 0 .. MaxTime /\ "closed" \in Context \union {"none"}
            /\ "readable" \in Condition
        BY DEF Context, Time, Condition
      <3> QED BY <2>1, <3>1, InitialType DEF Control
    <2>3. seen' \in Seen
      BY <2>1, FailoverAssumption DEF NothingSeen, Seen
    <2>4. /\ control'.mode = Primary /\ control'.file = "readable"
          /\ control'.sr = 0 /\ control'.ir = 0
          /\ seen'.dark = 0 /\ seen'.schwab = 0 /\ seen'.ibkr = 0
      BY <2>1 DEF InitialState, NothingSeen
    <2>5. StreaksBacked'
      BY <2>4, FailoverAssumption DEF StreaksBacked, Primary, Fallback
    <2> QED BY <2>2, <2>3, <2>5, <1>1, <1>2, ControllerFrame DEF FailoverInv
  <1>4. CASE context # "closed"
    <2>1. /\ control' = [n EXCEPT !.file = "readable", !.context = context]
          /\ seen' = Observed(context, schwab, ibkr)
      BY <1>4 DEF EvaluateAndPersist
    <2>2. c \in Control
      <3>1. LoadFailoverState \in Control
        BY <1>1, LoadType DEF TypeOK
      <3> QED BY <3>1, <1>1, RederivedType
    <2>3. /\ c.mode = Primary => StartsAfresh(context) \/ seen.dark = 0 \/ c.su > 0
          /\ c.mode = Fallback => ibkr \/ (seen.dark <= c.iu /\ seen.dark < IbkrUnhealthy)
          /\ c.sr <= seen.schwab /\ c.ir <= seen.ibkr
      BY <1>1, StartingPoint
    <2>4. c.su \in 0 .. SchwabUnhealthy /\ c.iu \in 0 .. IbkrUnhealthy
      BY <2>2 DEF Control
    <2> HIDE DEF c
    <2>5. n \in Control
      BY <2>2, AdvanceType
    <2>6. /\ ~schwab => n.su = IF c.su < SchwabUnhealthy THEN c.su + 1 ELSE SchwabUnhealthy
          /\ ~schwab /\ ~ibkr /\ n.mode = Primary => c.mode = Primary /\ n.su < SchwabUnhealthy
          /\ ~schwab /\ ~ibkr /\ n.mode = Fallback =>
                /\ c.mode = Fallback /\ n.iu < IbkrUnhealthy
                /\ n.iu = IF c.iu < IbkrUnhealthy THEN c.iu + 1 ELSE IbkrUnhealthy
          /\ n.sr = Streak(schwab, c.sr, SchwabRecovery)
          /\ n.ir \in {0, Streak(ibkr, c.ir, IbkrRecovery)}
      BY <2>2, AdvanceFields
    <2> HIDE DEF n
    <2>7. control' \in Control
      BY <2>1, <2>5, <1>1 DEF Control, Condition
    <2>8. /\ control'.file = "readable" /\ control'.mode = n.mode
          /\ control'.su = n.su /\ control'.iu = n.iu
          /\ control'.sr = n.sr /\ control'.ir = n.ir /\ control'.context = context
      BY <2>1, <2>5 DEF Control
    <2>9. /\ seen' \in Seen
          /\ seen'.dark > 0 => ~schwab /\ ~ibkr
          /\ seen'.dark <= seen.dark + 1
          /\ StartsAfresh(context) => seen'.dark <= 1
      BY <2>1, <1>1, ObservedFacts
    <2>10. /\ SchwabUnhealthy \in Nat \ {0} /\ IbkrUnhealthy \in Nat \ {0} /\ SchwabUnhealthy <= 2
           /\ seen.dark \in Nat /\ seen'.dark \in Nat /\ n.iu \in Nat
      BY <1>1, <2>9, <2>5, FailoverAssumption, ThresholdAssumption DEF TypeOK, Seen, Control
    <2>11. seen'.dark > 0 => n.su > 0
      BY <2>4, <2>6, <2>9, <2>10
    <2>12. n.mode = Primary => seen'.dark < SchwabUnhealthy
      BY <2>3, <2>4, <2>6, <2>9, <2>10
    <2>13. n.mode = Fallback => seen'.dark <= n.iu /\ seen'.dark < IbkrUnhealthy
      BY <2>3, <2>4, <2>6, <2>9, <2>10
    <2>14. n.sr <= seen'.schwab /\ n.ir <= seen'.ibkr
      BY <2>1, <2>2, <2>3, <2>6, <1>1, RecoveryCounted
    <2>15. StreaksBacked'
      BY <2>8, <2>11, <2>12, <2>13, <2>14, <1>4 DEF StreaksBacked
    <2> QED BY <2>7, <2>9, <2>15, <1>1, <1>2, ControllerFrame DEF FailoverInv
  <1> QED BY <1>3, <1>4

\* A file that is lost leaves what was last saved as it was.
LEMMA LostKeeps ==
    ASSUME FailoverInv, NEW condition \in {"invalid", "corrupt", "missing"},
           ControlLost(condition)
    PROVE  FailoverInv'
  <1>1. /\ control' = [control EXCEPT !.file = condition] /\ control \in Control
        /\ UNCHANGED seen
    BY DEF ControlLost, FailoverInv, TypeOK
  <1>2. /\ control' \in Control /\ control'.file = condition
        /\ control'.context = control.context /\ control'.mode = control.mode
        /\ control'.su = control.su /\ control'.iu = control.iu
        /\ control'.sr = control.sr /\ control'.ir = control.ir
    BY <1>1 DEF Control, Condition
  <1>3. faults' \in 0 .. MaxFaults
    BY FailoverAssumption DEF ControlLost, FailoverInv, TypeOK
  <1>4. TypeOK'
    BY <1>2, <1>3 DEF ControlLost, FailoverInv, TypeOK
  <1>5. condition = "invalid" => control.file = "readable"
    BY DEF ControlLost
  <1>6. StreaksBacked'
    BY <1>1, <1>2, <1>5 DEF FailoverInv, StreaksBacked
  <1> QED BY <1>4, <1>6 DEF FailoverInv

\* The clock and the steps of the realtime engine.
LEMMA TickKeeps ==
    ASSUME FailoverInv, Tick \/ TickStarts \/ TickEvaluates \/ TickFails
    PROVE  FailoverInv'
  <1>1. TypeOK /\ MaxTime \in Nat \ {0} /\ MaxFaults \in Nat
    BY FailoverAssumption DEF FailoverInv
  <1>2. CASE Tick
    BY <1>1, <1>2, TaskFrame DEF Tick, TypeOK, Time
  <1>3. CASE TickStarts
    BY <1>1, <1>3, TaskFrame DEF TickStarts, TypeOK, Time, Engine
  <1>4. CASE TickEvaluates
    <2>1. Evaluation(engine).alert \subseteq Alert
      BY <1>1, EvaluationType DEF TypeOK, Engine
    <2>2. TypeOK'
      BY <2>1, <1>1, <1>4 DEF TickEvaluates, TypeOK, Engine
    <2> QED BY <2>2, <1>4, TaskFrame DEF TickEvaluates
  <1>5. CASE TickFails
    BY <1>1, <1>5, TaskFrame DEF TickFails, TypeOK, Engine
  <1> QED BY <1>2, <1>3, <1>4, <1>5

\* The steps of the alert engine.
LEMMA CycleKeeps ==
    ASSUME FailoverInv,
           CycleEvaluates \/ CycleNotifies \/ CycleNotSettled \/ CyclePersists \/ CycleStops
    PROVE  FailoverInv'
  <1>1. /\ TypeOK /\ MaxTime \in Nat \ {0} /\ MaxFaults \in Nat
        /\ Resting \in Cycle /\ cycle \in Cycle
    BY FailoverAssumption DEF FailoverInv, TypeOK, Resting, Cycle
  <1>2. CASE CycleEvaluates
    <2>1. Evaluation(now).alert \subseteq Alert
      BY <1>1, EvaluationType DEF TypeOK, Time
    <2>2. cycle' \in Cycle
      BY <2>1, <1>1, <1>2 DEF CycleEvaluates, TypeOK, Cycle, Time
    <2>3. TypeOK'
      BY <2>2, <1>1, <1>2 DEF CycleEvaluates, TypeOK
    <2> QED BY <2>3, <1>2, TaskFrame DEF CycleEvaluates
  <1>3. CASE CycleNotifies
    <2>1. cycle' \in Cycle /\ cycle.alert \subseteq Alert
      BY <1>1, <1>3 DEF CycleNotifies, Cycle
    <2>2. TypeOK'
      BY <2>1, <1>1, <1>3 DEF CycleNotifies, TypeOK
    <2> QED BY <2>2, <1>3, TaskFrame DEF CycleNotifies
  <1>4. CASE CycleNotSettled
    <2>1. cycle' \in Cycle
      BY <1>1, <1>4 DEF CycleNotSettled, Cycle
    <2>2. TypeOK'
      BY <2>1, <1>1, <1>4 DEF CycleNotSettled, TypeOK
    <2> QED BY <2>2, <1>4, TaskFrame DEF CycleNotSettled
  <1>5. CASE CyclePersists
    <2>1. incident' \in Incident
      <3>1. cycle.at \in 0 .. MaxTime
        BY <1>1 DEF Cycle
      <3> QED BY <3>1, <1>1, <1>5, EvaluationType DEF CyclePersists
    <2>2. TypeOK'
      BY <2>1, <1>1, <1>5 DEF CyclePersists, TypeOK
    <2> QED BY <2>2, <1>5, TaskFrame DEF CyclePersists
  <1>6. CASE CycleStops
    <2>1. TypeOK'
      BY <1>1, <1>6 DEF CycleStops, TypeOK
    <2> QED BY <2>1, <1>6, TaskFrame DEF CycleStops
  <1> QED BY <1>2, <1>3, <1>4, <1>5, <1>6

-----------------------------------------------------------------------------
(* Theorems *)

\* The initial states are typed.
LEMMA InitTypes ==
    ASSUME Init
    PROVE  TypeOK
  <1>1. control \in Control
    BY InitialType DEF Init
  <1>2. /\ seen \in Seen /\ incident \in Incident /\ cycle \in Cycle
    BY FailoverAssumption DEF Init, NothingSeen, Seen, NoIncident, Incident, Resting, Cycle
  <1> QED BY <1>1, <1>2, FailoverAssumption DEF Init, TypeOK, Time, Engine

\* Types and StreaksBacked hold throughout: the streaks of a readable control
\* have counted what the controller has seen (advance_failover,
\* evaluate_and_persist, load_failover_state).
THEOREM FailoverInvariant == Spec => []FailoverInv
  <1>1. Init => FailoverInv
    BY InitTypes DEF Init, InitialState, NothingSeen, StreaksBacked, FailoverInv
  <1>2. FailoverInv /\ [Next]_vars => FailoverInv'
    <2> SUFFICES ASSUME FailoverInv, [Next]_vars PROVE FailoverInv'
      OBVIOUS
    <2>1. CASE \E at \in 1 .. now, schwab, ibkr \in BOOLEAN : EvaluateAndPersist(at, schwab, ibkr)
      <3>1. PICK at \in 1 .. now, schwab \in BOOLEAN, ibkr \in BOOLEAN :
                    EvaluateAndPersist(at, schwab, ibkr)
        BY <2>1
      <3>2. at \in Time
        BY FailoverAssumption DEF FailoverInv, TypeOK, Time
      <3> QED BY <3>1, <3>2, EvaluateKeeps
    <2>2. CASE \E condition \in {"invalid", "corrupt", "missing"} : ControlLost(condition)
      BY <2>2, LostKeeps
    <2>3. CASE Tick \/ TickStarts \/ TickEvaluates \/ TickFails
      BY <2>3, TickKeeps
    <2>4. CASE CycleEvaluates \/ CycleNotifies \/ CycleNotSettled \/ CyclePersists \/ CycleStops
      BY <2>4, CycleKeeps
    <2>5. CASE UNCHANGED vars
      BY <2>5 DEF vars, FailoverInv, TypeOK, StreaksBacked
    <2> QED BY <2>1, <2>2, <2>3, <2>4, <2>5 DEF Next
  <1> QED BY <1>1, <1>2, PTL DEF Spec

\* Files, tasks and alerts keep their types.
THEOREM FailoverTypeCorrect == Spec => []TypeOK
  <1>1. FailoverInv => TypeOK
    BY DEF FailoverInv
  <1> QED BY <1>1, FailoverInvariant, PTL

\* New entries are never allowed (new_entry_control_decision) once as many
\* consecutive observations as the threshold of the chosen provider have found
\* no healthy provider, counted from the last time the controller had to start
\* afresh (StartsAfresh).
THEOREM EntriesAlwaysBacked == Spec => []EntriesBacked
  <1>1. FailoverInv => EntriesBacked
    <2> SUFFICES ASSUME FailoverInv, EntriesAllowed
                 PROVE  seen.dark < IF control.mode = Primary THEN SchwabUnhealthy
                                    ELSE IbkrUnhealthy
      BY DEF EntriesBacked
    <2>1. control.file \in {"readable", "invalid"} /\ control.mode \in {Primary, Fallback}
      BY DEF EntriesAllowed
    <2>2. CASE control.mode = Primary
      BY <2>1, <2>2 DEF FailoverInv, StreaksBacked
    <2>3. CASE control.mode = Fallback /\ control.mode # Primary
      BY <2>1, <2>3 DEF FailoverInv, StreaksBacked
    <2> QED BY <2>1, <2>2, <2>3
  <1> QED BY <1>1, FailoverInvariant, PTL

\* Within a context no evaluation that finds a file returns to a provider that
\* the observations do not show healthy for its threshold.
LEMMA EvaluateEarns ==
    ASSUME FailoverInv, NEW at \in Time, NEW schwab \in BOOLEAN, NEW ibkr \in BOOLEAN,
           EvaluateAndPersist(at, schwab, ibkr),
           control.file # "missing",
           control'.context = control.context, control'.mode # control.mode
    PROVE  /\ control'.mode = Primary => seen'.schwab >= SchwabRecovery
           /\ control'.mode = Fallback /\ control.mode # Primary => seen'.ibkr >= IbkrRecovery
  <1> DEFINE context == ContextAt[at]
             c == Rederived(LoadFailoverState, context, ibkr)
             n == AdvanceFailover(c, schwab, ibkr, at)
  <1>1. context \in Context /\ TypeOK
    BY FailoverAssumption DEF FailoverInv
  <1>2. context # "closed"
    <2> SUFFICES ASSUME context = "closed" PROVE FALSE
      OBVIOUS
    <2>1. control' = [InitialState EXCEPT !.file = "readable", !.context = "closed", !.at = at]
      BY DEF EvaluateAndPersist
    <2>2. control'.context = "closed" /\ control'.mode = Primary
      BY <2>1 DEF InitialState
    <2> QED BY <2>2 DEF FailoverInv, StreaksBacked
  <1>3. /\ control' = [n EXCEPT !.file = "readable", !.context = context]
        /\ seen' = Observed(context, schwab, ibkr)
    BY <1>2 DEF EvaluateAndPersist
  <1>4. c \in Control
    <2>1. LoadFailoverState \in Control
      BY <1>1, LoadType DEF TypeOK
    <2> QED BY <2>1, <1>1, RederivedType
  <1>5. n \in Control
    BY <1>4, AdvanceType
  <1>6. control'.context = context /\ control'.mode = n.mode
    BY <1>3, <1>5 DEF Control
  <1>7. /\ c.sr <= seen.schwab /\ c.ir <= seen.ibkr
        /\ c.mode = Primary => control.mode = Primary
        /\ c.mode = Fallback => control.mode \in {Primary, Fallback}
    BY <1>1, <1>6, StartingPoint
  <1>8. /\ n.sr = Streak(schwab, c.sr, SchwabRecovery)
        /\ n.mode = Primary /\ c.mode # Primary => n.sr >= SchwabRecovery
        /\ n.mode = Fallback /\ c.mode \notin {Primary, Fallback} =>
              Streak(ibkr, c.ir, IbkrRecovery) >= IbkrRecovery
    BY <1>4, AdvanceFields
  <1>9. /\ Streak(schwab, c.sr, SchwabRecovery) <= seen'.schwab
        /\ Streak(ibkr, c.ir, IbkrRecovery) <= seen'.ibkr
    BY <1>1, <1>3, <1>4, <1>7, RecoveryCounted
  <1>10. /\ c.sr \in 0 .. SchwabRecovery /\ c.ir \in 0 .. IbkrRecovery
         /\ SchwabRecovery \in Nat \ {0} /\ IbkrRecovery \in Nat \ {0}
    BY <1>4, FailoverAssumption DEF Control
  <1>11. /\ Streak(schwab, c.sr, SchwabRecovery) \in 0 .. SchwabRecovery
         /\ Streak(ibkr, c.ir, IbkrRecovery) \in 0 .. IbkrRecovery
    BY <1>10, StreakType
  <1>12. seen'.schwab \in Nat /\ seen'.ibkr \in Nat
    BY <1>1, <1>3, ObservedFacts, <1>10 DEF Seen
  <1> HIDE DEF c, n
  <1>13. control'.mode = Primary => seen'.schwab >= SchwabRecovery
    BY <1>6, <1>7, <1>8, <1>9, <1>10, <1>11, <1>12
  <1>14. control'.mode = Fallback /\ control.mode # Primary => seen'.ibkr >= IbkrRecovery
    BY <1>6, <1>7, <1>8, <1>9, <1>10, <1>11, <1>12
  <1> QED BY <1>13, <1>14

\* The gate never opens on a provider that has not recovered: within a context
\* the mode improves only after the threshold of healthy observations, even when
\* the file with the streaks is corrupt or invalid (advance_failover,
\* load_failover_state).  Nothing is claimed of an evaluation that finds no file.
THEOREM RecoveryAlwaysEarned == Spec => RecoveryEarned
  <1>1. FailoverInv /\ [Next]_vars => [control.file # "missing" => Earned]_vars
    <2> SUFFICES ASSUME FailoverInv, Next, control.file # "missing" PROVE Earned
      OBVIOUS
    <2> USE DEF Earned
    <2>1. CASE \E at \in 1 .. now, schwab, ibkr \in BOOLEAN : EvaluateAndPersist(at, schwab, ibkr)
      <3>1. PICK at \in 1 .. now, schwab \in BOOLEAN, ibkr \in BOOLEAN :
                    EvaluateAndPersist(at, schwab, ibkr)
        BY <2>1
      <3>2. at \in Time
        BY FailoverAssumption DEF FailoverInv, TypeOK, Time
      <3> QED BY <3>1, <3>2, EvaluateEarns
    <2>2. CASE \E condition \in {"invalid", "corrupt", "missing"} : ControlLost(condition)
      <3>1. control'.mode = control.mode
        BY <2>2 DEF ControlLost, FailoverInv, TypeOK, Control
      <3> QED BY <3>1
    <2>3. CASE UNCHANGED <<control, seen>>
      BY <2>3
    <2>4. \/ \E at \in 1 .. now, schwab, ibkr \in BOOLEAN : EvaluateAndPersist(at, schwab, ibkr)
          \/ \E condition \in {"invalid", "corrupt", "missing"} : ControlLost(condition)
          \/ UNCHANGED <<control, seen>>
      BY DEF Next, Tick, TickStarts, TickEvaluates, TickFails, CycleEvaluates, CycleNotifies,
             CycleNotSettled, CyclePersists, CycleStops
    <2> QED BY <2>1, <2>2, <2>3, <2>4
  <1> QED BY <1>1, FailoverInvariant, PTL DEF Spec, RecoveryEarned

-----------------------------------------------------------------------------
(* What is announced has lasted *)

\* The transition on file is the one into the mode on file.
Latest(c) == \A x, y \in c.trans : x = y /\ x.to = c.mode

\* Every alert that was told, or is about to be, was due while the control that
\* it was read from could be used.
Due == \A a \in told \union cycle.alert : a.id + Holds(a) <= control.at + ControlMaxAge

AnnounceInv == TypeOK /\ Latest(control) /\ Due

\* Evaluating leaves the latest transition on file.
LEMMA LatestAdvances ==
    ASSUME NEW c \in Control, Latest(c), NEW schwab \in BOOLEAN, NEW ibkr \in BOOLEAN,
           NEW at \in Time
    PROVE  LET n == AdvanceFailover(c, schwab, ibkr, at) IN
           /\ n.at = at
           /\ Latest(n)
  <1> DEFINE s == [su |-> Streak(~schwab, c.su, SchwabUnhealthy),
                   sr |-> Streak(schwab, c.sr, SchwabRecovery),
                   iu |-> Streak(c.mode # Primary /\ ~ibkr, c.iu, IbkrUnhealthy),
                   ir |-> Streak(ibkr, c.ir, IbkrRecovery)]
             mode == NextMode(c.mode, schwab, ibkr, s)
             n == AdvanceFailover(c, schwab, ibkr, at)
  <1>1. /\ n.mode = mode /\ n.at = at
        /\ n.trans = IF mode # c.mode THEN {[at |-> at, from |-> c.mode, to |-> mode]} ELSE c.trans
    BY DEF AdvanceFailover, Control
  <1> HIDE DEF mode, n
  <1>2. CASE mode # c.mode
    <2>1. \A x \in n.trans : x = [at |-> at, from |-> c.mode, to |-> mode]
      BY <1>1, <1>2
    <2>2. \A x, y \in n.trans : x = y /\ x.to = mode
      BY <2>1
    <2> QED BY <1>1, <2>2 DEF Latest, n
  <1>3. CASE mode = c.mode
    BY <1>1, <1>3 DEF Latest, n
  <1> QED BY <1>2, <1>3

LEMMA EvaluateLatest ==
    ASSUME TypeOK, Latest(control), NEW at \in Time, NEW schwab \in BOOLEAN, NEW ibkr \in BOOLEAN,
           EvaluateAndPersist(at, schwab, ibkr)
    PROVE  Latest(control)' /\ control'.at = at
  <1> DEFINE context == ContextAt[at]
             l == LoadFailoverState
             c == Rederived(l, context, ibkr)
             n == AdvanceFailover(c, schwab, ibkr, at)
  <1>1. context \in Context /\ control \in Control
    BY FailoverAssumption DEF TypeOK
  <1>2. CASE context = "closed"
    <2>1. control' = [InitialState EXCEPT !.file = "readable", !.context = "closed", !.at = at]
      BY <1>2 DEF EvaluateAndPersist
    <2>2. control'.trans = {} /\ control'.at = at
      BY <2>1 DEF InitialState
    <2> QED BY <2>2 DEF Latest
  <1>3. CASE context # "closed"
    <2>1. control' = [n EXCEPT !.file = "readable", !.context = context]
      BY <1>3 DEF EvaluateAndPersist
    <2>2. l \in Control
      BY <1>1, LoadType
    <2>3. l = control \/ l.trans = {}
      BY <1>1 DEF LoadFailoverState, InitialState, Control, Condition
    <2> HIDE DEF l
    <2>4. c \in Control
      BY <1>1, <2>2, RederivedType
    <2>5. c = l \/ c.trans = {}
      BY <2>2 DEF Rederived, Control
    <2> HIDE DEF c
    <2>6. Latest(c)
      BY <2>3, <2>5 DEF Latest
    <2>7. n \in Control /\ n.at = at /\ Latest(n)
      BY <2>4, <2>6, AdvanceType, LatestAdvances
    <2> HIDE DEF n
    <2>8. control'.trans = n.trans /\ control'.mode = n.mode /\ control'.at = n.at
      BY <2>1, <2>7 DEF Control
    <2> QED BY <2>7, <2>8 DEF Latest
  <1> QED BY <1>2, <1>3

\* The debounce (provider_failover_incident_evaluation): an alert that is due at
\* time t has waited for its delay, and the control was fresh at t.
LEMMA AlertIsDue ==
    ASSUME TypeOK, Latest(control), NEW t \in 0 .. MaxTime, NEW a \in Evaluation(t).alert
    PROVE  a.id + Holds(a) <= control.at + ControlMaxAge
  <1>1. control \in Control /\ control.mode \in Mode /\ control.at \in 0 .. MaxTime
        /\ control.trans \subseteq Transition
    BY DEF TypeOK, Control
  <1>2. Usable(t) /\ ~Silent
    BY DEF Evaluation
  <1>3. t <= control.at + ControlMaxAge
    BY <1>1, <1>2, FailoverAssumption DEF Usable
  <1>4. PICK old : old = Recent(t)
    OBVIOUS
  <1>5. old \subseteq control.trans
    BY <1>4 DEF Recent
  <1>6. ASSUME NEW id, a \in EventAlert(old), id = IdOf(old, incident.candidate)
                                              \/ id = IdOf(old, incident.recovery)
                                              \/ id = IdOf(old, 0)
        PROVE  id = a.id /\ a.id \in Nat /\ a.mode = control.mode /\ a.mode # Pending
    <2>1. PICK x \in old : a = [mode |-> x.to, id |-> x.at] /\ x.to # Pending
      BY <1>6 DEF EventAlert
    <2>2. (CHOOSE y \in old : TRUE) = x
      BY <1>5, <2>1 DEF Latest
    <2>3. id = x.at
      BY <1>6, <2>1, <2>2 DEF IdOf
    <2>4. x.to = control.mode /\ x.at \in Nat
      BY <1>1, <1>5, <2>1 DEF Latest, Transition, Time
    <2> QED BY <2>1, <2>3, <2>4
  <1>7. CASE control.mode \in {Fallback, Both}
    <2>1. a \in Outage(t).alert
      BY <1>2, <1>7 DEF Evaluation
    <2>2. PICK id : id = OutageId(old)
      OBVIOUS
    <2>3. a \in EventAlert(old) /\ t - id >= IncidentNotify
      BY <1>4, <2>1, <2>2 DEF Outage
    <2>4. id = a.id /\ a.id \in Nat /\ a.mode = control.mode
      BY <1>6, <2>2, <2>3 DEF OutageId
    <2>5. Holds(a) = IncidentNotify
      BY <1>7, <2>4 DEF Holds, Primary, Fallback, Both
    <2> QED BY <1>1, <1>3, <2>3, <2>4, <2>5, FailoverAssumption
  <1>8. CASE control.mode \notin {Fallback, Both}
    <2>1. a \in Recovery(t).alert
      BY <1>2, <1>8 DEF Evaluation
    <2>2. PICK id : id = IF incident.alerted = 0 THEN 0 ELSE IdOf(old, incident.recovery)
      OBVIOUS
    <2>3. a \in EventAlert(old) /\ id # 0 /\ t - id >= RecoveryNotify
      BY <1>4, <2>1, <2>2 DEF Recovery
    <2>4. id = a.id /\ a.id \in Nat /\ a.mode = control.mode /\ a.mode # Pending
      BY <1>6, <2>2, <2>3
    <2>5. Holds(a) = RecoveryNotify
      BY <1>1, <1>8, <2>4 DEF Holds, Mode
    <2> QED BY <1>1, <1>3, <2>3, <2>4, <2>5, FailoverAssumption
  <1> QED BY <1>7, <1>8

\* Every alert is typed, and so is its delay.
LEMMA DueTypes ==
    ASSUME TypeOK, NEW a \in told \union cycle.alert
    PROVE  /\ a.id \in Nat /\ Holds(a) \in Nat /\ a.id + Holds(a) \in Nat
           /\ control.at \in Nat
  <1>1. a \in Alert /\ control.at \in Nat
    BY FailoverAssumption DEF TypeOK, Cycle, Control
  <1>2. a.id \in Nat /\ Holds(a) \in Nat
    BY <1>1, FailoverAssumption DEF Alert, Holds, Time
  <1> QED BY <1>1, <1>2

\* What an evaluation leaves behind is dated later than what it found.
LEMMA AnnounceStep ==
    ASSUME AnnounceInv, TypeOK', [Next]_vars
    PROVE  AnnounceInv'
  <1>1. TypeOK /\ Latest(control) /\ Due
    BY DEF AnnounceInv
  <1>2. CASE \E at \in 1 .. now, schwab, ibkr \in BOOLEAN : EvaluateAndPersist(at, schwab, ibkr)
    <2>1. PICK at \in 1 .. now, schwab \in BOOLEAN, ibkr \in BOOLEAN :
                  EvaluateAndPersist(at, schwab, ibkr)
      BY <1>2
    <2>2. at \in Time
      BY <1>1, FailoverAssumption DEF TypeOK, Time
    <2>3. Latest(control)' /\ control'.at = at
      BY <1>1, <2>1, <2>2, EvaluateLatest
    <2>4. control.at < at /\ UNCHANGED <<told, cycle>>
      BY <2>1 DEF EvaluateAndPersist
    <2>5. Due'
      <3> SUFFICES ASSUME NEW a \in told \union cycle.alert
                   PROVE  a.id + Holds(a) <= control'.at + ControlMaxAge
        BY <2>4 DEF Due, Holds
      <3>1. a.id + Holds(a) <= control.at + ControlMaxAge
        BY <1>1 DEF Due
      <3>2. a.id + Holds(a) \in Nat /\ control.at \in Nat /\ ControlMaxAge \in Nat /\ at \in Nat
        BY <1>1, <2>2, DueTypes, FailoverAssumption DEF Time
      <3> QED BY <2>3, <2>4, <3>1, <3>2
    <2> QED BY <2>3, <2>5 DEF AnnounceInv
  <1>3. CASE \E condition \in {"invalid", "corrupt", "missing"} : ControlLost(condition)
    <2>1. /\ control'.at = control.at /\ control'.trans = control.trans
          /\ control'.mode = control.mode /\ UNCHANGED <<told, cycle>>
      BY <1>1, <1>3 DEF ControlLost, TypeOK, Control
    <2> QED BY <1>1, <2>1 DEF AnnounceInv, Latest, Due, Holds
  <1>4. ASSUME UNCHANGED control, told' \union cycle'.alert \subseteq told \union cycle.alert
        PROVE  AnnounceInv'
    BY <1>1, <1>4 DEF AnnounceInv, Latest, Due, Holds
  <1>5. ASSUME UNCHANGED control, NEW t \in 0 .. MaxTime,
               told' \union cycle'.alert \subseteq told \union cycle.alert \union Evaluation(t).alert
        PROVE  AnnounceInv'
    <2>1. \A a \in Evaluation(t).alert : a.id + Holds(a) <= control.at + ControlMaxAge
      BY <1>1, AlertIsDue
    <2> QED BY <1>1, <1>5, <2>1 DEF AnnounceInv, Latest, Due, Holds
  <1>6. CASE TickEvaluates
    BY <1>1, <1>5, <1>6 DEF TickEvaluates, TypeOK, Engine
  <1>7. CASE CycleEvaluates
    <2>1. now \in 0 .. MaxTime /\ cycle'.alert = Evaluation(now).alert
      BY <1>1, <1>7, FailoverAssumption DEF CycleEvaluates, TypeOK, Time
    <2> QED BY <1>5, <1>7, <2>1 DEF CycleEvaluates
  <1>8. Resting.alert = {} /\ cycle \in Cycle
    BY <1>1 DEF Resting, TypeOK
  <1>9. CASE CycleNotifies
    BY <1>4, <1>8, <1>9 DEF CycleNotifies, Cycle
  <1>10. CASE CycleNotSettled
    BY <1>4, <1>8, <1>10 DEF CycleNotSettled, Cycle
  <1>11. CASE CyclePersists
    BY <1>4, <1>8, <1>11 DEF CyclePersists
  <1>12. CASE CycleStops
    BY <1>4, <1>8, <1>12 DEF CycleStops
  <1>13. CASE Tick \/ TickStarts \/ TickFails \/ UNCHANGED vars
    BY <1>4, <1>13 DEF Tick, TickStarts, TickFails, vars
  <1> QED BY <1>2, <1>3, <1>6, <1>7, <1>9, <1>10, <1>11, <1>12, <1>13 DEF Next

\* A mode that the operator was told of, or is about to be, is not left before its
\* notification delay, less the age that a control may have when it is read, for any
\* delays and whatever the realtime engine and the alert engine interleave
\* (provider_failover_incident_evaluation, evaluate_and_persist).
THEOREM AnnouncedAlwaysLasted == Spec => AnnouncedLasted
  <1>1. Init => AnnounceInv
    <2> SUFFICES ASSUME Init, TypeOK PROVE AnnounceInv
      <3>1. Init => TypeOK
        BY InitTypes
      <3> QED BY <3>1
    <2> QED BY DEF Init, InitialState, Resting, AnnounceInv, Latest, Due
  <1>2. AnnounceInv /\ TypeOK' /\ [Next]_vars => AnnounceInv'
    BY AnnounceStep
  <1>3. AnnounceInv /\ [Next]_vars => [Lasted]_vars
    <2> SUFFICES ASSUME AnnounceInv, Next,
                        control'.mode # control.mode \/ control'.context # control.context,
                        NEW a \in told \union cycle.alert
                 PROVE  control'.at > a.id + Holds(a) - ControlMaxAge
      BY DEF Lasted
    <2>1. TypeOK /\ Latest(control) /\ a.id + Holds(a) <= control.at + ControlMaxAge
      BY DEF AnnounceInv, Due
    <2>2. ~\E condition \in {"invalid", "corrupt", "missing"} : ControlLost(condition)
      BY <2>1 DEF ControlLost, TypeOK, Control
    <2>3. PICK at \in 1 .. now, schwab \in BOOLEAN, ibkr \in BOOLEAN :
                  EvaluateAndPersist(at, schwab, ibkr)
      BY <2>2 DEF Next, Tick, TickStarts, TickEvaluates, TickFails, CycleEvaluates, CycleNotifies,
                  CycleNotSettled, CyclePersists, CycleStops
    <2>4. at \in Time /\ control.at < at
      BY <2>1, <2>3, FailoverAssumption DEF TypeOK, Time, EvaluateAndPersist
    <2>5. control'.at = at
      BY <2>1, <2>3, <2>4, EvaluateLatest
    <2>6. /\ a.id \in Nat /\ Holds(a) \in Nat /\ control.at \in Nat
          /\ ControlMaxAge \in Nat /\ at \in Nat
      BY <2>1, <2>4, DueTypes, FailoverAssumption DEF Time
    <2>7. at > a.id + Holds(a) - ControlMaxAge
      BY <2>1, <2>4, <2>6
    <2> QED BY <2>5, <2>7
  <1> QED BY <1>1, <1>2, <1>3, FailoverTypeCorrect, PTL DEF Spec, AnnouncedLasted
=============================================================================
