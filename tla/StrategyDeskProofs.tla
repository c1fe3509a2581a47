------------------------- MODULE StrategyDeskProofs -------------------------
(***************************************************************************)
(* Types and flood control of StrategyDesk, for any opportunities, terms   *)
(* and quotas.  Admission is decided from decisions and enforced on cards: *)
(* the invariant relates the two (Backed), says that the decision a quota  *)
(* is counted from is never older than its card (Rows, Lasts), and that    *)
(* what admission found stays true until the card is written (Cleared).    *)
(***************************************************************************)
EXTENDS StrategyDesk, TLAPS, FiniteSetTheorems, WellFoundedInduction

-----------------------------------------------------------------------------
(* The inductive invariant *)

\* At most one decision is made at a time, in the mode of its time and under a
\* setup of its opportunity; the cycle's is the last, and is stored before its
\* card is considered.
Rows ==
    /\ \A d \in decisions \union cycle.row :
         /\ d.at <= now /\ d.mode = SessionMode(d.at) /\ d.setup \in SetupsOf[d.opp]
    /\ \A r, s \in decisions : r.at = s.at => r = s
    /\ \A d \in cycle.row : \A r \in decisions : r # d => r.at < d.at
    /\ \A d, e \in cycle.row : d = e
    /\ cycle.pc \in {"admit", "enqueue"} => cycle.row \subseteq decisions

\* Every opportunity that was decided has a last decision.
LastOf(o, rows) == {r \in rows : r.opp = o /\ \A s \in rows : s.opp = o => s.at <= r.at}

Lasts == \A d \in decisions : LastOf(d.opp, decisions) # {}

\* A card is a decision's, the only one of its opportunity.
Backed ==
    /\ \A c \in cards : \E d \in decisions :
         d.opp = c.opp /\ d.setup = c.setup /\ d.mode = c.mode /\ d.at = c.at
    /\ \A c, d \in cards : c.opp = d.opp => c = d

\* What flood control let through is still clear when its card is written.
Cleared == cycle.pc = "enqueue" => \A d \in cycle.row : ~Ready(d.opp) /\ ~Blocked(d)

Finite == IsFiniteSet(decisions) /\ IsFiniteSet(cards)

DeskInv ==
    /\ TypeOK /\ Rows /\ Lasts /\ Backed /\ Cleared /\ Finite
    /\ CardsCapped /\ CooldownKept /\ OppositeWaits

-----------------------------------------------------------------------------
(* Numbers *)

LEMMA HasLeast ==
    ASSUME NEW S \in SUBSET Nat, S # {}
    PROVE  \E m \in S : \A x \in S : m <= x
<1> DEFINE R == OpToRel(<, Nat)
<1>1. IsWellFoundedOn(R, Nat)
  BY NatLessThanWellFounded
<1>2. \A x, y \in Nat : <<x, y>> \in R <=> x < y
  BY DEF OpToRel
<1> HIDE DEF R
<1>3. PICK m \in S : \A y \in S : ~ (<<y, m>> \in R)
  BY <1>1, WFMin
<1>4. \A y \in S : ~(y < m)
  BY <1>2, <1>3
<1> QED BY <1>4

LEMMA HasGreatest ==
    ASSUME NEW S \in SUBSET Nat, S # {}, NEW n \in Nat, \A x \in S : x <= n
    PROVE  \E m \in S : \A x \in S : x <= m
<1> DEFINE T == {n - x : x \in S}
<1>1. T \in SUBSET Nat /\ T # {}
  <2>1. \A x \in S : n - x \in Nat
    OBVIOUS
  <2> QED BY <2>1
<1> HIDE DEF T
<1>2. PICK k \in T : \A y \in T : k <= y
  BY <1>1, HasLeast
<1>3. PICK m \in S : k = n - m
  BY DEF T
<1>4. \A x \in S : n - m <= n - x
  BY <1>2, <1>3 DEF T
<1> QED BY <1>3, <1>4

\* The session changes its mode once.
LEMMA ModeBetween ==
    ASSUME NEW i \in Nat, NEW j \in Nat, NEW k \in Nat, i <= j, j <= k,
           SessionMode(i) = SessionMode(k)
    PROVE  SessionMode(j) = SessionMode(i)
BY DeskAssumption DEF SessionMode

LEMMA ModeType == \A t \in Nat : SessionMode(t) \in Mode
BY DEF SessionMode, Mode

LEMMA DecisionFields ==
    ASSUME TypeOK
    PROVE  /\ now \in Nat
           /\ \A d \in decisions \union cycle.row :
                /\ d.opp \in Opportunity /\ d.setup \in Setup /\ d.mode \in Mode
                /\ d.at \in Nat /\ DirOf[d.opp] \in Direction
           /\ \A c \in cards :
                /\ c.opp \in Opportunity /\ c.setup \in Setup /\ c.mode \in Mode
                /\ c.at \in Nat /\ c.sent \in Nat /\ DirOf[c.opp] \in Direction
<1>1. now \in Nat /\ decisions \subseteq Decision /\ cycle.row \subseteq Decision /\ cards \subseteq Card
  BY DeskAssumption DEF TypeOK, Time, Cycle
<1>2. \A t \in Time : t \in Nat
  BY DeskAssumption DEF Time
<1>3. \A d \in Decision : /\ d.opp \in Opportunity /\ d.setup \in Setup /\ d.mode \in Mode
                          /\ d.at \in Nat
  BY <1>2 DEF Decision
<1>4. \A c \in Card : /\ c.opp \in Opportunity /\ c.setup \in Setup /\ c.mode \in Mode
                      /\ c.at \in Nat /\ c.sent \in Nat
  BY <1>2 DEF Card
<1>5. \A o \in Opportunity : DirOf[o] \in Direction
  BY DeskAssumption
<1> QED BY <1>1, <1>3, <1>4, <1>5

-----------------------------------------------------------------------------
(* What a card and the decisions say of each other *)

\* The decision that stands for an accepted card when another is considered.
LEMMA Standing ==
    ASSUME DeskInv, cycle.pc = "enqueue", NEW d \in cycle.row, NEW c \in cards, c.mode = d.mode
    PROVE  \E r \in SameMode(d) :
             /\ r \in decisions /\ r.opp = c.opp /\ c.at <= r.at /\ r.at < d.at
             /\ r.setup = c.setup \/ Renamed(c)
             /\ Ready(r.opp) /\ r.setup \in SetupsOf[c.opp]
<1>1. d \in decisions /\ c.opp # d.opp
  BY DEF DeskInv, Rows, Cleared, Ready
<1>2. PICK b \in decisions : b.opp = c.opp /\ b.setup = c.setup /\ b.mode = c.mode /\ b.at = c.at
  BY DEF DeskInv, Backed
<1>3. PICK r \in LastOf(c.opp, decisions) : TRUE
  BY <1>2 DEF DeskInv, Lasts
<1>4. /\ r \in decisions /\ r.opp = c.opp /\ r # d /\ b.at <= r.at
      /\ \A s \in decisions : s.opp = r.opp => s.at <= r.at
  BY <1>1, <1>2, <1>3 DEF LastOf
<1>5. r.at < d.at /\ r.at \in Nat /\ b.at \in Nat /\ d.at \in Nat
  BY <1>1, <1>2, <1>4, DecisionFields DEF DeskInv, Rows
<1>6. r.mode = d.mode
  <2>1. r.mode = SessionMode(r.at) /\ b.mode = SessionMode(b.at) /\ d.mode = SessionMode(d.at)
    BY <1>1, <1>2, <1>4 DEF DeskInv, Rows
  <2>2. b.at <= r.at /\ r.at <= d.at
    BY <1>4, <1>5
  <2> QED BY <1>2, <1>5, <2>1, <2>2, ModeBetween
<1>7. Ready(r.opp)
  BY <1>4 DEF Ready
<1>8. r \in SameMode(d)
  BY <1>1, <1>4, <1>6, <1>7 DEF SameMode, Others, Accepted
<1>9. r.setup = c.setup \/ Renamed(c)
  <2>1. CASE r.at = b.at
    BY <1>2, <1>4, <2>1 DEF DeskInv, Rows
  <2>2. CASE r.at # b.at
    <3>1. r.at > c.at
      BY <1>2, <1>4, <1>5, <2>2
    <3> QED BY <1>4, <3>1 DEF Renamed
  <2> QED BY <2>1, <2>2
<1>10. r.setup \in SetupsOf[c.opp]
  BY <1>4 DEF DeskInv, Rows
<1> QED BY <1>2, <1>4, <1>5, <1>7, <1>8, <1>9, <1>10

\* So does the last decision for any other of an accepted opportunity.
LEMMA StandingRow ==
    ASSUME DeskInv, cycle.pc = "enqueue", NEW d \in cycle.row, NEW s \in decisions,
           Ready(s.opp), s.opp # d.opp, s.mode = d.mode
    PROVE  \E r \in SameMode(d) : r.opp = s.opp /\ s.at <= r.at
<1>1. PICK r \in LastOf(s.opp, decisions) : TRUE
  BY DEF DeskInv, Lasts
<1>2. /\ r \in decisions /\ r.opp = s.opp /\ r # d /\ s.at <= r.at /\ d \in decisions
      /\ \A q \in decisions : q.opp = r.opp => q.at <= r.at
  BY <1>1 DEF LastOf, DeskInv, Rows
<1>3. r.at < d.at /\ r.at \in Nat /\ s.at \in Nat /\ d.at \in Nat
  BY <1>2, DecisionFields DEF DeskInv, Rows
<1>4. r.mode = d.mode
  <2>1. r.mode = SessionMode(r.at) /\ s.mode = SessionMode(s.at) /\ d.mode = SessionMode(d.at)
    BY <1>2 DEF DeskInv, Rows
  <2>2. r.at <= d.at
    BY <1>3
  <2> QED BY <1>2, <1>3, <2>1, <2>2, ModeBetween
<1>5. r \in SameMode(d)
  BY <1>2, <1>4 DEF SameMode, Others, Accepted
<1> QED BY <1>2, <1>5

\* The card about to be written would be the latest.
LEMMA CardsEarlier ==
    ASSUME DeskInv, cycle.pc = "enqueue", NEW d \in cycle.row, NEW c \in cards
    PROVE  c.at < d.at
<1>1. c.opp # d.opp
  BY DEF DeskInv, Cleared, Ready
<1>2. PICK b \in decisions : b.opp = c.opp /\ b.at = c.at
  BY DEF DeskInv, Backed
<1> QED BY <1>1, <1>2 DEF DeskInv, Rows

\* A card that is written leaves room for no more than the cap.
LEMMA CapKept ==
    ASSUME DeskInv, cycle.pc = "enqueue", NEW d \in cycle.row,
           ~(d.mode = "rth" /\ d.setup = Condor)
    PROVE  LET S == {c \in cards : /\ c.mode = d.mode /\ DirOf[c.opp] = DirOf[d.opp]
                                   /\ ~(d.mode = "rth" /\ c.setup = Condor)}
           IN  IsFiniteSet(S) /\ Cardinality(S) + 1 <= Cap /\ Cardinality(S) \in Nat
<1> DEFINE S == {c \in cards : /\ c.mode = d.mode /\ DirOf[c.opp] = DirOf[d.opp]
                               /\ ~(d.mode = "rth" /\ c.setup = Condor)}
           T == SameDirection(d)
<1>1. IsFiniteSet(S) /\ Cardinality(S) \in Nat
  <2>1. IsFiniteSet(cards)
    BY DEF DeskInv, Finite
  <2>2. IsFiniteSet(S)
    BY <2>1, FS_Subset
  <2> HIDE DEF S
  <2> QED BY <2>2, FS_CardinalityType
<1>2. IsFiniteSet(T) /\ Cardinality(T) \in Nat
  <2>1. IsFiniteSet(decisions)
    BY DEF DeskInv, Finite
  <2>2. T \subseteq decisions
    BY DEF SameDirection, SameMode, Others, Accepted
  <2>3. IsFiniteSet(T)
    BY <2>1, <2>2, FS_Subset
  <2> HIDE DEF T
  <2> QED BY <2>3, FS_CardinalityType
<1>3. \A c \in S : \E r \in T : r.opp = c.opp
  <2> TAKE c \in S
  <2>1. PICK r \in SameMode(d) : r.opp = c.opp
    BY Standing
  <2> QED BY <2>1 DEF SameDirection
<1> DEFINE f == [c \in S |-> CHOOSE r \in T : r.opp = c.opp]
<1>4. \A c \in S : f[c] \in T /\ f[c].opp = c.opp
  BY <1>3
<1>5. f \in Injection(S, T)
  <2>1. \A b, c \in S : f[b] = f[c] => b = c
    <3>1. \A b, c \in S : b.opp = c.opp => b = c
      BY DEF DeskInv, Backed
    <3> HIDE DEF f, S, T
    <3> QED BY <1>4, <3>1
  <2>2. f \in [S -> T]
    BY <1>4
  <2> HIDE DEF f, S, T
  <2> QED BY <2>1, <2>2 DEF Injection, IsInjective
<1>6. Cardinality(S) <= Cardinality(T)
  <2> HIDE DEF f, S, T
  <2> QED BY <1>2, <1>5, FS_Injection
<1>7. ~(Cardinality(T) >= Cap)
  BY DEF DeskInv, Cleared, Blocked, CapReached
<1>8. Cap \in Nat
  BY DeskAssumption
<1>9. Cardinality(S) + 1 <= Cap
  <2> HIDE DEF S, T
  <2> QED BY <1>1, <1>2, <1>6, <1>7, <1>8
<1> QED BY <1>1, <1>9

\* A GTH condor is written only as the first of its session.
LEMMA CondorKept ==
    ASSUME DeskInv, cycle.pc = "enqueue", NEW d \in cycle.row, d.mode = "gth", d.setup = Condor
    PROVE  ~\E c \in cards : c.mode = "gth" /\ c.setup = Condor
<1> SUFFICES ASSUME NEW c \in cards, c.mode = "gth", c.setup = Condor PROVE FALSE
  OBVIOUS
<1>1. PICK r \in SameMode(d) : /\ r.opp = c.opp /\ r.setup \in SetupsOf[c.opp]
  BY Standing
<1>2. PICK b \in decisions : b.opp = c.opp /\ b.setup = c.setup
  BY DEF DeskInv, Backed
<1>3. Condor \in SetupsOf[c.opp] /\ c.opp \in Opportunity
  BY <1>2, DecisionFields DEF DeskInv, Rows
<1>4. r.setup = Condor
  BY <1>1, <1>3, DeskAssumption
<1> QED BY <1>1, <1>4 DEF DeskInv, Cleared, Blocked, CondorSpent

\* The cooldown of an accepted card is over, or counted from another setup.
LEMMA CooldownOver ==
    ASSUME DeskInv, cycle.pc = "enqueue", NEW d \in cycle.row, NEW c \in cards,
           c.mode = d.mode, c.setup = d.setup, DirOf[c.opp] = DirOf[d.opp]
    PROVE  now > c.at + Cooldown \/ Renamed(c)
<1>1. PICK r \in SameMode(d) : /\ r \in decisions /\ r.opp = c.opp /\ c.at <= r.at
                               /\ r.setup = c.setup \/ Renamed(c)
  BY Standing
<1>2. CASE r.setup = c.setup
  <2>1. r \in SameDirection(d)
    BY <1>1 DEF SameDirection
  <2>2. ~(now <= r.at + Cooldown)
    BY <1>2, <2>1 DEF DeskInv, Cleared, Blocked, CoolingDown
  <2>3. now \in Nat /\ r.at \in Nat /\ c.at \in Nat /\ Cooldown \in Nat
    BY <1>1, DecisionFields, DeskAssumption DEF DeskInv
  <2> QED BY <1>1, <2>2, <2>3
<1> QED BY <1>1, <1>2

\* The lock that the accepted rows of a mode put in force.
LEMMA LockHas ==
    ASSUME NEW accepted, NEW mode, NEW t, NEW rows, rows = {r \in accepted : r.mode = mode},
           NEW latest \in Streak(rows), \A s \in rows : s.at <= latest.at,
           NEW first \in Streak(rows), \A s \in Streak(rows) : first.at <= s.at,
           t < first.at + Stick[mode]
    PROVE  [dir |-> DirOf[latest.opp], opp |-> latest.opp, start |-> first.at]
             \in Lock(accepted, mode, t)
<1> DEFINE A == {r \in Streak(rows) : \A s \in rows : s.at <= r.at}
           B == {r \in Streak(rows) : \A s \in Streak(rows) :
                   r.at <= s.at /\ t < r.at + Stick[mode]}
<1>1. latest \in A /\ first \in B
  OBVIOUS
<1>2. Lock(accepted, mode, t) =
        {[dir |-> DirOf[x.opp], opp |-> x.opp, start |-> y.at] : x \in A, y \in B}
  BY DEF Lock
<1> HIDE DEF A, B
<1>3. [dir |-> DirOf[latest.opp], opp |-> latest.opp, start |-> first.at]
        \in {[dir |-> DirOf[x.opp], opp |-> x.opp, start |-> y.at] : x \in A, y \in B}
  BY <1>1
<1> QED BY <1>2, <1>3

\* The lock of the accepted cards is over, or no longer the card's.
LEMMA LockOver ==
    ASSUME DeskInv, cycle.pc = "enqueue", NEW d \in cycle.row, NEW c \in cards,
           c.mode = d.mode, {DirOf[c.opp], DirOf[d.opp]} = {"UP", "DOWN"},
           d.setup \notin Independent
    PROVE  \/ \E s \in decisions : /\ c.at < s.at /\ s.at < d.at /\ s.opp # d.opp
                                   /\ Ready(s.opp) /\ DirOf[s.opp] # DirOf[c.opp]
           \/ \E r \in decisions :
                /\ r.mode = c.mode /\ r.at <= c.at /\ r.opp # d.opp
                /\ Ready(r.opp) /\ DirOf[r.opp] = DirOf[c.opp]
                /\ now >= r.at + Stick[c.mode]
                /\ \A s \in decisions :
                      /\ s.mode = c.mode /\ r.at < s.at /\ s.at < c.at
                      /\ s.opp # d.opp /\ Ready(s.opp)
                      => DirOf[s.opp] = DirOf[c.opp]
<1> DEFINE m == d.mode
           rows == {r \in Others(d) : r.mode = m}
           streak == Streak(rows)
<1>1. /\ DirOf[c.opp] # DirOf[d.opp] /\ DirOf[c.opp] # "NEUTRAL" /\ DirOf[d.opp] # "NEUTRAL"
  OBVIOUS
<1>2. d.setup # Condor
  BY <1>1, DecisionFields, DeskAssumption DEF DeskInv, Rows
<1>3. ASSUME NEW r \in rows
      PROVE  /\ r \in decisions /\ r.opp # d.opp /\ Ready(r.opp) /\ r.mode = m
             /\ r.at < d.at /\ r.at \in Nat
  <2>1. r \in decisions /\ r.opp # d.opp /\ Ready(r.opp) /\ r.mode = m
    BY DEF Others, Accepted
  <2>2. r.at < d.at /\ r.at \in Nat
    BY <2>1, DecisionFields DEF DeskInv, Rows
  <2> QED BY <2>1, <2>2
<1>4. PICK r0 \in SameMode(d) : r0.opp = c.opp /\ c.at <= r0.at
  BY Standing
<1>5. r0 \in rows
  BY DEF SameMode
<1>6. c.at \in Nat /\ d.at \in Nat /\ now \in Nat /\ Stick[m] \in Nat
  BY DecisionFields, DeskAssumption DEF DeskInv
<1> HIDE DEF rows, m
<1>7. CASE r0 \notin streak
  <2>1. PICK s \in rows : s.at >= r0.at /\ DirOf[s.opp] # DirOf[c.opp]
    BY <1>4, <1>5, <1>7 DEF Streak
  <2>2. s \in decisions /\ r0 \in decisions /\ s # r0 /\ s.at \in Nat /\ r0.at \in Nat
    BY <1>3, <1>4, <1>5, <2>1
  <2>3. s.at # r0.at
    BY <2>2 DEF DeskInv, Rows
  <2>4. c.at < s.at
    BY <1>4, <1>6, <2>1, <2>2, <2>3
  <2> QED BY <1>3, <2>1, <2>2, <2>4
<1>8. CASE r0 \in streak
  <2>1. \E latest \in rows : \A s \in rows : s.at <= latest.at
    <3> DEFINE X == {r.at : r \in rows}
    <3>1. X \in SUBSET Nat /\ X # {} /\ \A x \in X : x <= d.at
      BY <1>3, <1>5, <1>6
    <3>2. PICK k \in X : \A x \in X : x <= k
      <4> HIDE DEF X
      <4> QED BY <1>6, <3>1, HasGreatest
    <3> QED BY <3>2
  <2>2. PICK latest \in rows : \A s \in rows : s.at <= latest.at
    BY <2>1
  <2>3. latest \in streak
    <3>1. \A s \in rows : s.at >= latest.at => s = latest
      <4> TAKE s \in rows
      <4>1. s \in decisions /\ latest \in decisions /\ s.at \in Nat /\ latest.at \in Nat
        BY <1>3
      <4>2. s.at <= latest.at
        BY <2>2
      <4>3. s.at >= latest.at => s.at = latest.at
        BY <4>1, <4>2
      <4> QED BY <4>1, <4>3 DEF DeskInv, Rows
    <3> QED BY <3>1 DEF Streak
  <2>4. \E first \in streak : \A s \in streak : first.at <= s.at
    <3> DEFINE X == {r.at : r \in streak}
    <3>1. X \in SUBSET Nat /\ X # {}
      BY <1>3, <1>8 DEF Streak
    <3>2. PICK k \in X : \A x \in X : k <= x
      <4> HIDE DEF X
      <4> QED BY <3>1, HasLeast
    <3> QED BY <3>2
  <2>5. PICK first \in streak : \A s \in streak : first.at <= s.at
    BY <2>4
  <2>6. /\ first \in rows /\ first.at <= r0.at
        /\ DirOf[latest.opp] = DirOf[c.opp] /\ DirOf[first.opp] = DirOf[c.opp]
    <3>1. first \in rows /\ first.at <= r0.at
      BY <1>8, <2>5 DEF Streak
    <3>2. latest.at >= r0.at
      BY <1>3, <1>5, <2>2
    <3>3. DirOf[latest.opp] = DirOf[r0.opp]
      BY <1>8, <2>2, <3>2 DEF Streak
    <3>4. DirOf[r0.opp] = DirOf[first.opp]
      BY <1>3, <1>5, <2>5, <3>1 DEF Streak
    <3> QED BY <1>4, <3>1, <3>3, <3>4
  <2>7. ~(now < first.at + Stick[m])
    <3> SUFFICES ASSUME now < first.at + Stick[m] PROVE FALSE
      OBVIOUS
    <3> DEFINE l == [dir |-> DirOf[latest.opp], opp |-> latest.opp, start |-> first.at]
    <3>1. l \in Lock(Others(d), m, now)
      <4> HIDE DEF streak
      <4>1. rows = {r \in Others(d) : r.mode = m}
        BY DEF rows
      <4>2. latest \in Streak(rows) /\ first \in Streak(rows)
        BY <2>3, <2>5 DEF streak
      <4>3. \A s \in Streak(rows) : first.at <= s.at
        BY <2>5 DEF streak
      <4> QED BY <2>2, <4>1, <4>2, <4>3, LockHas DEF l
    <3>2. l.dir = DirOf[c.opp]
      BY <2>6
    <3> HIDE DEF l
    <3>3. ~(m = "rth" /\ l.dir = "NEUTRAL") /\ DirOf[d.opp] # l.dir
      BY <1>1, <3>2
    <3>4. LockedOut(d.opp, d.setup, m, Lock(Others(d), m, now))
      BY <1>2, <3>1, <3>3 DEF LockedOut
    <3>5. ~DirectionLocked(d)
      BY DEF DeskInv, Cleared, Blocked
    <3> QED BY <1>2, <3>4, <3>5 DEF DirectionLocked, m
  <2>8. \E r \in decisions :
          /\ r.mode = c.mode /\ r.at <= c.at /\ r.opp # d.opp
          /\ Ready(r.opp) /\ DirOf[r.opp] = DirOf[c.opp]
          /\ now >= r.at + Stick[c.mode]
          /\ \A s \in decisions :
                /\ s.mode = c.mode /\ r.at < s.at /\ s.at < c.at
                /\ s.opp # d.opp /\ Ready(s.opp)
                => DirOf[s.opp] = DirOf[c.opp]
    <3>1. /\ first \in decisions /\ Ready(first.opp) /\ first.mode = m /\ first.at \in Nat
          /\ first.opp # d.opp /\ m = c.mode
      BY <1>3, <2>6 DEF m
    <3>2. CASE first.at <= c.at
      <4>1. now >= first.at + Stick[m]
        BY <1>6, <2>7, <3>1
      <4>2. ASSUME NEW s \in decisions, s.mode = c.mode, first.at < s.at,
                   s.opp # d.opp, Ready(s.opp)
            PROVE  DirOf[s.opp] = DirOf[c.opp]
        <5>1. PICK q \in SameMode(d) : q.opp = s.opp /\ s.at <= q.at
          BY <4>2, StandingRow
        <5>2. q \in rows
          BY DEF SameMode, rows, m
        <5>3. s.at \in Nat /\ q.at \in Nat
          BY <1>3, <5>2, DecisionFields DEF DeskInv
        <5>4. q.at >= first.at
          BY <3>1, <4>2, <5>1, <5>3
        <5>5. DirOf[q.opp] = DirOf[first.opp]
          BY <2>5, <5>2, <5>4 DEF Streak
        <5> QED BY <2>6, <5>1, <5>5
      <4> QED BY <2>6, <3>1, <3>2, <4>1, <4>2
    <3>3. CASE ~(first.at <= c.at)
      <4>1. PICK b \in decisions : b.opp = c.opp /\ b.mode = c.mode /\ b.at = c.at
        BY DEF DeskInv, Backed
      <4>2. now >= b.at + Stick[m] /\ b.at <= c.at
        BY <1>6, <2>7, <3>1, <3>3, <4>1
      <4>3. Ready(b.opp) /\ b.opp # d.opp
        BY <1>1, <4>1 DEF Ready
      <4>4. \A s \in decisions : ~(b.at < s.at /\ s.at < c.at)
        <5> TAKE s \in decisions
        <5>1. s.at \in Nat
          BY DecisionFields DEF DeskInv
        <5> QED BY <1>6, <4>1, <5>1
      <4> QED BY <3>1, <4>1, <4>2, <4>3, <4>4
    <3> QED BY <3>2, <3>3
  <2> QED BY <2>8
<1> QED BY <1>7, <1>8

-----------------------------------------------------------------------------
(* The steps *)

LEMMA TypeStep == TypeOK /\ [Next]_vars => TypeOK'
<1> SUFFICES ASSUME TypeOK, [Next]_vars PROVE TypeOK'
  OBVIOUS
<1>1. Idle \in Cycle
  BY DEF Idle, Cycle
<1>2. MaxTime \in Nat /\ MaxFaults \in Nat
  BY DeskAssumption
<1>3. faults < MaxFaults => faults + 1 \in 0 .. MaxFaults
  BY <1>2 DEF TypeOK
<1>4. CASE Tick
  <2>1. now' \in Time
    BY <1>2, <1>4 DEF TypeOK, Tick, Time
  <2> QED BY <1>4, <2>1 DEF TypeOK, Tick
<1>5. ASSUME NEW o \in Opportunity, NEW s \in SetupsOf[o], Select(o, s) \/ SelectUnread(o, s)
      PROVE  TypeOK'
  <2>1. [opp |-> o, setup |-> s, mode |-> SessionMode(now), at |-> now] \in Decision
    <3>1. s \in Setup
      BY DeskAssumption
    <3>2. now \in Nat
      BY <1>2 DEF TypeOK, Time
    <3> QED BY <3>1, <3>2, ModeType DEF Decision, TypeOK
  <2>2. Chosen(o, s) \in Cycle
    BY <2>1 DEF Chosen, Cycle, Steps
  <2>3. cycle' \in Cycle /\ UNCHANGED <<now, decisions, cards>>
    BY <1>5, <2>2 DEF Select, SelectUnread, Begin
  <2>4. faults' \in 0 .. MaxFaults
    BY <1>3, <1>5 DEF Select, SelectUnread, TypeOK
  <2> QED BY <2>3, <2>4 DEF TypeOK
<1>6. CASE Persist
  <2>1. cycle' \in Cycle
    BY <1>6 DEF Persist, TypeOK, Cycle, Steps
  <2>2. decisions' \subseteq Decision
    BY <1>6 DEF Persist, TypeOK, Cycle
  <2> QED BY <1>6, <2>1, <2>2 DEF Persist, TypeOK
<1>7. CASE PersistFails
  BY <1>1, <1>3, <1>7 DEF PersistFails, NotPersisted, TypeOK
<1>8. CASE Admit
  <2>1. cycle' \in Cycle
    <3>1. [cycle EXCEPT !.pc = "enqueue"] \in Cycle
      BY DEF TypeOK, Cycle, Steps
    <3> QED BY <1>1, <1>8, <3>1 DEF Admit
  <2> QED BY <1>8, <2>1 DEF Admit, TypeOK
<1>9. CASE Enqueue
  <2>1. \A d \in cycle.row : CardOf(d, now) \in Card
    <3>1. \A d \in Decision : \A t \in Time : CardOf(d, t) \in Card
      BY DEF Decision, Card, CardOf
    <3>2. cycle.row \subseteq Decision /\ now \in Time
      BY DEF TypeOK, Cycle
    <3> QED BY <3>1, <3>2
  <2>2. cards' \subseteq Card
    BY <1>9, <2>1 DEF Enqueue, TypeOK
  <2> QED BY <1>1, <1>9, <2>2 DEF Enqueue, TypeOK
<1>10. CASE EnqueueQuiet
  BY <1>1, <1>10 DEF EnqueueQuiet, TypeOK
<1>11. CASE CycleStops
  BY <1>1, <1>3, <1>11 DEF CycleStops, TypeOK
<1>12. CASE UNCHANGED vars
  BY <1>12 DEF vars, TypeOK
<1> QED BY <1>4, <1>5, <1>6, <1>7, <1>8, <1>9, <1>10, <1>11, <1>12 DEF Next

\* What is said of the cards only gains from decisions later than all of them.
LEMMA CardsStay ==
    ASSUME DeskInv, cards' = cards, decisions \subseteq decisions',
           \A s \in decisions' \ decisions : \A c \in cards : ~(s.at < c.at)
    PROVE  CardsCapped' /\ CooldownKept' /\ OppositeWaits'
<1>1. \A r, d : Counted(r, d)' <=> Counted(r, d)
  BY DEF Counted
<1>2. CardsCapped'
  BY DEF DeskInv, CardsCapped
<1>3. \A c : Renamed(c) => Renamed(c)'
  BY DEF Renamed
<1>4. CooldownKept'
  BY <1>3 DEF DeskInv, CooldownKept
<1>5. ASSUME NEW c \in cards, NEW d \in cards, StickPassed(c, d) PROVE StickPassed(c, d)'
  <2>1. PICK r \in decisions :
          /\ r.mode = c.mode /\ r.at <= c.at
          /\ Counted(r, d) /\ DirOf[r.opp] = DirOf[c.opp]
          /\ d.sent >= r.at + Stick[c.mode]
          /\ \A s \in decisions :
                s.mode = c.mode /\ r.at < s.at /\ s.at < c.at /\ Counted(s, d)
                    => DirOf[s.opp] = DirOf[c.opp]
    BY <1>5 DEF StickPassed
  <2>2. \A s \in decisions' :
          s.mode = c.mode /\ r.at < s.at /\ s.at < c.at /\ Counted(s, d)'
              => DirOf[s.opp] = DirOf[c.opp]
    BY <1>1, <2>1
  <2> QED BY <1>1, <2>1, <2>2 DEF StickPassed
<1>6. \A c, d : Superseded(c, d) => Superseded(c, d)'
  BY <1>1 DEF Superseded
<1>7. OppositeWaits'
  BY <1>5, <1>6 DEF DeskInv, OppositeWaits, Opposite
<1> QED BY <1>2, <1>4, <1>7

\* What flood control counts changes only with the decisions and the cards.
LEMMA CountsStay ==
    ASSUME UNCHANGED <<decisions, cards>>
    PROVE  /\ \A o : Ready(o)' <=> Ready(o)
           /\ \A d : Others(d)' = Others(d)
           /\ \A d : SameMode(d)' = SameMode(d)
           /\ \A d : SameDirection(d)' = SameDirection(d)
<1>1. \A o : Ready(o)' <=> Ready(o)
  BY DEF Ready
<1>2. \A d : Others(d)' = Others(d)
  BY <1>1 DEF Others, Accepted
<1>3. \A d : SameMode(d)' = SameMode(d)
  BY <1>2 DEF SameMode
<1>4. \A d : SameDirection(d)' = SameDirection(d)
  BY <1>3 DEF SameDirection
<1> QED BY <1>1, <1>2, <1>3, <1>4

LEMMA OldFacts ==
    ASSUME DeskInv, UNCHANGED <<decisions, cards>>
    PROVE  Lasts' /\ Backed' /\ Finite'
<1>1. Lasts'
  BY DEF DeskInv, Lasts, LastOf
<1>2. Backed'
  BY DEF DeskInv, Backed
<1>3. Finite'
  BY DEF DeskInv, Finite
<1> QED BY <1>1, <1>2, <1>3

\* A lock ends once.
LEMMA LockEnds ==
    ASSUME NEW accepted, NEW mode, NEW t \in Nat, Stick[mode] \in Nat,
           \A r \in accepted : r.at \in Nat
    PROVE  Lock(accepted, mode, t + 1) \subseteq Lock(accepted, mode, t)
<1> DEFINE rows == {r \in accepted : r.mode = mode}
           streak == Streak(rows)
           A == {r \in streak : \A s \in rows : s.at <= r.at}
           B(u) == {r \in streak : \A s \in streak : r.at <= s.at /\ u < r.at + Stick[mode]}
<1>1. ASSUME NEW u
      PROVE  Lock(accepted, mode, u) =
               {[dir |-> DirOf[x.opp], opp |-> x.opp, start |-> y.at] : x \in A, y \in B(u)}
  BY DEF Lock
<1>2. streak \subseteq accepted
  BY DEF Streak
<1> HIDE DEF streak
<1>3. B(t + 1) \subseteq B(t)
  <2> SUFFICES ASSUME NEW r \in B(t + 1), NEW s \in streak
               PROVE  r \in streak /\ r.at <= s.at /\ t < r.at + Stick[mode]
    OBVIOUS
  <2>1. r \in streak /\ r.at <= s.at /\ t + 1 < r.at + Stick[mode]
    OBVIOUS
  <2>2. r.at \in Nat
    BY <1>2, <2>1
  <2> QED BY <2>1, <2>2
<1> HIDE DEF A, B
<1>4. {[dir |-> DirOf[x.opp], opp |-> x.opp, start |-> y.at] : x \in A, y \in B(t + 1)}
        \subseteq {[dir |-> DirOf[x.opp], opp |-> x.opp, start |-> y.at] : x \in A, y \in B(t)}
  BY <1>3
<1> QED BY <1>1, <1>4

LEMMA TickStep == DeskInv /\ Tick => DeskInv'
<1> SUFFICES ASSUME DeskInv, Tick PROVE DeskInv'
  OBVIOUS
<1>1. /\ now' = now + 1 /\ now \in Nat
      /\ UNCHANGED <<decisions, cards, cycle>>
  BY DecisionFields DEF Tick, DeskInv
<1>2. TypeOK'
  BY TypeStep DEF DeskInv, Next
<1>3. Rows'
  <2>1. \A d \in decisions \union cycle.row : d.at <= now + 1
    <3> TAKE d \in decisions \union cycle.row
    <3>1. d.at <= now /\ d.at \in Nat
      BY DecisionFields DEF DeskInv, Rows
    <3> QED BY <1>1, <3>1
  <2> QED BY <1>1, <2>1 DEF DeskInv, Rows
<1>4. Cleared'
  <2> SUFFICES ASSUME cycle.pc = "enqueue", NEW d \in cycle.row
               PROVE  (~Ready(d.opp) /\ ~Blocked(d))'
    BY <1>1 DEF Cleared
  <2>1. ~Ready(d.opp) /\ ~Blocked(d)
    BY DEF DeskInv, Cleared
  <2>2. /\ Ready(d.opp)' <=> Ready(d.opp)
        /\ Others(d)' = Others(d) /\ SameMode(d)' = SameMode(d)
        /\ SameDirection(d)' = SameDirection(d)
    BY <1>1, CountsStay
  <2>3. \A r \in Others(d) : r.at \in Nat
    BY DecisionFields DEF Others, Accepted, DeskInv
  <2>4. ~CondorSpent(d)'
    BY <2>1, <2>2 DEF Blocked, CondorSpent
  <2>5. ~DirectionLocked(d)'
    <3>1. Stick[d.mode] \in Nat
      BY DecisionFields, DeskAssumption DEF DeskInv
    <3>2. Lock(Others(d), d.mode, now + 1) \subseteq Lock(Others(d), d.mode, now)
      BY <1>1, <2>3, <3>1, LockEnds
    <3>3. LockedOut(d.opp, d.setup, d.mode, Lock(Others(d), d.mode, now + 1))
            => LockedOut(d.opp, d.setup, d.mode, Lock(Others(d), d.mode, now))
      BY <3>2 DEF LockedOut
    <3>4. DirectionLocked(d)' =
            (d.setup # Condor /\ LockedOut(d.opp, d.setup, d.mode, Lock(Others(d), d.mode, now + 1)))
      BY <1>1, <2>2 DEF DirectionLocked, LockedOut, Lock
    <3> QED BY <2>1, <3>3, <3>4 DEF Blocked, DirectionLocked
  <2>6. ~CoolingDown(d)'
    <3>1. \A r \in SameDirection(d) : r.at \in Nat
      BY <2>3 DEF SameDirection, SameMode
    <3>2. Cooldown \in Nat
      BY DeskAssumption
    <3>3. \A r \in SameDirection(d) : now + 1 <= r.at + Cooldown => now <= r.at + Cooldown
      BY <1>1, <3>1, <3>2
    <3> QED BY <1>1, <2>1, <2>2, <3>3 DEF Blocked, CoolingDown
  <2>7. ~CapReached(d)'
    BY <2>1, <2>2 DEF Blocked, CapReached
  <2> QED BY <2>1, <2>2, <2>4, <2>5, <2>6, <2>7 DEF Blocked
<1> QED BY <1>1, <1>2, <1>3, <1>4, OldFacts, CardsStay DEF DeskInv

\* A cycle that ends without a card leaves what is stored as it was.
LEMMA EndStep ==
    ASSUME DeskInv, TypeOK', UNCHANGED <<now, decisions, cards>>, cycle' = Idle
    PROVE  DeskInv'
<1>1. cycle'.row = {} /\ cycle'.pc = "idle"
  BY DEF Idle
<1>2. Rows'
  BY <1>1 DEF DeskInv, Rows
<1>3. Cleared'
  BY <1>1 DEF Cleared
<1> QED BY <1>2, <1>3, OldFacts, CardsStay DEF DeskInv

LEMMA ChooseStep ==
    ASSUME DeskInv, TypeOK', NEW o \in Opportunity, NEW s \in SetupsOf[o],
           Select(o, s) \/ SelectUnread(o, s)
    PROVE  DeskInv'
<1>1. /\ UNCHANGED <<now, decisions, cards>> /\ \A d \in decisions : d.at < now
      /\ cycle' = Chosen(o, s)
  BY DEF Select, SelectUnread, Begin
<1> DEFINE e == [opp |-> o, setup |-> s, mode |-> SessionMode(now), at |-> now]
<1>2. cycle'.row = {e} /\ cycle'.pc = "persist"
  BY <1>1 DEF Chosen
<1>3. e.at = now /\ e.mode = SessionMode(e.at) /\ e.setup \in SetupsOf[e.opp]
  OBVIOUS
<1>4. now \in Nat
  BY DecisionFields DEF DeskInv
<1> HIDE DEF e
<1>5. Rows'
  <2>1. \A d \in decisions \union {e} :
          d.at <= now /\ d.mode = SessionMode(d.at) /\ d.setup \in SetupsOf[d.opp]
    BY <1>3, <1>4 DEF DeskInv, Rows
  <2>2. \A r \in decisions : r.at < e.at
    BY <1>1, <1>3
  <2>3. \A r, q \in decisions : r.at = q.at => r = q
    BY DEF DeskInv, Rows
  <2> QED BY <1>1, <1>2, <2>1, <2>2, <2>3 DEF Rows, SessionMode
<1>6. Cleared'
  BY <1>2 DEF Cleared
<1> QED BY <1>1, <1>5, <1>6, OldFacts, CardsStay DEF DeskInv

\* The cycle's decision becomes the last of its opportunity.
LEMMA PersistStep == DeskInv /\ Persist => DeskInv'
<1> SUFFICES ASSUME DeskInv, Persist PROVE DeskInv'
  OBVIOUS
<1>1. TypeOK'
  BY TypeStep DEF DeskInv, Next
<1>2. /\ decisions' = decisions \union cycle.row /\ UNCHANGED <<now, cards>>
      /\ cycle'.row = cycle.row /\ cycle'.pc = "admit"
  BY DEF Persist, DeskInv, TypeOK, Cycle
<1>3. /\ \A d, e \in cycle.row : d = e
      /\ \A d \in cycle.row : \A r \in decisions : r # d => r.at < d.at
      /\ \A d \in decisions \union cycle.row : d.at \in Nat
  BY DecisionFields DEF DeskInv, Rows
<1>4. Rows'
  <2>1. \A r, s \in decisions \union cycle.row : r.at = s.at => r = s
    <3> TAKE r, s \in decisions \union cycle.row
    <3>1. CASE r \in decisions /\ s \in decisions
      BY <3>1 DEF DeskInv, Rows
    <3>2. CASE r \in cycle.row /\ s \in cycle.row
      BY <1>3, <3>2
    <3>3. CASE r \in cycle.row /\ s \in decisions
      BY <1>3, <3>3
    <3>4. CASE r \in decisions /\ s \in cycle.row
      BY <1>3, <3>4
    <3> QED BY <3>1, <3>2, <3>3, <3>4
  <2>2. \A d \in cycle.row : \A r \in decisions \union cycle.row : r # d => r.at < d.at
    BY <1>3
  <2>3. \A d \in decisions \union cycle.row :
          d.at <= now /\ d.mode = SessionMode(d.at) /\ d.setup \in SetupsOf[d.opp]
    BY DEF DeskInv, Rows
  <2> QED BY <1>2, <1>3, <2>1, <2>2, <2>3 DEF Rows, SessionMode
<1>5. Lasts'
  <2> SUFFICES ASSUME NEW d \in decisions \union cycle.row
               PROVE  \E r \in decisions \union cycle.row :
                        /\ r.opp = d.opp
                        /\ \A s \in decisions \union cycle.row : s.opp = d.opp => s.at <= r.at
    BY <1>2 DEF Lasts, LastOf
  <2>1. CASE \E e \in cycle.row : e.opp = d.opp
    <3>1. PICK e \in cycle.row : e.opp = d.opp
      BY <2>1
    <3>2. \A s \in decisions \union cycle.row : s.at <= e.at
      <4> TAKE s \in decisions \union cycle.row
      <4>1. CASE s = e
        BY <1>3, <4>1
      <4>2. CASE s # e
        <5>1. s \in decisions /\ s.at < e.at
          BY <1>3, <4>2
        <5> QED BY <1>3, <5>1
      <4> QED BY <4>1, <4>2
    <3> QED BY <3>1, <3>2
  <2>2. CASE ~\E e \in cycle.row : e.opp = d.opp
    <3>1. PICK r \in LastOf(d.opp, decisions) : TRUE
      BY <2>2 DEF DeskInv, Lasts
    <3> QED BY <2>2, <3>1 DEF LastOf
  <2> QED BY <2>1, <2>2
<1>6. Backed'
  BY <1>2 DEF DeskInv, Backed
<1>7. Cleared'
  BY <1>2 DEF Cleared
<1>8. Finite'
  <2>1. IsFiniteSet(decisions \union cycle.row)
    <3>1. CASE cycle.row = {}
      BY <3>1 DEF DeskInv, Finite
    <3>2. CASE cycle.row # {}
      <4>1. PICK d \in cycle.row : cycle.row = {d}
        BY <1>3, <3>2
      <4>2. IsFiniteSet(decisions \union {d})
        BY FS_AddElement DEF DeskInv, Finite
      <4> QED BY <4>1, <4>2
    <3> QED BY <3>1, <3>2
  <2> QED BY <1>2, <2>1 DEF DeskInv, Finite
<1>9. CardsCapped' /\ CooldownKept' /\ OppositeWaits'
  <2>1. ASSUME NEW s \in cycle.row, s \notin decisions, NEW c \in cards
        PROVE  ~(s.at < c.at)
    <3>1. PICK b \in decisions : b.at = c.at
      BY DEF DeskInv, Backed
    <3>2. b.at < s.at /\ b.at \in Nat /\ s.at \in Nat
      BY <1>3, <2>1
    <3> QED BY <3>1, <3>2
  <2> QED BY <1>2, <2>1, CardsStay
<1> QED BY <1>1, <1>4, <1>5, <1>6, <1>7, <1>8, <1>9 DEF DeskInv

LEMMA AdmitStep == DeskInv /\ Admit => DeskInv'
<1> SUFFICES ASSUME DeskInv, Admit PROVE DeskInv'
  OBVIOUS
<1>1. TypeOK'
  BY TypeStep DEF DeskInv, Next
<1>2. UNCHANGED <<now, decisions, cards>>
  BY DEF Admit
<1>3. CASE ~\E d \in cycle.row : Current(d) /\ ~Ready(d.opp) /\ ~Blocked(d)
  <2>1. cycle' = Idle
    BY <1>3 DEF Admit
  <2> QED BY <1>1, <1>2, <2>1, EndStep
<1>4. CASE \E d \in cycle.row : Current(d) /\ ~Ready(d.opp) /\ ~Blocked(d)
  <2>1. cycle'.row = cycle.row /\ cycle.pc = "admit"
    BY <1>4 DEF Admit, DeskInv, TypeOK, Cycle
  <2>2. PICK d \in cycle.row : ~Ready(d.opp) /\ ~Blocked(d)
    BY <1>4
  <2>3. cycle.row = {d} /\ cycle.row \subseteq decisions
    BY <2>1 DEF DeskInv, Rows
  <2>4. Rows'
    BY <1>2, <2>1, <2>3 DEF DeskInv, Rows, SessionMode
  <2>5. /\ Ready(d.opp)' <=> Ready(d.opp)
        /\ Others(d)' = Others(d) /\ SameMode(d)' = SameMode(d)
        /\ SameDirection(d)' = SameDirection(d)
    BY <1>2, CountsStay
  <2>6. Blocked(d)' <=> Blocked(d)
    BY <1>2, <2>5 DEF Blocked, CondorSpent, DirectionLocked, CoolingDown, CapReached
  <2>7. Cleared'
    BY <2>1, <2>2, <2>3, <2>5, <2>6 DEF Cleared
  <2> QED BY <1>1, <1>2, <2>4, <2>7, OldFacts, CardsStay DEF DeskInv
<1> QED BY <1>3, <1>4

\* The card of decision d enters the outbox.
LEMMA CardStep ==
    ASSUME DeskInv, TypeOK', Enqueue, NEW d \in cycle.row, Current(d)
    PROVE  DeskInv'
<1> DEFINE k == CardOf(d, now)
<1>1. /\ UNCHANGED <<now, decisions>> /\ cycle.pc = "enqueue"
      /\ cycle'.pc = "idle" /\ cycle'.row = {}
  BY DEF Enqueue, Idle
<1>2. cards' = cards \union {k}
  <2>1. cycle.row = {d}
    BY DEF DeskInv, Rows
  <2> QED BY <2>1 DEF Enqueue
<1>3. k.opp = d.opp /\ k.setup = d.setup /\ k.mode = d.mode /\ k.at = d.at /\ k.sent = now
  BY DEF CardOf
<1>4. /\ d \in decisions /\ d.mode \in Mode /\ d.at \in Nat /\ now \in Nat
      /\ \A c \in cards : c.at < k.at /\ c.at \in Nat /\ c.opp # k.opp
  BY <1>1, <1>3, CardsEarlier, DecisionFields DEF DeskInv, Rows, Cleared, Ready
<1> HIDE DEF k
<1>5. Rows'
  BY <1>1 DEF DeskInv, Rows, SessionMode
<1>6. Lasts'
  BY <1>1 DEF DeskInv, Lasts, LastOf
<1>7. Backed'
  <2>1. \A c \in cards \union {k} : \E e \in decisions :
          e.opp = c.opp /\ e.setup = c.setup /\ e.mode = c.mode /\ e.at = c.at
    BY <1>3, <1>4 DEF DeskInv, Backed
  <2>2. \A c, e \in cards \union {k} : c.opp = e.opp => c = e
    BY <1>4 DEF DeskInv, Backed
  <2> QED BY <1>1, <1>2, <2>1, <2>2 DEF Backed
<1>8. Cleared'
  BY <1>1 DEF Cleared
<1>9. Finite'
  BY <1>1, <1>2, FS_AddElement DEF DeskInv, Finite
<1>10. CardsCapped'
  <2>1. ASSUME NEW m \in Mode, NEW dir \in Direction
        PROVE  Cardinality({c \in cards' : /\ c.mode = m /\ DirOf[c.opp] = dir
                                           /\ ~(m = "rth" /\ c.setup = Condor)}) <= Cap
    <3> DEFINE S == {c \in cards : /\ c.mode = m /\ DirOf[c.opp] = dir
                                   /\ ~(m = "rth" /\ c.setup = Condor)}
               T == {c \in cards' : /\ c.mode = m /\ DirOf[c.opp] = dir
                                    /\ ~(m = "rth" /\ c.setup = Condor)}
    <3>1. CASE k.mode = m /\ DirOf[k.opp] = dir /\ ~(m = "rth" /\ k.setup = Condor)
      <4>1. T = S \union {k}
        BY <1>2, <3>1
      <4>2. IsFiniteSet(S) /\ Cardinality(S) + 1 <= Cap /\ Cardinality(S) \in Nat
        BY <1>1, <1>3, <3>1, CapKept
      <4>3. k \notin S
        BY <1>4
      <4> HIDE DEF S, T
      <4>4. Cardinality(T) = Cardinality(S) + 1
        BY <4>1, <4>2, <4>3, FS_AddElement
      <4> QED BY <4>2, <4>4 DEF T
    <3>2. CASE ~(k.mode = m /\ DirOf[k.opp] = dir /\ ~(m = "rth" /\ k.setup = Condor))
      <4>1. T = S
        BY <1>2, <3>2
      <4>2. Cardinality(S) <= Cap
        BY DEF DeskInv, CardsCapped
      <4> HIDE DEF S
      <4> QED BY <4>1, <4>2
    <3> QED BY <3>1, <3>2
  <2>2. Cardinality({c \in cards' : c.mode = "gth" /\ c.setup = Condor}) <= 1
    <3> DEFINE S == {c \in cards : c.mode = "gth" /\ c.setup = Condor}
               T == {c \in cards' : c.mode = "gth" /\ c.setup = Condor}
    <3>1. CASE k.mode = "gth" /\ k.setup = Condor
      <4>1. S = {}
        BY <1>1, <1>3, <3>1, CondorKept
      <4>2. T = {k}
        BY <1>2, <3>1, <4>1
      <4> HIDE DEF S, T
      <4>3. Cardinality(T) = 1
        BY <4>2, FS_Singleton
      <4> QED BY <4>3 DEF T
    <3>2. CASE ~(k.mode = "gth" /\ k.setup = Condor)
      <4>1. T = S
        BY <1>2, <3>2
      <4>2. Cardinality(S) <= 1
        BY DEF DeskInv, CardsCapped, Mode
      <4> HIDE DEF S
      <4> QED BY <4>1, <4>2
    <3> QED BY <3>1, <3>2
  <2> QED BY <2>1, <2>2 DEF CardsCapped
<1>11. CooldownKept'
  <2>1. \A c : Renamed(c) => Renamed(c)'
    BY <1>1 DEF Renamed
  <2> SUFFICES ASSUME NEW c \in cards', NEW e \in cards', c.at < e.at, c.mode = e.mode,
                      c.setup = e.setup, DirOf[c.opp] = DirOf[e.opp]
               PROVE  e.sent > c.at + Cooldown \/ Renamed(c)
    BY <2>1 DEF CooldownKept
  <2>2. CASE c = k
    BY <1>2, <1>3, <1>4, <2>2
  <2>3. CASE c \in cards /\ e \in cards
    BY <2>3 DEF DeskInv, CooldownKept
  <2>4. CASE c \in cards /\ e = k
    BY <1>1, <1>3, <2>4, CooldownOver
  <2> QED BY <1>2, <2>2, <2>3, <2>4
<1>12. OppositeWaits'
  <2>1. \A e \in cards : \A r : Counted(r, e)' <=> Counted(r, e)
    <3> SUFFICES ASSUME NEW e \in cards, NEW r PROVE Counted(r, e)' <=> Counted(r, e)
      OBVIOUS
    <3>1. e.at < k.at /\ e.at \in Nat /\ k.at \in Nat
      BY <1>3, <1>4
    <3>2. ~(k.at < e.at)
      BY <3>1
    <3> QED BY <1>2, <3>2 DEF Counted
  <2>2. ASSUME NEW e, e = k PROVE \A r : Counted(r, e)' <=> r.opp # d.opp /\ Ready(r.opp)
    <3>1. ~(k.at < k.at)
      BY <1>3, <1>4
    <3> QED BY <1>2, <1>3, <1>4, <2>2, <3>1 DEF Counted, Ready
  <2> SUFFICES ASSUME NEW c \in cards', NEW e \in cards', Opposite(c, e)
               PROVE  StickPassed(c, e)' \/ Superseded(c, e)'
    BY DEF OppositeWaits, Opposite
  <2>4. CASE c = k
    BY <1>2, <1>3, <1>4, <2>4 DEF Opposite
  <2>5. CASE c \in cards /\ e \in cards
    <3>1. \A r : Counted(r, e)' <=> Counted(r, e)
      BY <2>1, <2>5
    <3>2. StickPassed(c, e) => StickPassed(c, e)'
      BY <1>1, <3>1 DEF StickPassed
    <3>3. Superseded(c, e) => Superseded(c, e)'
      BY <1>1, <3>1 DEF Superseded
    <3> QED BY <2>5, <3>2, <3>3 DEF DeskInv, OppositeWaits
  <2>6. CASE c \in cards /\ e = k
    <3>1. /\ c.mode = d.mode /\ {DirOf[c.opp], DirOf[d.opp]} = {"UP", "DOWN"}
          /\ d.setup \notin Independent
          /\ \A r : Counted(r, e)' <=> r.opp # d.opp /\ Ready(r.opp)
      BY <1>3, <2>2, <2>6 DEF Opposite
    <3>2. CASE \E r \in decisions :
                 /\ r.mode = c.mode /\ r.at <= c.at /\ r.opp # d.opp
                 /\ Ready(r.opp) /\ DirOf[r.opp] = DirOf[c.opp]
                 /\ now >= r.at + Stick[c.mode]
                 /\ \A s \in decisions :
                       /\ s.mode = c.mode /\ r.at < s.at /\ s.at < c.at
                       /\ s.opp # d.opp /\ Ready(s.opp)
                       => DirOf[s.opp] = DirOf[c.opp]
      BY <1>1, <1>3, <2>6, <3>1, <3>2 DEF StickPassed
    <3>3. CASE \E s \in decisions : /\ c.at < s.at /\ s.at < d.at /\ s.opp # d.opp
                                    /\ Ready(s.opp) /\ DirOf[s.opp] # DirOf[c.opp]
      BY <1>1, <1>3, <2>6, <3>1, <3>3 DEF Superseded
    <3> QED BY <1>1, <2>6, <3>1, <3>2, <3>3, LockOver
  <2> QED BY <1>2, <2>4, <2>5, <2>6
<1> QED BY <1>5, <1>6, <1>7, <1>8, <1>9, <1>10, <1>11, <1>12 DEF DeskInv

LEMMA EnqueueStep == DeskInv /\ Enqueue => DeskInv'
<1> SUFFICES ASSUME DeskInv, Enqueue PROVE DeskInv'
  OBVIOUS
<1>1. TypeOK'
  BY TypeStep DEF DeskInv, Next
<1>2. CASE \E d \in cycle.row : Current(d)
  BY <1>1, <1>2, CardStep
<1>3. CASE ~\E d \in cycle.row : Current(d)
  <2>1. cards' = cards
    <3>1. {e \in cycle.row : Current(e)} = {}
      BY <1>3
    <3> QED BY <3>1 DEF Enqueue
  <2> QED BY <1>1, <2>1, EndStep DEF Enqueue
<1> QED BY <1>2, <1>3

-----------------------------------------------------------------------------
(* Theorems *)

LEMMA InitDesk == Init => DeskInv
<1> SUFFICES ASSUME Init PROVE DeskInv
  OBVIOUS
<1>1. TypeOK
  BY DeskAssumption DEF Init, TypeOK, Time, Idle, Cycle
<1>2. Rows /\ Lasts /\ Backed /\ Cleared
  BY DEF Init, Idle, Rows, Lasts, Backed, Cleared
<1>3. Finite
  BY FS_EmptySet DEF Init, Finite
<1>4. CooldownKept /\ OppositeWaits
  BY DEF Init, CooldownKept, OppositeWaits
<1>5. CardsCapped
  <2>1. Cardinality({}) = 0 /\ Cap \in Nat
    BY FS_EmptySet, DeskAssumption
  <2> SUFFICES ASSUME NEW m \in Mode
               PROVE  /\ \A dir \in Direction :
                           Cardinality({c \in {} : /\ c.mode = m /\ DirOf[c.opp] = dir
                                                   /\ ~(m = "rth" /\ c.setup = Condor)}) <= Cap
                      /\ Cardinality({c \in {} : c.mode = m /\ c.setup = Condor}) <= 1
    BY DEF Init, CardsCapped
  <2>2. ASSUME NEW dir \in Direction
        PROVE  Cardinality({c \in {} : /\ c.mode = m /\ DirOf[c.opp] = dir
                                       /\ ~(m = "rth" /\ c.setup = Condor)}) <= Cap
    <3>1. {c \in {} : /\ c.mode = m /\ DirOf[c.opp] = dir
                      /\ ~(m = "rth" /\ c.setup = Condor)} = {}
      OBVIOUS
    <3>2. 0 <= Cap
      BY <2>1
    <3> QED BY <2>1, <3>1, <3>2
  <2>3. Cardinality({c \in {} : c.mode = m /\ c.setup = Condor}) <= 1
    <3>1. {c \in {} : c.mode = m /\ c.setup = Condor} = {}
      OBVIOUS
    <3> QED BY <2>1, <3>1
  <2> QED BY <2>2, <2>3
<1> QED BY <1>1, <1>2, <1>3, <1>4, <1>5 DEF DeskInv

LEMMA DeskStep == DeskInv /\ [Next]_vars => DeskInv'
<1> SUFFICES ASSUME DeskInv, [Next]_vars PROVE DeskInv'
  OBVIOUS
<1>1. TypeOK'
  BY TypeStep DEF DeskInv
<1>2. CASE Tick
  BY <1>2, TickStep
<1>3. ASSUME NEW o \in Opportunity, NEW s \in SetupsOf[o], Select(o, s) \/ SelectUnread(o, s)
      PROVE  DeskInv'
  BY <1>1, <1>3, ChooseStep
<1>4. CASE Persist
  BY <1>4, PersistStep
<1>5. CASE PersistFails
  BY <1>1, <1>5, EndStep DEF PersistFails, NotPersisted
<1>6. CASE Admit
  BY <1>6, AdmitStep
<1>7. CASE Enqueue
  BY <1>7, EnqueueStep
<1>8. CASE EnqueueQuiet
  BY <1>1, <1>8, EndStep DEF EnqueueQuiet
<1>9. CASE CycleStops
  BY <1>1, <1>9, EndStep DEF CycleStops
<1>10. CASE UNCHANGED vars
  <2>1. UNCHANGED <<now, decisions, cards, cycle>>
    BY <1>10 DEF vars
  <2>2. Rows'
    BY <2>1 DEF DeskInv, Rows, SessionMode
  <2>3. Cleared'
    <3>1. \A d : /\ Ready(d.opp)' <=> Ready(d.opp)
                 /\ Others(d)' = Others(d) /\ SameMode(d)' = SameMode(d)
                 /\ SameDirection(d)' = SameDirection(d)
      BY <2>1, CountsStay
    <3>2. \A d : Blocked(d)' <=> Blocked(d)
      BY <2>1, <3>1 DEF Blocked, CondorSpent, DirectionLocked, CoolingDown, CapReached
    <3> QED BY <2>1, <3>1, <3>2 DEF DeskInv, Cleared
  <2> QED BY <1>1, <2>1, <2>2, <2>3, OldFacts, CardsStay DEF DeskInv
<1> QED BY <1>2, <1>3, <1>4, <1>5, <1>6, <1>7, <1>8, <1>9, <1>10 DEF Next

\* The desk's invariant: decisions and cards stay related as flood control
\* assumes, whatever is selected, and wherever a cycle fails or stops.
THEOREM DeskInvariant == Spec => []DeskInv
<1>1. Init => DeskInv
  BY InitDesk
<1>2. DeskInv /\ [Next]_vars => DeskInv'
  BY DeskStep
<1> QED BY <1>1, <1>2, PTL DEF Spec

\* Every variable of the desk keeps its type.
THEOREM DeskTypes == Spec => []TypeOK
<1>1. DeskInv => TypeOK
  BY DEF DeskInv
<1> QED BY <1>1, DeskInvariant, PTL

\* _flood_control_block keeps the outbox within the cap of every direction and
\* mode and to one GTH condor, for every number of opportunities and cycles.
THEOREM QuotaKept == Spec => []CardsCapped
<1>1. DeskInv => CardsCapped
  BY DEF DeskInv
<1> QED BY <1>1, DeskInvariant, PTL

\* The cooldown that _flood_control_block checks at admission holds of the
\* cards when they are accepted.
THEOREM CooldownHolds == Spec => []CooldownKept
<1>1. DeskInv => CooldownKept
  BY DEF DeskInv
<1> QED BY <1>1, DeskInvariant, PTL

\* The direction lock holds of the cards, although selection may not have seen
\* it: a card against an earlier one waits for the stick, unless superseded.
THEOREM DirectionHeld == Spec => []OppositeWaits
<1>1. DeskInv => OppositeWaits
  BY DEF DeskInv
<1> QED BY <1>1, DeskInvariant, PTL

=============================================================================
