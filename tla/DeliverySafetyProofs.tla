----------------------- MODULE DeliverySafetyProofs -----------------------
(***************************************************************************)
(* The safety properties of DeliveryLedger and its refinement of           *)
(* OutboxContract, for any number of workers, events and targets and any   *)
(* terms, budgets and bounds.  They rest on one inductive invariant,       *)
(* DeliveryInv, whose parts say what a claim key identifies (Keys,         *)
(* Started), what the ledger may believe about the recipient (Truthful,    *)
(* Rounds) and what the tables keep of it (RowsOK, InFlight, Evidence).    *)
(***************************************************************************)
EXTENDS DeliveryLedgerProofs, FiniteSetTheorems

-----------------------------------------------------------------------------
(* The inductive invariant *)

Got(a) == <<a.target, a.seq>> \in received

Holds(w, a) == worker[w].target = a.target /\ worker[w].seq = a.seq

Sending(a) == \E w \in Worker : worker[w].pc = "send" /\ Holds(w, a)

\* An attempt that the recipient has not seen and never will.
Closed(a) == ~Got(a) /\ ~Sending(a)

\* What the CHECK constraints say of one row, and that a claimed row has
\* budget left.
RowOK(r) ==
    /\ r.count <= MaxAttempts
    /\ r.status \in {"pending", "claimed"} => r.count < MaxAttempts
    /\ r.status = "pending" => r.nextAt > 0
    /\ r.status # "pending" => r.nextAt = 0
    /\ r.status \in {"claimed", "in_flight"} => r.claimGen > 0 /\ r.leaseUntil > r.claimedAt
    /\ r.status \notin {"claimed", "in_flight"} =>
         r.claimGen = 0 /\ r.claimedAt = 0 /\ r.leaseUntil = 0
    /\ r.attempt <=> r.status = "in_flight"
    /\ r.status = "in_flight" => r.count > 0
    /\ r.ack => r.status \in {"dead_letter", "expired", "uncertain"}

RowsOK == \A t \in Target : RowOK(row[t])

\* Clocks are running, and an active lease, and a process that is up, have a
\* generation.  A worker that still has to start its transport has read the
\* clock after it claimed.
Clocks ==
    /\ now >= 1
    /\ owner.active => owner.gen >= 1
    /\ \A w \in Worker :
         /\ worker[w].at <= now
         /\ worker[w].pc # "down" => worker[w].at >= 1 /\ worker[w].gen >= 1
         /\ worker[w].pc = "process" /\ worker[w].seq = row[worker[w].target].seq
              => row[worker[w].target].claimedAt <= worker[w].at

\* A row exists from the INSERT of its event on.
Entered ==
    \A t \in Target :
      /\ event[EventOf[t]] = NoEvent => row[t] = AbsentRow
      /\ event[EventOf[t]] # NoEvent => row[t].status # "absent"

\* (target, seq) identifies the claim of a worker and an attempt, and neither
\* is ahead of the row.
Keys ==
    /\ \A w \in Worker : Busy(w) => worker[w].seq <= row[worker[w].target].seq
    /\ \A v, w \in Worker : Busy(v) /\ Busy(w) /\ Holds(v, worker[w]) => v = w
    /\ \A a \in attempts : a.seq <= row[a.target].seq /\ a.replay <= row[a.target].replay
    /\ \A a, b \in attempts : a.target = b.target /\ a.seq = b.seq => a = b

\* An attempt exists from start_transport_attempt on, hence before anything
\* can be received.
Started ==
    /\ \A w \in Worker : worker[w].pc = "process" => ~\E a \in attempts : Holds(w, a)
    /\ \A w \in Worker : worker[w].pc \in {"send", "settle"} => \E a \in attempts : Holds(w, a)
    /\ \A m \in received : \E a \in attempts : m = <<a.target, a.seq>>

\* A transport is used once, and what its result says is true.
Truthful ==
    \A w \in Worker :
      LET m == <<worker[w].target, worker[w].seq>> IN
      /\ worker[w].pc = "send" => m \notin received
      /\ worker[w].pc = "settle" /\ worker[w].result \in {"retryable", "permanent"} => m \notin received
      /\ worker[w].pc = "settle" /\ worker[w].result = "delivered" => m \in received

\* In a round only the last attempt can have arrived or still arrive, none
\* while the row may start another or says that none did, and none any more
\* once the row says delivered.
Rounds ==
    /\ \A a, b \in attempts :
         a.target = b.target /\ a.replay = b.replay /\ a.seq < b.seq => Closed(a)
    /\ \A a \in attempts :
         a.replay = row[a.target].replay =>
           /\ row[a.target].status \notin {"in_flight", "delivered", "uncertain"} => Closed(a)
           /\ row[a.target].status = "delivered" => ~Sending(a)

\* The attempt an in-flight row waits for.
Current(a) ==
    LET r == row[a.target] IN
    /\ a.seq = r.seq /\ a.replay = r.replay /\ a.no = r.count /\ a.gen = r.claimGen
    /\ a.startedAt >= r.claimedAt /\ a.startedAt < r.leaseUntil

InFlight ==
    \A t \in Target : row[t].status = "in_flight" => \E a \in attempts : a.target = t /\ Current(a)

\* The receipts of an attempt.
About(a) == {r \in receipts : r.attempted /\ r.target = a.target /\ r.seq = a.seq}

Open_(a) == row[a.target].attempt /\ row[a.target].seq = a.seq

Evidence ==
    /\ \A a \in attempts : IF Open_(a) THEN About(a) = {} ELSE \E r \in receipts : About(a) = {r}
    /\ \A r \in receipts : r.attempted => \E a \in attempts : a.target = r.target /\ a.seq = r.seq

\* A second report of a slot is never stored.
OneReportPerSlot ==
    \A e, f \in Event :
      /\ event[e] # NoEvent /\ event[f] # NoEvent
      /\ Kind[e] = "report" /\ Kind[f] = "report" /\ Slot[e] = Slot[f]
      => e = f

DeliveryInv ==
    /\ TypeOK /\ RowsOK /\ Clocks /\ Entered /\ Keys /\ Started /\ Truthful /\ Rounds
    /\ InFlight /\ Evidence /\ OneReportPerSlot

AttemptType == [target : Target, seq : Nat, gen : Nat, replay : Nat, no : Nat, startedAt : Nat]

-----------------------------------------------------------------------------
(* Rows *)

\* The fields of a row whose claim ends.
LEMMA UnclaimedFields ==
    ASSUME NEW r \in RowType, NEW status \in Statuses, NEW nextAt \in Nat
    PROVE  /\ Unclaimed(r, status, nextAt).status = status
           /\ Unclaimed(r, status, nextAt).nextAt = nextAt
           /\ Unclaimed(r, status, nextAt).claimGen = 0
           /\ Unclaimed(r, status, nextAt).claimedAt = 0
           /\ Unclaimed(r, status, nextAt).leaseUntil = 0
           /\ ~Unclaimed(r, status, nextAt).attempt
           /\ Unclaimed(r, status, nextAt).count = r.count
           /\ Unclaimed(r, status, nextAt).replay = r.replay
           /\ Unclaimed(r, status, nextAt).seq = r.seq
           /\ Unclaimed(r, status, nextAt).ack <=> r.ack
BY DEF Unclaimed, RowType

\* A claim that ends leaves a row that passes the CHECK constraints.
LEMMA UnclaimedOK ==
    ASSUME NEW r \in RowType, RowOK(r), r.status \in {"pending", "claimed", "in_flight"},
           NEW status \in {"pending", "delivered", "dead_letter", "cancelled", "expired",
                           "uncertain"},
           NEW nextAt \in Nat,
           IF status = "pending" THEN nextAt > 0 /\ r.count < MaxAttempts ELSE nextAt = 0
    PROVE  RowOK(Unclaimed(r, status, nextAt))
<1> DEFINE u == Unclaimed(r, status, nextAt)
<1>1. /\ u.status = status /\ u.nextAt = nextAt
      /\ u.claimGen = 0 /\ u.claimedAt = 0 /\ u.leaseUntil = 0 /\ ~u.attempt
      /\ u.count = r.count /\ (u.ack <=> r.ack)
  BY UnclaimedFields DEF Statuses
<1>2. r.count \in Nat /\ r.count <= MaxAttempts /\ ~r.ack
  BY DEF RowOK, RowType
<1> HIDE DEF u
<1> QED BY <1>1, <1>2 DEF RowOK, u

\* What a transaction may do with one row, other than claiming it or starting
\* its transport.
Stays(t) == row'[t] = row[t] \/ row'[t] = [row[t] EXCEPT !.ack = TRUE]
Enters(t) == /\ row[t] = AbsentRow
             /\ \E c \in Nat \ {0} : row'[t] = NewRow(c)
Leaves(t) == /\ row[t].status \in {"pending", "claimed"}
             /\ \E status \in {"pending", "dead_letter", "cancelled", "expired"}, n \in Nat :
                  /\ row'[t] = Unclaimed(row[t], status, n)
                  /\ IF status = "pending" THEN n > 0 ELSE n = 0
Ends(t) == /\ row[t].status = "in_flight"
           /\ \E status \in {"pending", "dead_letter", "delivered", "uncertain"}, n \in Nat :
                /\ row'[t] = Unclaimed(row[t], status, n)
                /\ IF status = "pending" THEN n > 0 /\ row[t].count < MaxAttempts ELSE n = 0
                /\ \A a \in attempts : a.target = t /\ Current(a) =>
                     /\ status \in {"pending", "dead_letter"} => Closed(a)'
                     /\ status = "delivered" => Got(a) /\ ~Sending(a)'
Replays(t) == /\ row[t].status \in {"dead_letter", "uncertain"}
              /\ row'[t] = [row[t] EXCEPT !.status = "pending", !.count = 0,
                               !.replay = row[t].replay + 1, !.nextAt = now, !.ack = FALSE]
RowMoves(t) == Stays(t) \/ Enters(t) \/ Leaves(t) \/ Ends(t) \/ Replays(t)

AckOK(t) == row'[t] # row[t] => row[t].status \in {"dead_letter", "expired", "uncertain"}

\* Each of these moves keeps the row within the CHECK constraints.
LEMMA MoveKeepsRow ==
    ASSUME DeliveryInv, NEW t \in Target, RowMoves(t), Stays(t) => AckOK(t)
    PROVE  RowOK(row'[t])
<1> USE ConstantsAssumption
<1>1. row[t] \in RowType /\ RowOK(row[t])
  BY DEF DeliveryInv, TypeOK, RowsOK
<1>2. CASE Stays(t)
  BY <1>1, <1>2 DEF Stays, AckOK, RowOK, RowType
<1>3. CASE Enters(t)
  BY <1>3 DEF Enters, NewRow, AbsentRow, RowOK
<1>4. CASE Leaves(t)
  <2>1. row[t].count < MaxAttempts
    BY <1>1, <1>4 DEF Leaves, RowOK
  <2> QED BY <1>1, <1>4, <2>1, UnclaimedOK DEF Leaves
<1>5. CASE Ends(t)
  BY <1>1, <1>5, UnclaimedOK DEF Ends
<1>6. CASE Replays(t)
  <2>1. now >= 1 /\ now \in Nat
    BY DEF DeliveryInv, Clocks, TypeOK
  <2>2. /\ row'[t].status = "pending" /\ row'[t].count = 0 /\ row'[t].nextAt = now
        /\ row'[t].ack = FALSE /\ row'[t].attempt = row[t].attempt
        /\ row'[t].claimGen = row[t].claimGen /\ row'[t].claimedAt = row[t].claimedAt
        /\ row'[t].leaseUntil = row[t].leaseUntil
    BY <1>1, <1>6 DEF Replays, RowType
  <2> QED BY <1>1, <1>6, <2>1, <2>2 DEF Replays, RowOK
<1> QED BY <1>2, <1>3, <1>4, <1>5, <1>6 DEF RowMoves

\* What they do to its key, its round and its status.
LEMMA MoveFields ==
    ASSUME DeliveryInv, NEW t \in Target, RowMoves(t)
    PROVE  /\ row'[t].seq = row[t].seq
           /\ \/ row'[t].replay = row[t].replay
              \/ Replays(t) /\ row'[t].replay = row[t].replay + 1
           /\ row'[t].status = "in_flight" =>
                /\ row[t].status = "in_flight"
                /\ row'[t].count = row[t].count /\ row'[t].claimGen = row[t].claimGen
                /\ row'[t].claimedAt = row[t].claimedAt /\ row'[t].leaseUntil = row[t].leaseUntil
                /\ row'[t].replay = row[t].replay
           /\ row'[t].claimedAt <= row[t].claimedAt
           /\ row'[t].attempt => row[t].attempt
           /\ row[t].attempt /\ ~row'[t].attempt <=> Ends(t)
<1>1. row[t] \in RowType /\ RowOK(row[t])
  BY DEF DeliveryInv, TypeOK, RowsOK
<1>a. row[t].attempt <=> row[t].status = "in_flight"
  BY <1>1 DEF RowOK
<1>b. row[t].claimedAt \in Nat /\ row[t].attempt \in BOOLEAN
  BY <1>1 DEF RowType
<1>2. CASE Stays(t) /\ ~Ends(t)
  BY <1>1, <1>2, <1>a, <1>b DEF Stays, RowType
<1>3. CASE Enters(t)
  BY <1>3 DEF Enters, NewRow, AbsentRow, Ends
<1>4. CASE Leaves(t)
  BY <1>1, <1>4, <1>a, <1>b, UnclaimedFields DEF Leaves, Ends, Statuses
<1>5. CASE Ends(t)
  BY <1>1, <1>5, <1>a, <1>b, UnclaimedFields DEF Ends, Statuses
<1>6. CASE Replays(t)
  BY <1>1, <1>6, <1>a, <1>b DEF Replays, RowType, Ends
<1> QED BY <1>2, <1>3, <1>4, <1>5, <1>6 DEF RowMoves

-----------------------------------------------------------------------------
(* Steps that neither claim nor start nor send *)

\* The worker that steps, if any, ends up with nothing in its hands.
Quiet ==
    /\ attempts' = attempts /\ received' = received
    /\ \A w \in Worker : worker'[w] = worker[w] \/ ~Busy(w)'
    /\ \A t \in Target : RowMoves(t)

\* Such a step opens nothing that was closed.
LEMMA QuietCloses ==
    ASSUME DeliveryInv, Quiet, NEW a \in attempts
    PROVE  /\ ~Sending(a) => ~Sending(a)'
           /\ Closed(a) => Closed(a)'
<1>1. \A w \in Worker : worker'[w].pc = "send" => worker'[w] = worker[w]
  BY DEF Quiet, Busy
<1>2. ~Sending(a) => ~Sending(a)'
  BY <1>1 DEF Sending, Holds
<1> QED BY <1>2 DEF Quiet, Closed, Got

LEMMA QuietKeys ==
    ASSUME DeliveryInv, TypeOK', Quiet
    PROVE  Keys' /\ Started' /\ Truthful'
<1>1. \A t \in Target : /\ row'[t].seq = row[t].seq /\ row'[t].replay >= row[t].replay
                        /\ row[t].replay \in Nat /\ row'[t].replay \in Nat
  BY MoveFields DEF Quiet, DeliveryInv, TypeOK, RowType
<1>2. \A w \in Worker : Busy(w)' => worker'[w] = worker[w] /\ Busy(w) /\ worker[w].target \in Target
  BY DEF Quiet, Busy, DeliveryInv, TypeOK, WorkersOK
<1>3. \A a \in attempts : a.target \in Target /\ a.replay \in Nat
  BY DEF DeliveryInv, TypeOK
<1>4. Keys'
  <2>1. \A w \in Worker : Busy(w)' => worker'[w].seq <= row'[worker'[w].target].seq
    BY <1>1, <1>2 DEF DeliveryInv, Keys
  <2>2. \A v, w \in Worker : Busy(v)' /\ Busy(w)' /\ Holds(v, worker[w])' => v = w
    BY <1>2 DEF DeliveryInv, Keys, Holds
  <2>3. \A a \in attempts : a.seq <= row'[a.target].seq /\ a.replay <= row'[a.target].replay
    BY <1>1, <1>3 DEF DeliveryInv, Keys
  <2> QED BY <2>1, <2>2, <2>3 DEF Quiet, DeliveryInv, Keys
<1>5. \A w \in Worker : worker'[w].pc \in {"process", "send", "settle"} => worker'[w] = worker[w]
  BY <1>2 DEF Busy
<1>6. Started'
  BY <1>5 DEF Quiet, DeliveryInv, Started, Holds
<1>7. Truthful'
  BY <1>5 DEF Quiet, DeliveryInv, Truthful
<1> QED BY <1>4, <1>6, <1>7

LEMMA AttemptFacts ==
    ASSUME TypeOK, NEW a \in attempts
    PROVE  /\ a.target \in Target
           /\ a.seq \in Nat /\ a.replay \in Nat /\ a.no \in Nat
           /\ row[a.target] \in RowType
           /\ row[a.target].seq \in Nat /\ row[a.target].replay \in Nat
<1>1. a.target \in Target /\ a.seq \in Nat /\ a.replay \in Nat /\ a.no \in Nat
  BY DEF TypeOK
<1>2. row[a.target] \in RowType
  BY <1>1 DEF TypeOK
<1> QED BY <1>1, <1>2 DEF RowType

\* Only the current attempt of a row in flight may still be open.
LEMMA EarlierClosed ==
    ASSUME DeliveryInv, NEW a \in attempts, row[a.target].status = "in_flight",
           a.replay = row[a.target].replay, ~Current(a)
    PROVE  Closed(a)
<1>1. PICK b \in attempts : b.target = a.target /\ Current(b)
  BY DEF DeliveryInv, InFlight, TypeOK
<1>2. a.seq # b.seq
  BY <1>1 DEF DeliveryInv, Keys
<1>3. a.seq <= row[a.target].seq /\ b.seq = row[a.target].seq /\ b.replay = row[a.target].replay
  BY <1>1 DEF DeliveryInv, Keys, Current
<1>4. a.seq < b.seq /\ b.replay = a.replay
  BY <1>2, <1>3, AttemptFacts DEF DeliveryInv
<1> QED BY <1>1, <1>4 DEF DeliveryInv, Rounds

LEMMA QuietRounds ==
    ASSUME DeliveryInv, Quiet
    PROVE  Rounds' /\ InFlight'
<1>1. \A a \in attempts : (~Sending(a) => ~Sending(a)') /\ (Closed(a) => Closed(a)')
  BY QuietCloses
<1>2. \A a, b \in attempts :
        a.target = b.target /\ a.replay = b.replay /\ a.seq < b.seq => Closed(a)'
  BY <1>1 DEF DeliveryInv, Rounds
<1>3. ASSUME NEW a \in attempts, a.replay = row'[a.target].replay
      PROVE  /\ row'[a.target].status \notin {"in_flight", "delivered", "uncertain"} => Closed(a)'
             /\ row'[a.target].status = "delivered" => ~Sending(a)'
  <2> DEFINE t == a.target
  <2>1. t \in Target /\ RowMoves(t) /\ row[t] \in RowType
    BY DEF Quiet, DeliveryInv, TypeOK
  <2>2. a.replay = row[t].replay
    BY <1>3, <2>1, MoveFields DEF DeliveryInv, Keys, TypeOK, RowType
  <2>3. CASE row[t].status \notin {"in_flight", "delivered", "uncertain"}
    <3>1. Closed(a)
      BY <2>2, <2>3 DEF DeliveryInv, Rounds
    <3> QED BY <1>1, <3>1 DEF Closed
  <2>4. CASE row'[t].status = row[t].status
    BY <1>1, <2>2, <2>4 DEF DeliveryInv, Rounds
  <2>5. CASE Ends(t)
    <3>1. CASE Current(a)
      BY <2>1, <2>5, <3>1, UnclaimedFields DEF Ends, Statuses
    <3>2. CASE ~Current(a)
      <4>1. Closed(a)
        BY <2>2, <2>5, <3>2, EarlierClosed DEF Ends
      <4> QED BY <1>1, <4>1 DEF Closed
    <3> QED BY <3>1, <3>2
  <2>6. CASE Replays(t)
    <3>1. row'[t].replay = row[t].replay + 1 /\ row[t].replay \in Nat
      BY <2>1, <2>6 DEF Replays, RowType
    <3>2. row'[t].replay # row[t].replay
      BY <3>1
    <3> QED BY <1>3, <2>2, <3>2
  <2>7. CASE Stays(t)
    <3>1. row'[t].status = row[t].status
      BY <2>1, <2>7 DEF Stays, RowType
    <3> QED BY <2>4, <3>1
  <2>8. CASE Enters(t) \/ Leaves(t)
    <3>1. row[t].status \notin {"in_flight", "delivered", "uncertain"}
      BY <2>8 DEF Enters, Leaves, AbsentRow
    <3> QED BY <2>3, <3>1
  <2> QED BY <2>1, <2>5, <2>6, <2>7, <2>8 DEF RowMoves
<1>4. Rounds'
  BY <1>2, <1>3 DEF Rounds, Quiet
<1>5. InFlight'
  <2> SUFFICES ASSUME NEW t \in Target, row'[t].status = "in_flight"
               PROVE  \E a \in attempts : a.target = t /\ Current(a)'
    BY DEF InFlight, Quiet
  <2>1. /\ row[t].status = "in_flight" /\ row'[t].seq = row[t].seq
        /\ row'[t].count = row[t].count /\ row'[t].claimGen = row[t].claimGen
        /\ row'[t].claimedAt = row[t].claimedAt /\ row'[t].leaseUntil = row[t].leaseUntil
        /\ row'[t].replay = row[t].replay
    BY MoveFields DEF Quiet
  <2>2. PICK a \in attempts : a.target = t /\ Current(a)
    BY <2>1 DEF DeliveryInv, InFlight
  <2> QED BY <2>1, <2>2 DEF Current
<1> QED BY <1>4, <1>5

\* The receipts of the attempts at target t.
AttemptReceipts(t) == {r \in receipts : r.attempted /\ r.target = t}

\* An attempt gets its receipt in the step that ends it, and no other.
Receipted ==
    \A t \in Target :
      IF Ends(t)
      THEN \E r : /\ AttemptReceipts(t)' = AttemptReceipts(t) \union {r}
                  /\ r.seq = row[t].seq
      ELSE AttemptReceipts(t)' = AttemptReceipts(t)

LEMMA QuietEvidence ==
    ASSUME DeliveryInv, Quiet, Receipted, TypeOK'
    PROVE  Evidence'
<1>1. \A a \in attempts : About(a) = {r \in AttemptReceipts(a.target) : r.seq = a.seq}
  BY DEF About, AttemptReceipts
<1>2. \A a \in attempts : About(a)' = {r \in AttemptReceipts(a.target)' : r.seq = a.seq}
  BY DEF About, AttemptReceipts
<1>3. \A r \in receipts' : r.attempted => r.target \in Target /\ r \in AttemptReceipts(r.target)'
  BY DEF AttemptReceipts, TypeOK
<1>4. ASSUME NEW a \in attempts
      PROVE  IF Open_(a)' THEN About(a)' = {} ELSE \E r \in receipts' : About(a)' = {r}
  <2> DEFINE t == a.target
  <2>1. t \in Target /\ RowMoves(t)
    BY DEF Quiet, DeliveryInv, TypeOK
  <2>2. /\ row'[t].seq = row[t].seq
        /\ row'[t].attempt => row[t].attempt
        /\ row[t].attempt /\ ~row'[t].attempt <=> Ends(t)
    BY <2>1, MoveFields
  <2>3. IF Open_(a) THEN About(a) = {} ELSE \E r \in receipts : About(a) = {r}
    BY DEF DeliveryInv, Evidence
  <2>4. CASE ~Ends(t)
    <3>1. AttemptReceipts(t)' = AttemptReceipts(t)
      BY <2>1, <2>4 DEF Receipted
    <3>2. About(a)' = About(a)
      BY <1>1, <1>2, <3>1
    <3>3. Open_(a)' <=> Open_(a)
      BY <2>2, <2>4 DEF Open_
    <3>4. About(a)' \subseteq receipts'
      BY DEF About
    <3> QED BY <2>3, <3>2, <3>3, <3>4
  <2>5. CASE Ends(t)
    <3>1. PICK r : /\ AttemptReceipts(t)' = AttemptReceipts(t) \union {r}
                   /\ r.seq = row[t].seq
      BY <2>1, <2>5 DEF Receipted
    <3>2. ~Open_(a)'
      BY <2>2, <2>5 DEF Open_
    <3>3. About(a)' \subseteq receipts'
      BY DEF About
    <3>4. CASE a.seq = row[t].seq
      <4>1. About(a) = {}
        BY <2>2, <2>3, <2>5, <3>4 DEF Open_
      <4>2. About(a)' = {r}
        BY <1>1, <1>2, <3>1, <3>4, <4>1
      <4> QED BY <3>2, <3>3, <4>2
    <3>5. CASE a.seq # row[t].seq
      <4>1. ~Open_(a) /\ About(a)' = About(a)
        BY <1>1, <1>2, <3>1, <3>5 DEF Open_
      <4> QED BY <2>3, <3>2, <3>3, <4>1
    <3> QED BY <3>4, <3>5
  <2> QED BY <2>4, <2>5
<1>5. ASSUME NEW r \in receipts', r.attempted
      PROVE  \E a \in attempts : a.target = r.target /\ a.seq = r.seq
  <2> DEFINE t == r.target
  <2>1. t \in Target /\ r \in AttemptReceipts(t)'
    BY <1>3, <1>5
  <2>2. CASE r \in AttemptReceipts(t)
    BY <1>5, <2>2 DEF DeliveryInv, Evidence, AttemptReceipts
  <2>3. CASE r \notin AttemptReceipts(t)
    <3>1. Ends(t) /\ r.seq = row[t].seq
      BY <2>1, <2>3 DEF Receipted
    <3>2. PICK a \in attempts : a.target = t /\ Current(a)
      BY <2>1, <3>1 DEF Ends, DeliveryInv, InFlight
    <3> QED BY <3>1, <3>2 DEF Current
  <2> QED BY <2>2, <2>3
<1> QED BY <1>4, <1>5 DEF Evidence, Quiet

LEMMA QuietClocks ==
    ASSUME DeliveryInv, TypeOK', Quiet, now' >= now, owner'.active => owner'.gen >= 1,
           \A w \in Worker :
             \/ worker'[w] = worker[w]
             \/ /\ ~Busy(w)' /\ worker'[w].at <= now'
                /\ worker'[w].pc # "down" => worker'[w].at >= 1 /\ worker'[w].gen >= 1
    PROVE  Clocks'
<1>1. now \in Nat /\ now' \in Nat /\ now >= 1
  BY DEF DeliveryInv, TypeOK, Clocks
<1>2. ASSUME NEW w \in Worker
      PROVE  /\ worker'[w].at <= now'
             /\ worker'[w].pc # "down" => worker'[w].at >= 1 /\ worker'[w].gen >= 1
             /\ worker'[w].pc = "process" /\ worker'[w].seq = row'[worker'[w].target].seq
                  => row'[worker'[w].target].claimedAt <= worker'[w].at
  <2>1. CASE worker'[w] = worker[w]
    <3>1. worker[w].at \in Nat /\ worker[w].at <= now
      BY DEF DeliveryInv, TypeOK, WorkersOK, WorkerType, Clocks
    <3>2. ASSUME worker[w].pc = "process", worker[w].seq = row'[worker[w].target].seq
          PROVE  row'[worker[w].target].claimedAt <= worker[w].at
      <4> DEFINE t == worker[w].target
      <4>1. t \in Target /\ RowMoves(t)
        BY <3>2 DEF DeliveryInv, TypeOK, WorkersOK, Busy, Quiet
      <4>2. row'[t].seq = row[t].seq /\ row'[t].claimedAt <= row[t].claimedAt
        BY <4>1, MoveFields
      <4>3. row[t].claimedAt <= worker[w].at
        BY <3>2, <4>2 DEF DeliveryInv, Clocks
      <4>4. row[t].claimedAt \in Nat /\ row'[t].claimedAt \in Nat
        BY <4>1 DEF DeliveryInv, TypeOK, RowType
      <4> QED BY <3>1, <4>2, <4>3, <4>4
    <3>3. worker[w].at <= now'
      BY <1>1, <3>1
    <3>4. worker[w].pc # "down" => worker[w].at >= 1 /\ worker[w].gen >= 1
      BY DEF DeliveryInv, Clocks
    <3> QED BY <2>1, <3>2, <3>3, <3>4
  <2>2. CASE worker'[w] # worker[w]
    BY <2>2 DEF Busy
  <2> QED BY <2>1, <2>2
<1>3. now' >= 1
  BY <1>1
<1> QED BY <1>2, <1>3 DEF Clocks

\* Rows and events appear together.
EntersWith ==
    \A t \in Target :
      /\ Enters(t) => event'[EventOf[t]] # NoEvent
      /\ event[EventOf[t]] # NoEvent => event'[EventOf[t]] # NoEvent
      /\ event[EventOf[t]] = NoEvent /\ event'[EventOf[t]] # NoEvent => Enters(t)

LEMMA QuietEntered ==
    ASSUME DeliveryInv, Quiet, EntersWith, \A t \in Target : Stays(t) => AckOK(t)
    PROVE  Entered'
<1> SUFFICES ASSUME NEW t \in Target
             PROVE  /\ event'[EventOf[t]] = NoEvent => row'[t] = AbsentRow
                    /\ event'[EventOf[t]] # NoEvent => row'[t].status # "absent"
  BY DEF Entered
<1>1. row[t] \in RowType /\ RowMoves(t)
  BY DEF DeliveryInv, TypeOK, Quiet
<1>2. /\ event[EventOf[t]] = NoEvent => row[t] = AbsentRow
      /\ event[EventOf[t]] # NoEvent => row[t].status # "absent"
  BY DEF DeliveryInv, Entered
<1>3. CASE Enters(t)
  <2>1. row'[t].status = "pending"
    BY <1>3 DEF Enters, NewRow, AbsentRow
  <2> QED BY <1>3, <2>1 DEF EntersWith
<1>4. CASE ~Enters(t) /\ row[t] = AbsentRow
  <2>1. row[t].status = "absent"
    BY <1>4 DEF AbsentRow
  <2>2. Stays(t)
    BY <1>1, <1>4, <2>1 DEF RowMoves, Leaves, Ends, Replays
  <2>3. row'[t] = row[t]
    BY <2>1, <2>2 DEF AckOK
  <2> QED BY <1>2, <1>4, <2>1, <2>3 DEF EntersWith
<1>5. CASE ~Enters(t) /\ row[t] # AbsentRow
  <2>1. row[t].status # "absent" /\ event'[EventOf[t]] # NoEvent
    BY <1>2, <1>5 DEF EntersWith
  <2>2. row'[t].status # "absent"
    <3>1. CASE Stays(t)
      BY <1>1, <2>1, <3>1 DEF Stays, RowType
    <3>2. CASE Leaves(t)
      BY <1>1, <3>2, UnclaimedFields DEF Leaves, Statuses
    <3>3. CASE Ends(t)
      BY <1>1, <3>3, UnclaimedFields DEF Ends, Statuses
    <3>4. CASE Replays(t)
      BY <1>1, <3>4 DEF Replays, RowType
    <3> QED BY <1>1, <1>5, <3>1, <3>2, <3>3, <3>4 DEF RowMoves
  <2> QED BY <2>1, <2>2
<1> QED BY <1>3, <1>4, <1>5

\* Receipts without an attempt leave those of the attempts alone.
LEMMA Unattempted ==
    ASSUME DeliveryInv, NEW new, receipts' = receipts \union new,
           \A r \in new : ~r.attempted,
           \A t \in Target : RowMoves(t) /\ ~Ends(t)
    PROVE  Receipted
BY DEF Receipted, AttemptReceipts

\* What such a step does to the tables.
Calm == Quiet /\ EntersWith

\* A transaction of this kind keeps the invariant.
LEMMA QuietKeeps ==
    ASSUME DeliveryInv, TypeOK', Quiet, Receipted, EntersWith, Clocks', OneReportPerSlot',
           \A t \in Target : Stays(t) => AckOK(t)
    PROVE  DeliveryInv' /\ Calm
<1>1. RowsOK'
  BY MoveKeepsRow DEF RowsOK, Quiet
<1> QED BY <1>1, QuietKeys, QuietRounds, QuietEvidence, QuietEntered DEF DeliveryInv, Calm

\* A row that is not touched.
LEMMA Untouched ==
    ASSUME DeliveryInv, NEW t \in Target, row'[t] = row[t]
    PROVE  RowMoves(t) /\ Stays(t) /\ AckOK(t) /\ ~Ends(t) /\ ~Enters(t)
<1>1. row[t] \in RowType /\ (row[t].attempt <=> row[t].status = "in_flight")
  BY DEF DeliveryInv, TypeOK, RowsOK, RowOK
<1>2. ~Ends(t)
  <2> SUFFICES ASSUME Ends(t) PROVE FALSE
    OBVIOUS
  <2>1. PICK status \in Statuses, n \in Nat : row'[t] = Unclaimed(row[t], status, n)
    BY DEF Ends, Statuses
  <2>2. ~row[t].attempt
    BY <1>1, <2>1, UnclaimedFields
  <2> QED BY <1>1, <2>2 DEF Ends
<1>3. ~Enters(t)
  <2>1. \A c \in Nat : NewRow(c).status = "pending" /\ AbsentRow.status = "absent"
    BY DEF NewRow, AbsentRow
  <2> QED BY <2>1 DEF Enters
<1> QED BY <1>2, <1>3 DEF RowMoves, Stays, AckOK

\* A row that leaves the queue, or returns to it, before transport.
LEMMA Leaving ==
    ASSUME DeliveryInv, NEW t \in Target, Leaves(t)
    PROVE  RowMoves(t) /\ (Stays(t) => AckOK(t)) /\ ~Ends(t) /\ ~Enters(t)
<1>1. row[t] \in RowType /\ (row[t].ack => row[t].status \notin {"pending", "claimed"})
  BY DEF DeliveryInv, TypeOK, RowsOK, RowOK
<1>2. ~Ends(t) /\ ~Enters(t)
  BY DEF Ends, Leaves, Enters, AbsentRow
<1>3. Stays(t) => AckOK(t)
  <2>1. row'[t] # [row[t] EXCEPT !.ack = TRUE]
    BY <1>1, UnclaimedFields DEF Leaves, Statuses, RowType
  <2> QED BY <2>1 DEF Stays, AckOK
<1> QED BY <1>2, <1>3 DEF RowMoves

-----------------------------------------------------------------------------
(* The steps *)

\* The clock and the leases leave the tables alone.
LEMMA StillKeeps ==
    ASSUME DeliveryInv, TypeOK', UNCHANGED <<event, row, attempts, receipts, received>>,
           now' >= now, owner'.active => owner'.gen >= 1,
           \A w \in Worker :
             \/ worker'[w] = worker[w]
             \/ /\ ~Busy(w)' /\ worker'[w].at <= now'
                /\ worker'[w].pc # "down" => worker'[w].at >= 1 /\ worker'[w].gen >= 1
    PROVE  DeliveryInv' /\ Calm
<1>1. \A t \in Target : RowMoves(t) /\ Stays(t) /\ AckOK(t) /\ ~Ends(t) /\ ~Enters(t)
  BY Untouched
<1>2. Quiet
  BY <1>1 DEF Quiet
<1>3. Receipted
  BY <1>1 DEF Receipted, AttemptReceipts
<1>4. EntersWith
  BY <1>1 DEF EntersWith
<1>5. Clocks'
  BY <1>2, QuietClocks
<1>6. OneReportPerSlot'
  BY DEF DeliveryInv, OneReportPerSlot
<1> QED BY <1>1, <1>2, <1>3, <1>4, <1>5, <1>6, QuietKeeps

LEMMA TickKeeps ==
    ASSUME DeliveryInv, TypeOK', Tick PROVE DeliveryInv' /\ Calm
<1>1. now \in Nat /\ (owner.active => owner.gen >= 1)
  BY DEF DeliveryInv, TypeOK, Clocks
<1>2. now' >= now /\ owner' = owner /\ worker' = worker
  BY <1>1 DEF Tick
<1>3. UNCHANGED <<event, row, attempts, receipts, received>>
  BY DEF Tick
<1> QED BY <1>1, <1>2, <1>3, StillKeeps

LEMMA LeaseKeeps ==
    ASSUME DeliveryInv, TypeOK', NEW w \in Worker,
           Open(w) \/ RefreshOwner(w) \/ Exit(w) \/ Crash(w)
    PROVE  DeliveryInv' /\ Calm
<1>1. /\ worker \in [Worker -> WorkerType] /\ worker[w].at \in Nat /\ worker[w].at <= now
      /\ now \in Nat /\ now >= 1 /\ owner \in OwnerType /\ owner.gen \in Nat
      /\ owner.active => owner.gen >= 1
      /\ worker[w].pc # "down" => worker[w].at >= 1
  BY DEF DeliveryInv, TypeOK, WorkersOK, WorkerType, Clocks, OwnerType
<1>2. /\ UNCHANGED <<event, row, attempts, receipts, received>> /\ now' = now
  BY DEF Open, RefreshOwner, Exit, Crash
<1>a. \A s, d \in Nat : /\ Acquired(owner, w, s, d).gen >= 1
  BY <1>1 DEF Acquired, Reentrant
<1>3. CASE Open(w)
  <2>1. PICK s \in 1 .. now :
          /\ owner' = Acquired(owner, w, s, OwnerTerm)
          /\ worker' = [worker EXCEPT ![w] =
               [Down EXCEPT !.pc = "idle", !.at = now, !.gen = owner'.gen,
                            !.until = s + OwnerTerm]]
    BY <1>3 DEF Open
  <2>2. owner'.gen >= 1
    <3>1. s \in Nat /\ OwnerTerm \in Nat
      BY <1>1, ConstantsAssumption
    <3>2. owner' = Acquired(owner, w, s, OwnerTerm)
      BY <2>1
    <3> QED BY <1>a, <3>1, <3>2
  <2>3. worker'[w].pc = "idle" /\ worker'[w].at = now /\ worker'[w].gen = owner'.gen
    BY <1>1, <2>1 DEF Down
  <2>4. \A v \in Worker \ {w} : worker'[v] = worker[v]
    BY <1>1, <2>1
  <2> QED BY <1>1, <1>2, <2>2, <2>3, <2>4, StillKeeps DEF Busy
<1>4. CASE RefreshOwner(w)
  <2>1. PICK s \in ClockReads(w) :
          /\ \/ OwnsRole(w, s) /\ owner' = Renewed(owner, s, OwnerTerm)
             \/ owner' = Acquired(owner, w, s, OwnerTerm)
          /\ worker' = [worker EXCEPT ![w] =
               [worker[w] EXCEPT !.pc = "recover", !.at = s, !.gen = owner'.gen,
                                 !.until = s + OwnerTerm]]
    BY <1>4 DEF RefreshOwner
  <2>2. s \in Nat /\ s <= now /\ s >= 1
    <3>1. s \in worker[w].at .. now /\ worker[w].pc = "idle"
      BY <1>4 DEF ClockReads, RefreshOwner
    <3> QED BY <1>1, <3>1
  <2>3. owner'.gen >= 1
    <3>1. CASE OwnsRole(w, s) /\ owner' = Renewed(owner, s, OwnerTerm)
      BY <1>1, <3>1 DEF OwnsRole, Owns, Renewed, OwnerType
    <3>2. CASE owner' = Acquired(owner, w, s, OwnerTerm)
      BY <1>a, <2>2, <3>2, ConstantsAssumption
    <3> QED BY <2>1, <3>1, <3>2
  <2>4. worker'[w].pc = "recover" /\ worker'[w].at = s /\ worker'[w].gen = owner'.gen
    BY <1>1, <2>1 DEF WorkerType
  <2>5. \A v \in Worker \ {w} : worker'[v] = worker[v]
    BY <1>1, <2>1
  <2> QED BY <1>1, <1>2, <2>2, <2>3, <2>4, <2>5, StillKeeps DEF Busy
<1>5. CASE Exit(w) \/ Crash(w)
  <2>1. worker' = [worker EXCEPT ![w] = Down]
    BY <1>5 DEF Exit, Crash
  <2>2. owner'.active => owner'.gen >= 1
    BY <1>1, <1>5 DEF Exit, Crash, Released, OwnerType
  <2>3. worker'[w].pc = "down" /\ worker'[w].at = 0
    BY <1>1, <2>1 DEF Down
  <2>4. \A v \in Worker \ {w} : worker'[v] = worker[v]
    BY <1>1, <2>1
  <2> QED BY <1>1, <1>2, <2>2, <2>3, <2>4, StillKeeps DEF Busy
<1> QED BY <1>3, <1>4, <1>5

\* Core and the operator change no process; neither does their clock.
LEMMA CallerClocks ==
    ASSUME DeliveryInv, TypeOK', Quiet, UNCHANGED <<now, owner, worker>>
    PROVE  Clocks'
<1>1. now' >= now /\ (owner'.active => owner'.gen >= 1)
  BY DEF DeliveryInv, TypeOK, Clocks
<1> QED BY <1>1, QuietClocks

\* CancelRows leaves a row alone or withdraws it.
LEMMA CancelMoves ==
    ASSUME DeliveryInv, NEW ts, NEW t \in Target, row'[t] = CancelRows(ts)[t]
    PROVE  row'[t] = row[t] \/ Leaves(t)
<1>1. CASE t \in ts /\ row[t].status \in {"pending", "claimed"}
  <2>1. row'[t] = Unclaimed(row[t], "cancelled", 0)
    BY <1>1 DEF CancelRows
  <2> QED BY <1>1, <2>1 DEF Leaves
<1>2. CASE ~(t \in ts /\ row[t].status \in {"pending", "claimed"})
  BY <1>2 DEF CancelRows
<1> QED BY <1>1, <1>2

LEMMA CancelEventKeeps ==
    ASSUME DeliveryInv, TypeOK', NEW e \in Event, CancelEvent(e) PROVE DeliveryInv' /\ Calm
<1>1. \A t \in Target : row'[t] = row[t] \/ Leaves(t)
  BY CancelMoves DEF CancelEvent
<1>2. \A t \in Target : /\ RowMoves(t) /\ (Stays(t) => AckOK(t)) /\ ~Ends(t) /\ ~Enters(t)
  BY <1>1, Untouched, Leaving
<1>3. Quiet
  BY <1>2 DEF Quiet, CancelEvent
<1>4. \A r \in CancelReceipts(TargetsOf(e)) : ~r.attempted
  BY DEF CancelReceipts, Receipt
<1>5. Receipted
  BY <1>2, <1>4, Unattempted DEF CancelEvent
<1>6. EntersWith
  BY <1>2 DEF EntersWith, CancelEvent
<1>7. Clocks'
  BY <1>3, CallerClocks DEF CancelEvent
<1>8. OneReportPerSlot'
  BY DEF DeliveryInv, OneReportPerSlot, CancelEvent
<1> QED BY <1>2, <1>3, <1>5, <1>6, <1>7, <1>8, QuietKeeps

\* The INSERT of an event next to rows that stay or leave.
LEMMA InsertMoves ==
    ASSUME DeliveryInv, TypeOK', NEW e \in Event, NEW c \in CreationTimes, NEW rows,
           InsertEvent(e, c, rows),
           \A t \in Target : EventOf[t] # e /\ row'[t] = rows[t] => row'[t] = row[t] \/ Leaves(t)
    PROVE  /\ \A t \in Target : RowMoves(t) /\ (Stays(t) => AckOK(t)) /\ ~Ends(t)
           /\ EntersWith
           /\ event'[e] # NoEvent /\ \A f \in Event \ {e} : event'[f] = event[f]
<1>1. c \in Nat \ {0} /\ Ttl \in Nat
  BY ConstantsAssumption DEF CreationTimes, DeliveryInv, TypeOK
<1>2. event \in [Event -> EventType] /\ row \in [Target -> RowType]
  BY DEF DeliveryInv, TypeOK, EventType
<1>3. /\ event'[e] = [occurred |-> c, expires |-> c + Ttl]
      /\ \A f \in Event \ {e} : event'[f] = event[f]
  BY <1>2 DEF InsertEvent
<1>4. event'[e] # NoEvent
  BY <1>1, <1>3 DEF NoEvent
<1>5. ASSUME NEW t \in Target, EventOf[t] = e
      PROVE  /\ RowMoves(t) /\ (Stays(t) => AckOK(t)) /\ ~Ends(t) /\ Enters(t)
  <2>1. row[t] = AbsentRow /\ row'[t] = NewRow(c)
    BY <1>5 DEF InsertEvent, Stored, DeliveryInv, Entered
  <2>2. Enters(t)
    BY <1>1, <2>1 DEF Enters
  <2>3. row[t].status = "absent" /\ row'[t].status = "pending"
    BY <2>1 DEF AbsentRow, NewRow
  <2>4. ~Stays(t)
    BY <1>2, <2>3 DEF Stays, RowType
  <2>5. ~Ends(t)
    BY <2>3 DEF Ends
  <2> QED BY <2>2, <2>4, <2>5 DEF RowMoves
<1>6. ASSUME NEW t \in Target, EventOf[t] # e
      PROVE  /\ RowMoves(t) /\ (Stays(t) => AckOK(t)) /\ ~Ends(t) /\ ~Enters(t)
  <2>1. row'[t] = rows[t]
    BY <1>6 DEF InsertEvent
  <2> QED BY <1>6, <2>1, Untouched, Leaving
<1>7. \A t \in Target : EventOf[t] \in Event
  BY ConstantsAssumption
<1>8. EntersWith
  <2> SUFFICES ASSUME NEW t \in Target
               PROVE  /\ Enters(t) => event'[EventOf[t]] # NoEvent
                      /\ event[EventOf[t]] # NoEvent => event'[EventOf[t]] # NoEvent
                      /\ event[EventOf[t]] = NoEvent /\ event'[EventOf[t]] # NoEvent => Enters(t)
    BY DEF EntersWith
  <2>1. CASE EventOf[t] = e
    BY <1>4, <1>5, <2>1
  <2>2. CASE EventOf[t] # e
    BY <1>3, <1>6, <1>7, <2>2
  <2> QED BY <2>1, <2>2
<1> QED BY <1>3, <1>4, <1>5, <1>6, <1>8

LEMMA InsertKeeps ==
    ASSUME DeliveryInv, TypeOK', NEW e \in Event, NEW c \in CreationTimes, NEW rows, NEW new,
           InsertEvent(e, c, rows), UNCHANGED <<now, owner, attempts, worker, received>>,
           \A t \in Target : EventOf[t] # e /\ row'[t] = rows[t] => row'[t] = row[t] \/ Leaves(t),
           receipts' = receipts \union new, \A r \in new : ~r.attempted,
           Kind[e] = "report" => ~SlotTaken(e)
    PROVE  DeliveryInv' /\ Calm
<1>1. /\ \A t \in Target : RowMoves(t) /\ (Stays(t) => AckOK(t)) /\ ~Ends(t)
      /\ EntersWith
      /\ event'[e] # NoEvent /\ \A f \in Event \ {e} : event'[f] = event[f]
  BY InsertMoves
<1>2. Quiet
  BY <1>1 DEF Quiet
<1>3. Receipted
  BY <1>1, Unattempted
<1>4. Clocks'
  BY <1>2, CallerClocks
<1>5. OneReportPerSlot'
  BY <1>1 DEF DeliveryInv, OneReportPerSlot, SlotTaken, Stored
<1> QED BY <1>1, <1>2, <1>3, <1>4, <1>5, QuietKeeps

LEMMA CoreKeeps ==
    ASSUME DeliveryInv, TypeOK', CoreStep PROVE DeliveryInv' /\ Calm
<1>1. PICK e \in Event : \/ PersistDecision(e)
                         \/ PersistScheduledReport(e)
                         \/ PersistOperatorNotification(e)
                         \/ CancelEvent(e)
  BY DEF CoreStep
<1>2. CASE PersistDecision(e) \/ PersistScheduledReport(e)
  <2> DEFINE none == {}
  <2>1. PICK c \in CreationTimes : InsertEvent(e, c, row)
    BY <1>2 DEF PersistDecision, PersistScheduledReport
  <2>2. /\ UNCHANGED <<now, owner, attempts, worker, received>>
        /\ receipts' = receipts \union none /\ \A r \in none : ~r.attempted
        /\ Kind[e] = "report" => ~SlotTaken(e)
    BY <1>2 DEF PersistDecision, PersistScheduledReport
  <2>3. \A t \in Target : EventOf[t] # e /\ row'[t] = row[t] => row'[t] = row[t] \/ Leaves(t)
    OBVIOUS
  <2> HIDE DEF none
  <2> QED BY <2>1, <2>2, <2>3, InsertKeeps
<1>3. CASE PersistOperatorNotification(e)
  <2> DEFINE ts == Superseded(e)
  <2>1. PICK c \in CreationTimes : InsertEvent(e, c, CancelRows(ts))
    BY <1>3 DEF PersistOperatorNotification
  <2>2. /\ UNCHANGED <<now, owner, attempts, worker, received>>
        /\ receipts' = receipts \union CancelReceipts(ts) /\ Kind[e] # "report"
    BY <1>3 DEF PersistOperatorNotification, OperatorKinds
  <2>3. \A r \in CancelReceipts(ts) : ~r.attempted
    BY DEF CancelReceipts, Receipt
  <2>4. \A t \in Target : EventOf[t] # e /\ row'[t] = CancelRows(ts)[t]
          => row'[t] = row[t] \/ Leaves(t)
    BY CancelMoves
  <2> HIDE DEF ts
  <2> QED BY <2>1, <2>2, <2>3, <2>4, InsertKeeps
<1> QED BY <1>1, <1>2, <1>3, CancelEventKeeps

LEMMA OperatorKeeps ==
    ASSUME DeliveryInv, TypeOK', OperatorStep PROVE DeliveryInv' /\ Calm
<1>1. PICK t \in Target : AcknowledgeFailure(t) \/ ReplayFailure(t)
  BY DEF OperatorStep
<1>2. row \in [Target -> RowType] /\ row[t] \in RowType
  BY DEF DeliveryInv, TypeOK
<1>3. /\ \A u \in Target \ {t} : row'[u] = row[u]
      /\ UNCHANGED <<now, owner, event, attempts, receipts, worker, received>>
  BY <1>1, <1>2 DEF AcknowledgeFailure, ReplayFailure
<1>4. RowMoves(t) /\ (Stays(t) => AckOK(t)) /\ ~Ends(t) /\ ~Enters(t)
  <2>1. CASE AcknowledgeFailure(t)
    <3>1. row'[t] = [row[t] EXCEPT !.ack = TRUE] /\ row[t].status \in {"dead_letter", "expired", "uncertain"}
      BY <1>2, <2>1 DEF AcknowledgeFailure
    <3> QED BY <3>1 DEF RowMoves, Stays, AckOK, Ends, Enters, AbsentRow
  <2>2. CASE ReplayFailure(t)
    <3>1. Replays(t)
      BY <1>2, <2>2 DEF ReplayFailure, Replays, Replayable
    <3>2. ~Ends(t) /\ ~Enters(t) /\ AckOK(t)
      BY <3>1 DEF Replays, Ends, Enters, AckOK, AbsentRow
    <3> QED BY <3>1, <3>2 DEF RowMoves
  <2> QED BY <1>1, <2>1, <2>2
<1>5. \A u \in Target : RowMoves(u) /\ (Stays(u) => AckOK(u)) /\ ~Ends(u) /\ ~Enters(u)
  BY <1>3, <1>4, Untouched
<1>6. Quiet
  BY <1>3, <1>5 DEF Quiet
<1>7. Receipted /\ EntersWith
  BY <1>3, <1>5 DEF Receipted, AttemptReceipts, EntersWith
<1>8. Clocks' /\ OneReportPerSlot'
  BY <1>3, <1>6, CallerClocks DEF DeliveryInv, OneReportPerSlot
<1> QED BY <1>5, <1>6, <1>7, <1>8, QuietKeeps

\* A worker that puts down what it had.
LEMMA IdleFacts ==
    ASSUME DeliveryInv, NEW w \in Worker, worker' = [worker EXCEPT ![w] = Idle(w, "idle", now)]
    PROVE  /\ worker'[w].pc = "idle" /\ worker'[w].at = now /\ worker'[w].gen = worker[w].gen
           /\ \A v \in Worker \ {w} : worker'[v] = worker[v]
BY DEF Idle, DeliveryInv, TypeOK, WorkersOK, WorkerType

LEMMA IdleClocks ==
    ASSUME DeliveryInv, TypeOK', Quiet, UNCHANGED <<now, owner>>, NEW w \in Worker,
           worker[w].pc # "down",
           worker' = [worker EXCEPT ![w] = Idle(w, "idle", now)]
    PROVE  Clocks'
<1>1. /\ now \in Nat /\ now >= 1 /\ worker[w].gen >= 1
      /\ owner'.active => owner'.gen >= 1
  BY DEF DeliveryInv, TypeOK, Clocks
<1>2. /\ worker'[w].pc = "idle" /\ worker'[w].at = now /\ worker'[w].gen = worker[w].gen
      /\ \A v \in Worker \ {w} : worker'[v] = worker[v]
  BY IdleFacts
<1> QED BY <1>1, <1>2, QuietClocks DEF Busy

\* A busy worker's claim is its own.
LEMMA BusyFacts ==
    ASSUME DeliveryInv, NEW w \in Worker, Busy(w)
    PROVE  /\ worker[w].target \in Target /\ row[worker[w].target] \in RowType
           /\ worker[w].seq \in Nat /\ worker[w].gen \in Nat /\ worker[w].no \in Nat
           /\ worker[w].at \in Nat /\ worker[w].at >= 1 /\ worker[w].at <= now /\ now \in Nat
           /\ worker[w].pc # "down"
<1>1. worker[w] \in WorkerType /\ worker[w].target \in Target
  BY DEF DeliveryInv, TypeOK, WorkersOK
<1>2. worker[w].pc # "down"
  BY DEF Busy
<1>3. row[worker[w].target] \in RowType /\ now \in Nat
  BY <1>1 DEF DeliveryInv, TypeOK
<1> QED BY <1>1, <1>2, <1>3 DEF WorkerType, DeliveryInv, Clocks

\* One row leaves the queue and its worker rests.
LEMMA WithdrawKeeps ==
    ASSUME DeliveryInv, TypeOK', NEW w \in Worker, Busy(w), NEW t \in Target,
           Leaves(t), row' = [row EXCEPT ![t] = row'[t]],
           NEW new, receipts' = receipts \union new, \A r \in new : ~r.attempted,
           worker' = [worker EXCEPT ![w] = Idle(w, "idle", now)],
           UNCHANGED <<now, owner, event, attempts, received>>
    PROVE  DeliveryInv' /\ Calm
<1>1. \A u \in Target : RowMoves(u) /\ (Stays(u) => AckOK(u)) /\ ~Ends(u) /\ ~Enters(u)
  <2>1. \A u \in Target \ {t} : row'[u] = row[u]
    BY DEF DeliveryInv, TypeOK
  <2> QED BY <2>1, Untouched, Leaving
<1>2. Quiet
  BY <1>1, IdleFacts DEF Quiet, Busy
<1>3. Receipted
  BY <1>1, Unattempted
<1>4. EntersWith /\ OneReportPerSlot'
  BY <1>1 DEF EntersWith, DeliveryInv, OneReportPerSlot
<1>5. Clocks'
  BY <1>2, BusyFacts, IdleClocks
<1> QED BY <1>1, <1>2, <1>3, <1>4, <1>5, QuietKeeps

LEMMA RejectKeeps ==
    ASSUME DeliveryInv, TypeOK', NEW w \in Worker, RejectBeforeTransport(w)
    PROVE  DeliveryInv' /\ Calm
<1> DEFINE t == worker[w].target
           new == {Receipt(t, FALSE, "permanent_failure")}
<1>1. Busy(w) /\ t \in Target /\ row \in [Target -> RowType]
  BY DEF RejectBeforeTransport, Busy, DeliveryInv, TypeOK, WorkersOK
<1>2. row[t].status = "claimed"
  BY DEF RejectBeforeTransport, HoldsClaim
<1>3. row'[t] = Unclaimed(row[t], "dead_letter", 0) /\ row' = [row EXCEPT ![t] = row'[t]]
  BY <1>1 DEF RejectBeforeTransport
<1>4. Leaves(t)
  BY <1>2, <1>3 DEF Leaves
<1>5. /\ receipts' = receipts \union new /\ \A r \in new : ~r.attempted
      /\ worker' = [worker EXCEPT ![w] = Idle(w, "idle", now)]
      /\ UNCHANGED <<now, owner, event, attempts, received>>
  BY DEF RejectBeforeTransport, Receipt
<1> HIDE DEF new, t
<1> QED BY <1>1, <1>3, <1>4, <1>5, WithdrawKeeps

LEMMA WithdrawnKeeps ==
    ASSUME DeliveryInv, TypeOK', NEW w \in Worker, Busy(w), BeginWithdrawn(w),
           UNCHANGED <<now, owner, event, cancelled, received>>
    PROVE  DeliveryInv' /\ Calm
<1>1. /\ UNCHANGED <<event, row, attempts, receipts, received>> /\ now' = now
      /\ worker' = [worker EXCEPT ![w] = Idle(w, "idle", now)]
  BY DEF BeginWithdrawn
<1>2. /\ now \in Nat /\ now >= 1 /\ worker[w].gen >= 1
      /\ owner'.active => owner'.gen >= 1
  BY BusyFacts DEF DeliveryInv, TypeOK, Clocks
<1>3. /\ worker'[w].pc = "idle" /\ worker'[w].at = now /\ worker'[w].gen = worker[w].gen
      /\ \A v \in Worker \ {w} : worker'[v] = worker[v]
  BY <1>1, IdleFacts
<1> QED BY <1>1, <1>2, <1>3, StillKeeps DEF Busy

LEMMA TerminalKeeps ==
    ASSUME DeliveryInv, TypeOK', NEW w \in Worker, Busy(w), NEW s, BeginTerminal(w, s),
           UNCHANGED <<now, owner, event, cancelled, received>>
    PROVE  DeliveryInv' /\ Calm
<1> DEFINE t == worker[w].target
           fenced == EventOf[t] \in cancelled
           new == {Receipt(t, FALSE, IF fenced THEN "cancelled_before_transport"
                                               ELSE "expired_before_transport")}
<1>1. t \in Target /\ row \in [Target -> RowType]
  BY DEF Busy, DeliveryInv, TypeOK, WorkersOK
<1>2. row[t].status = "claimed"
  BY DEF BeginTerminal
<1>3. /\ row' = [row EXCEPT ![t] = row'[t]]
      /\ \E status \in {"cancelled", "expired"} : row'[t] = Unclaimed(row[t], status, 0)
  BY <1>1 DEF BeginTerminal
<1>4. Leaves(t)
  BY <1>2, <1>3 DEF Leaves
<1>5. /\ receipts' = receipts \union new /\ \A r \in new : ~r.attempted
      /\ worker' = [worker EXCEPT ![w] = Idle(w, "idle", now)]
      /\ UNCHANGED <<now, owner, event, attempts, received>>
  BY DEF BeginTerminal, Receipt
<1> HIDE DEF new, t
<1> QED BY <1>1, <1>3, <1>4, <1>5, WithdrawKeeps

LEMMA RecoverKeeps ==
    ASSUME DeliveryInv, TypeOK', NEW w \in Worker, RecoverStaleClaims(w)
    PROVE  DeliveryInv' /\ Calm
<1> DEFINE s == worker[w].at
<1>0. /\ worker[w] \in WorkerType /\ worker \in [Worker -> WorkerType]
      /\ worker[w].pc = "recover"
  BY DEF DeliveryInv, TypeOK, WorkersOK, RecoverStaleClaims
<1>1. /\ s \in Nat /\ s >= 1 /\ s <= now /\ now \in Nat /\ worker[w].gen >= 1
      /\ owner.active => owner.gen >= 1
  BY <1>0 DEF DeliveryInv, TypeOK, Clocks, WorkerType
<1>2. /\ worker'[w].pc = "claim" /\ worker'[w].at = s /\ worker'[w].gen = worker[w].gen
      /\ \A v \in Worker \ {w} : worker'[v] = worker[v]
  BY <1>0 DEF RecoverStaleClaims, WorkerType
<1>3. /\ UNCHANGED <<now, owner, event, attempts, received>>
      /\ receipts' = receipts \union {RecoveryReceipt(t) : t \in Stale(s)}
      /\ \A t \in Target : row'[t] = IF t \in Stale(s) THEN Recovered(t, s) ELSE row[t]
  BY DEF RecoverStaleClaims
<1>4. ASSUME NEW t \in Stale(s), row[t].status = "in_flight"
      PROVE  Ends(t) /\ RowMoves(t) /\ (Stays(t) => AckOK(t)) /\ ~Enters(t)
  <2>1. t \in Target /\ row'[t] = Unclaimed(row[t], "uncertain", 0)
    BY <1>3, <1>4 DEF Stale, Recovered
  <2>2. Ends(t)
    BY <1>4, <2>1 DEF Ends
  <2>3. ~Stays(t)
    <3>1. row[t] \in RowType
      BY <2>1 DEF DeliveryInv, TypeOK
    <3>2. row'[t].status = "uncertain"
      BY <2>1, <3>1, UnclaimedFields DEF Statuses
    <3>3. Stays(t) => row'[t].status = row[t].status
      BY <3>1 DEF Stays, RowType
    <3> QED BY <1>4, <3>2, <3>3
  <2>4. ~Enters(t)
    BY <1>4 DEF Enters, AbsentRow
  <2> QED BY <2>2, <2>3, <2>4 DEF RowMoves
<1>5. ASSUME NEW t \in Stale(s), row[t].status # "in_flight"
      PROVE  ~Ends(t) /\ RowMoves(t) /\ (Stays(t) => AckOK(t)) /\ ~Enters(t)
  <2>1. t \in Target /\ row'[t] = Unclaimed(row[t], "pending", s) /\ row[t].status = "claimed"
    BY <1>3, <1>5 DEF Stale, Recovered
  <2>2. Leaves(t)
    BY <1>1, <2>1 DEF Leaves
  <2> QED BY <2>1, <2>2, Leaving
<1>6. ASSUME NEW t \in Target, t \notin Stale(s)
      PROVE  ~Ends(t) /\ RowMoves(t) /\ (Stays(t) => AckOK(t)) /\ ~Enters(t)
  BY <1>3, <1>6, Untouched
<1>7. \A t \in Target : RowMoves(t) /\ (Stays(t) => AckOK(t)) /\ ~Enters(t)
  BY <1>4, <1>5, <1>6
<1>8. Quiet
  BY <1>2, <1>3, <1>7 DEF Quiet, Busy
<1>9. Receipted
  <2> SUFFICES ASSUME NEW t \in Target
               PROVE  IF Ends(t)
                      THEN \E r : /\ AttemptReceipts(t)' = AttemptReceipts(t) \union {r}
                                  /\ r.seq = row[t].seq
                      ELSE AttemptReceipts(t)' = AttemptReceipts(t)
    BY DEF Receipted
  <2>1. \A u \in Stale(s) : /\ RecoveryReceipt(u).target = u /\ RecoveryReceipt(u).seq = row[u].seq
                            /\ RecoveryReceipt(u).attempted <=> row[u].status = "in_flight"
    BY DEF RecoveryReceipt, Receipt
  <2>2. CASE Ends(t)
    <3>1. t \in Stale(s) /\ row[t].status = "in_flight"
      BY <1>5, <1>6, <2>2
    <3>2. AttemptReceipts(t)' = AttemptReceipts(t) \union {RecoveryReceipt(t)}
      BY <1>3, <2>1, <3>1 DEF AttemptReceipts
    <3> QED BY <2>1, <2>2, <3>1, <3>2
  <2>3. CASE ~Ends(t)
    <3>1. ~(t \in Stale(s) /\ row[t].status = "in_flight")
      BY <1>4, <2>3
    <3>2. AttemptReceipts(t)' = AttemptReceipts(t)
      BY <1>3, <2>1, <3>1 DEF AttemptReceipts
    <3> QED BY <2>3, <3>2
  <2> QED BY <2>2, <2>3
<1>10. EntersWith /\ OneReportPerSlot'
  BY <1>3, <1>7 DEF EntersWith, DeliveryInv, OneReportPerSlot
<1>11. Clocks'
  BY <1>1, <1>2, <1>3, <1>8, QuietClocks DEF Busy
<1> QED BY <1>7, <1>8, <1>9, <1>10, <1>11, QuietKeeps

\* A settlement believes a result that is true.
LEMMA SettleKeeps ==
    ASSUME DeliveryInv, TypeOK', NEW w \in Worker, Settle(w)
    PROVE  DeliveryInv' /\ Calm
<1> DEFINE t == worker[w].target
           result == worker[w].result
           status == SettledStatus(t, result)
           receipt == Receipt(t, TRUE, SettledOutcome(t, result))
<1>1. Busy(w) /\ worker[w].pc = "settle" /\ result \in Results
  BY DEF Settle, Busy, DeliveryInv, TypeOK, WorkersOK
<1>2. /\ t \in Target /\ row \in [Target -> RowType] /\ row[t] \in RowType
      /\ worker[w].pc # "down" /\ now \in Nat /\ worker[w].no \in Nat
  BY <1>1, BusyFacts DEF DeliveryInv, TypeOK
<1>3. PICK s \in ClockReads(w) :
        /\ HoldsClaim(w, "in_flight", s)
        /\ row' = [row EXCEPT ![t] =
             Unclaimed(row[t], status, IF status = "pending" THEN s + RetryDelay(worker[w].no)
                                                        ELSE 0)]
  BY DEF Settle
<1>4. row[t].status = "in_flight" /\ row[t].seq = worker[w].seq
  BY <1>3 DEF HoldsClaim
<1>5. /\ receipts' = receipts \union {receipt}
      /\ worker' = [worker EXCEPT ![w] = Idle(w, "idle", now)]
      /\ UNCHANGED <<now, owner, event, cancelled, attempts, received>>
  BY DEF Settle
<1>6. /\ worker'[w].pc = "idle" /\ worker'[w].at = now
      /\ \A v \in Worker \ {w} : worker'[v] = worker[v]
  BY <1>5, IdleFacts
<1>7. RetryDelay(worker[w].no) \in Nat \ {0}
  <2>1. /\ RetrySchedule \in Seq(Nat \ {0}) /\ Len(RetrySchedule) > 0
        /\ worker[w].no > 0
    BY <1>1, ConstantsAssumption DEF DeliveryInv, TypeOK, WorkersOK
  <2>2. /\ Len(RetrySchedule) \in Nat
        /\ \A i \in 1 .. Len(RetrySchedule) : RetrySchedule[i] \in Nat \ {0}
    BY <2>1
  <2> QED BY <1>2, <2>1, <2>2 DEF RetryDelay
<1>8. s \in Nat
  BY ClockReadsNat DEF DeliveryInv
<1>9. /\ status \in {"pending", "dead_letter", "delivered", "uncertain"}
      /\ status = "pending" => row[t].count < MaxAttempts
      /\ status \in {"pending", "dead_letter"} => result \in {"retryable", "permanent"}
      /\ status = "delivered" => result = "delivered"
  <2>1. row[t].count \in Nat /\ MaxAttempts \in Nat
    BY <1>2, ConstantsAssumption DEF RowType
  <2> QED BY <1>1, <2>1 DEF Results, SettledStatus
<1>10. ASSUME NEW a \in attempts, a.target = t, Current(a)
       PROVE  /\ status \in {"pending", "dead_letter"} => Closed(a)'
              /\ status = "delivered" => Got(a)
              /\ ~Sending(a)'
  <2>1. Holds(w, a) /\ a.seq = worker[w].seq
    BY <1>4, <1>10 DEF Current, Holds
  <2>2. ~Sending(a)'
    <3> SUFFICES ASSUME NEW v \in Worker, worker'[v].pc = "send", Holds(v, a)' PROVE FALSE
      BY DEF Sending
    <3>1. v # w
      BY <1>6
    <3>2. worker'[v] = worker[v] /\ Busy(v)
      BY <1>6, <3>1 DEF Busy
    <3>3. Holds(v, worker[w])
      BY <2>1, <3>2 DEF Holds
    <3> QED BY <1>1, <3>1, <3>2, <3>3 DEF DeliveryInv, Keys
  <2>3. status \in {"pending", "dead_letter"} => ~Got(a)
    BY <1>1, <1>9, <1>10, <2>1 DEF Got, DeliveryInv, Truthful
  <2>4. status = "delivered" => Got(a)
    BY <1>1, <1>9, <1>10, <2>1 DEF Got, DeliveryInv, Truthful
  <2> QED BY <1>5, <2>2, <2>3, <2>4 DEF Closed, Got
<1>11. Ends(t)
  <2> DEFINE due == IF status = "pending" THEN s + RetryDelay(worker[w].no) ELSE 0
  <2>1. due \in Nat /\ (IF status = "pending" THEN due > 0 ELSE due = 0)
    <3>1. s + RetryDelay(worker[w].no) \in Nat /\ s + RetryDelay(worker[w].no) > 0
      BY <1>7, <1>8
    <3> QED BY <3>1
  <2>2. row'[t] = Unclaimed(row[t], status, due)
    BY <1>2, <1>3
  <2> HIDE DEF due, status, t
  <2> QED BY <1>4, <1>9, <1>10, <2>1, <2>2 DEF Ends
<1>12. RowMoves(t) /\ (Stays(t) => AckOK(t)) /\ ~Enters(t)
  <2>1. row'[t] # row[t] /\ row'[t] # [row[t] EXCEPT !.ack = TRUE]
    <3>1. row[t].attempt
      BY <1>2, <1>4 DEF DeliveryInv, RowsOK, RowOK
    <3>2. ~row'[t].attempt
      BY <1>2, <1>11, UnclaimedFields DEF Ends, Statuses
    <3>3. [row[t] EXCEPT !.ack = TRUE].attempt <=> row[t].attempt
      BY <1>2 DEF RowType
    <3> QED BY <3>1, <3>2, <3>3
  <2>2. ~Enters(t)
    BY <1>4 DEF Enters, AbsentRow
  <2> QED BY <1>11, <2>1, <2>2 DEF RowMoves, Stays
<1>13. \A u \in Target \ {t} : row'[u] = row[u]
  BY <1>2, <1>3
<1>14. \A u \in Target : RowMoves(u) /\ (Stays(u) => AckOK(u)) /\ ~Enters(u) /\ (Ends(u) => u = t)
  BY <1>12, <1>13, Untouched
<1> HIDE DEF status
<1>15. Quiet
  BY <1>5, <1>6, <1>14 DEF Quiet, Busy
<1>16. Receipted
  <2>1. receipt.target = t /\ receipt.seq = row[t].seq /\ receipt.attempted
    BY DEF Receipt
  <2>2. \A u \in Target : AttemptReceipts(u)' =
          IF u = t THEN AttemptReceipts(u) \union {receipt} ELSE AttemptReceipts(u)
    BY <1>5, <2>1 DEF AttemptReceipts
  <2> HIDE DEF receipt, t
  <2> QED BY <1>11, <1>14, <2>1, <2>2 DEF Receipted
<1>17. EntersWith /\ OneReportPerSlot'
  BY <1>5, <1>14 DEF EntersWith, DeliveryInv, OneReportPerSlot
<1>18. Clocks'
  BY <1>2, <1>5, <1>15, IdleClocks
<1> QED BY <1>14, <1>15, <1>16, <1>17, <1>18, QuietKeeps

\* A message arrives at most where its transport was started and not used.
Sends ==
    /\ UNCHANGED <<event, row, attempts>>
    /\ \E b \in attempts :
         /\ Sending(b) /\ ~Got(b)
         /\ received' = received \/ received' = received \union {<<b.target, b.seq>>}

\* Sending changes what the recipient has, and nothing the ledger sees.
LEMMA SendKeeps ==
    ASSUME DeliveryInv, TypeOK', NEW w \in Worker, Send(w)
    PROVE  DeliveryInv' /\ Sends
<1> DEFINE t == worker[w].target
           m == <<t, worker[w].seq>>
<1>1. Busy(w) /\ worker[w].pc = "send" /\ worker \in [Worker -> WorkerType]
  BY DEF Send, Busy, DeliveryInv, TypeOK, WorkersOK
<1>2a. PICK result \in Results : \E reached \in Reached(result) :
        /\ worker' = [worker EXCEPT ![w] =
             [worker[w] EXCEPT !.pc = "settle", !.at = now, !.result = result]]
        /\ received' = IF reached THEN received \union {m} ELSE received
  BY DEF Send
<1>2. PICK reached \in Reached(result) :
        /\ worker' = [worker EXCEPT ![w] =
             [worker[w] EXCEPT !.pc = "settle", !.at = now, !.result = result]]
        /\ received' = IF reached THEN received \union {m} ELSE received
  BY <1>2a
<1>3. UNCHANGED <<now, owner, event, cancelled, row, attempts, receipts>>
  BY DEF Send
<1>4. /\ worker'[w].pc = "settle" /\ worker'[w].at = now /\ worker'[w].result = result
      /\ worker'[w].gen = worker[w].gen /\ worker'[w].target = t
      /\ worker'[w].seq = worker[w].seq
      /\ \A v \in Worker \ {w} : worker'[v] = worker[v]
  BY <1>1, <1>2 DEF WorkerType
<1>5. /\ result = "delivered" => m \in received'
      /\ result \in {"retryable", "permanent"} => received' = received
      /\ received' \subseteq received \union {m}
  BY <1>2 DEF Reached, Results
<1> HIDE DEF m
<1>6. PICK b \in attempts : Holds(w, b)
  BY <1>1 DEF DeliveryInv, Started
<1>7. m = <<b.target, b.seq>> /\ m \notin received
  BY <1>1, <1>6 DEF m, Holds, DeliveryInv, Truthful
<1>8. ASSUME NEW a \in attempts
      PROVE  /\ ~Sending(a) => ~Sending(a)'
             /\ Closed(a) => Closed(a)'
             /\ <<a.target, a.seq>> = m => Sending(a)
  <2>1. ~Sending(a) => ~Sending(a)'
    <3> SUFFICES ASSUME NEW v \in Worker, worker'[v].pc = "send", Holds(v, a)' PROVE Sending(a)
      BY DEF Sending
    <3>1. v # w /\ worker'[v] = worker[v]
      BY <1>4
    <3> QED BY <3>1 DEF Sending, Holds
  <2>2. <<a.target, a.seq>> = m => Sending(a)
    BY <1>1 DEF m, Sending, Holds
  <2> QED BY <1>5, <2>1, <2>2 DEF Closed, Got
<1>9. Keys'
  <2>1. \A v \in Worker : /\ Busy(v)' => Busy(v)
                          /\ worker'[v].target = worker[v].target /\ worker'[v].seq = worker[v].seq
    BY <1>1, <1>4 DEF Busy
  <2>2. \A u, v \in Worker : Holds(u, worker[v])' <=> Holds(u, worker[v])
    BY <2>1 DEF Holds
  <2> QED BY <1>3, <2>1, <2>2 DEF DeliveryInv, Keys
<1>10. Started'
  <2>1. \A v \in Worker : \A a \in attempts : Holds(v, a)' <=> Holds(v, a)
    BY <1>4 DEF Holds
  <2>2. \A v \in Worker : worker'[v].pc = "process" => worker[v].pc = "process"
    BY <1>4
  <2>3. \A v \in Worker : worker'[v].pc \in {"send", "settle"} => worker[v].pc \in {"send", "settle"}
    BY <1>1, <1>4
  <2>4. \A x \in received' : \E a \in attempts : x = <<a.target, a.seq>>
    BY <1>5, <1>7 DEF DeliveryInv, Started
  <2> QED BY <1>3, <2>1, <2>2, <2>3, <2>4 DEF DeliveryInv, Started
<1>11. Truthful'
  <2> SUFFICES ASSUME NEW v \in Worker
               PROVE  LET x == <<worker'[v].target, worker'[v].seq>> IN
                      /\ worker'[v].pc = "send" => x \notin received'
                      /\ worker'[v].pc = "settle" /\ worker'[v].result \in {"retryable", "permanent"}
                           => x \notin received'
                      /\ worker'[v].pc = "settle" /\ worker'[v].result = "delivered" => x \in received'
    BY DEF Truthful
  <2>1. CASE v = w
    BY <1>4, <1>5, <1>7, <2>1 DEF m
  <2>2. CASE v # w
    <3>1. worker'[v] = worker[v]
      BY <1>4, <2>2
    <3>2. Busy(v) => <<worker[v].target, worker[v].seq>> # m
      <4>1. Busy(v) => ~Holds(v, worker[w])
        BY <1>1, <2>2 DEF DeliveryInv, Keys
      <4> QED BY <4>1 DEF m, Holds
    <3>3. /\ worker[v].pc = "send" => <<worker[v].target, worker[v].seq>> \notin received
          /\ worker[v].pc = "settle" /\ worker[v].result \in {"retryable", "permanent"}
               => <<worker[v].target, worker[v].seq>> \notin received
          /\ worker[v].pc = "settle" /\ worker[v].result = "delivered"
               => <<worker[v].target, worker[v].seq>> \in received
      BY DEF DeliveryInv, Truthful
    <3>4. received \subseteq received'
      BY <1>2
    <3> QED BY <1>5, <3>1, <3>2, <3>3, <3>4 DEF Busy
  <2> QED BY <2>1, <2>2
<1>12. Rounds'
  BY <1>3, <1>8 DEF DeliveryInv, Rounds
<1>13. InFlight' /\ Evidence' /\ Entered' /\ OneReportPerSlot' /\ RowsOK'
  BY <1>3 DEF DeliveryInv, InFlight, Current, Evidence, About, Open_, Entered, OneReportPerSlot,
              RowsOK
<1>14. Clocks'
  <2>1. now \in Nat /\ worker[w].gen >= 1 /\ now >= 1
    BY <1>1 DEF DeliveryInv, TypeOK, Clocks
  <2> QED BY <1>3, <1>4, <2>1 DEF DeliveryInv, Clocks
<1>15. Sends
  <2>1. received' = received \/ received' = received \union {<<b.target, b.seq>>}
    BY <1>2, <1>7
  <2>2. Sending(b) /\ ~Got(b)
    BY <1>7, <1>8 DEF Got
  <2> QED BY <1>3, <2>1, <2>2 DEF Sends
<1> QED BY <1>9, <1>10, <1>11, <1>12, <1>13, <1>14, <1>15 DEF DeliveryInv

\* The rows claim_next does not hand out expire or stay.
LEMMA ExpireMoves ==
    ASSUME DeliveryInv, NEW s, NEW u \in Target, row'[u] = ExpireRows(s)[u]
    PROVE  /\ RowMoves(u) /\ (Stays(u) => AckOK(u)) /\ ~Ends(u) /\ ~Enters(u)
           /\ row'[u] = row[u] \/ Leaves(u)
<1>1. CASE u \in Overdue(s)
  <2>1. row[u].status = "pending" /\ row'[u] = Unclaimed(row[u], "expired", 0)
    BY <1>1 DEF Overdue, ExpireRows
  <2>2. Leaves(u)
    BY <2>1 DEF Leaves
  <2> QED BY <2>2, Leaving
<1>2. CASE u \notin Overdue(s)
  <2>1. row'[u] = row[u]
    BY <1>2 DEF ExpireRows
  <2> QED BY <2>1, Untouched
<1> QED BY <1>1, <1>2

\* claim_next with nothing due.
LEMMA ClaimNothingKeeps ==
    ASSUME DeliveryInv, TypeOK', NEW w \in Worker, worker[w].pc = "claim",
           row' = ExpireRows(worker[w].at), receipts' = receipts \union ExpireReceipts(worker[w].at),
           worker' = [worker EXCEPT ![w] = Idle(w, "idle", now)],
           UNCHANGED <<now, owner, event, cancelled, attempts, received>>
    PROVE  DeliveryInv' /\ Calm
<1>1. \A u \in Target : RowMoves(u) /\ (Stays(u) => AckOK(u)) /\ ~Ends(u) /\ ~Enters(u)
  BY ExpireMoves
<1>2. Quiet
  BY <1>1, IdleFacts DEF Quiet, Busy
<1>3. Receipted
  <2>1. \A r \in ExpireReceipts(worker[w].at) : ~r.attempted
    BY DEF ExpireReceipts, Receipt
  <2> QED BY <1>1, <2>1, Unattempted
<1>4. EntersWith /\ OneReportPerSlot'
  BY <1>1 DEF EntersWith, DeliveryInv, OneReportPerSlot
<1>5. Clocks'
  BY <1>2, IdleClocks
<1> QED BY <1>1, <1>2, <1>3, <1>4, <1>5, QuietKeeps

\* One target changes hands; whatever else was waiting and due is not more
\* urgent.
Claims ==
    /\ UNCHANGED <<event, attempts, received>>
    /\ \E t \in Target :
         /\ row[t].status = "pending" /\ row'[t].status = "claimed"
         /\ row'[t].replay = row[t].replay
         /\ \A u \in Target \ {t} : row'[u] = row[u] \/ Leaves(u)
         /\ \A u \in Target \ {t} :
              /\ row[u].status = "pending" /\ row'[u].status = "pending"
              /\ row[u].nextAt <= row'[t].claimedAt
              => ~Precedes(u, t)

\* The fields of a row that claim_next hands out.
LEMMA ClaimFields ==
    ASSUME NEW t \in Target, row[t] \in RowType, NEW w \in Worker, NEW s
    PROVE  LET r == ClaimRow(w, t, s) IN
           /\ r.status = "claimed" /\ r.seq = row[t].seq + 1 /\ r.nextAt = 0
           /\ r.claimGen = worker[w].gen /\ r.claimedAt = s
           /\ r.leaseUntil = s + ClaimTerm /\ r.count = row[t].count
           /\ r.replay = row[t].replay
           /\ r.attempt <=> row[t].attempt
           /\ r.ack <=> row[t].ack
BY DEF ClaimRow, RowType

LEMMA RowNumbers ==
    ASSUME NEW r \in RowType
    PROVE  /\ r.seq \in Nat /\ r.count \in Nat /\ r.replay \in Nat /\ r.claimedAt \in Nat
           /\ r.leaseUntil \in Nat /\ r.claimGen \in Nat
BY DEF RowType

\* claim_next hands out a target under a new lease sequence.
LEMMA ClaimTargetKeeps ==
    ASSUME DeliveryInv, TypeOK', NEW w \in Worker, worker[w].pc = "claim",
           NEW t \in First(Due(worker[w].at)),
           row' = [ExpireRows(worker[w].at) EXCEPT ![t] = ClaimRow(w, t, worker[w].at)],
           receipts' = receipts \union ExpireReceipts(worker[w].at),
           worker' = [worker EXCEPT ![w] =
             [worker[w] EXCEPT !.pc = "process", !.at = now, !.target = t,
                               !.seq = row'[t].seq, !.no = row[t].count + 1]],
           UNCHANGED <<now, owner, event, cancelled, attempts, received>>
    PROVE  DeliveryInv' /\ Claims
<1> DEFINE s == worker[w].at
<1>1. /\ t \in Target /\ row[t] \in RowType /\ RowOK(row[t])
      /\ row[t].status = "pending" /\ row[t].count < MaxAttempts
  BY DEF First, Due, DeliveryInv, TypeOK, RowsOK
<1>2. /\ s \in Nat /\ s >= 1 /\ s <= now /\ now \in Nat /\ worker[w].gen \in Nat
      /\ worker[w].gen >= 1 /\ worker \in [Worker -> WorkerType]
  <2>1. worker[w] \in WorkerType /\ worker \in [Worker -> WorkerType]
    BY DEF DeliveryInv, TypeOK, WorkersOK
  <2> QED BY <2>1 DEF WorkerType, DeliveryInv, TypeOK, Clocks
<1>3. row[t].seq \in Nat /\ row[t].count \in Nat /\ ClaimTerm \in Nat /\ ClaimTerm > 0
  <2>1. ClaimTerm \in Nat /\ ClaimTerm > 0
    BY ConstantsAssumption
  <2> QED BY <1>1, <2>1, RowNumbers
<1>4. row'[t] = ClaimRow(w, t, s)
  <2>1. t \in DOMAIN ExpireRows(s)
    BY <1>1 DEF ExpireRows
  <2> QED BY <2>1
<1>5. /\ row'[t].status = "claimed" /\ row'[t].seq = row[t].seq + 1 /\ row'[t].nextAt = 0
      /\ row'[t].claimGen = worker[w].gen /\ row'[t].claimedAt = s
      /\ row'[t].leaseUntil = s + ClaimTerm /\ row'[t].count = row[t].count
      /\ row'[t].replay = row[t].replay
      /\ row'[t].attempt <=> row[t].attempt
      /\ row'[t].ack <=> row[t].ack
  BY <1>1, <1>4, ClaimFields
<1>6. ~row[t].attempt /\ ~row[t].ack
  BY <1>1 DEF RowOK
<1>7. ASSUME NEW u \in Target \ {t}
      PROVE  /\ RowMoves(u) /\ (Stays(u) => AckOK(u)) /\ ~Ends(u)
             /\ row'[u] = row[u] \/ Leaves(u)
  <2>1. row'[u] = ExpireRows(s)[u]
    BY DEF ExpireRows
  <2> QED BY <2>1, ExpireMoves
<1>8. /\ worker'[w].pc = "process" /\ worker'[w].at = now /\ worker'[w].target = t
      /\ worker'[w].seq = row[t].seq + 1 /\ worker'[w].gen = worker[w].gen
      /\ \A v \in Worker \ {w} : worker'[v] = worker[v]
  BY <1>2, <1>5 DEF WorkerType
<1> HIDE DEF s
<1>9. \A v \in Worker : Busy(v) => /\ worker[v].target \in Target /\ worker[v].seq \in Nat
                                   /\ worker[v].seq <= row[worker[v].target].seq
  BY BusyFacts DEF DeliveryInv, Keys
<1>10. ~Busy(w)
  BY DEF Busy
<1>11. \A u \in Target \ {t} : row'[u].seq = row[u].seq /\ row'[u].replay = row[u].replay
  <2> TAKE u \in Target \ {t}
  <2>1. row[u] \in RowType
    BY DEF DeliveryInv, TypeOK
  <2> QED BY <1>7, <2>1, UnclaimedFields DEF Leaves, Statuses
<1>12. RowsOK'
  <2>1. RowOK(row'[t])
    <3>1. s + ClaimTerm > s
      BY <1>2, <1>3
    <3>2. row[t].count <= MaxAttempts
      BY <1>1 DEF RowOK
    <3> QED BY <1>1, <1>2, <1>5, <1>6, <3>1, <3>2 DEF RowOK
  <2>2. \A u \in Target \ {t} : RowOK(row'[u])
    BY <1>7, MoveKeepsRow
  <2> QED BY <2>1, <2>2 DEF RowsOK
<1>13. Clocks'
  <2>1. ASSUME NEW v \in Worker, worker'[v].pc = "process",
               worker'[v].seq = row'[worker'[v].target].seq
        PROVE  row'[worker'[v].target].claimedAt <= worker'[v].at
    <3>1. CASE v = w
      BY <1>2, <1>5, <1>8, <3>1
    <3>2. CASE v # w
      <4>1. worker'[v] = worker[v] /\ Busy(v)
        BY <1>8, <2>1, <3>2 DEF Busy
      <4>2. worker[v].target # t
        <5>1. worker[v].seq \in Nat /\ worker[v].seq <= row[worker[v].target].seq
          BY <1>9, <4>1
        <5>2. worker[v].seq = row'[worker[v].target].seq
          BY <2>1, <4>1
        <5> QED BY <1>3, <1>5, <5>1, <5>2
      <4>3. worker[v].target \in Target \ {t}
        BY <1>9, <4>1, <4>2
      <4>4. row[worker[v].target].claimedAt <= worker[v].at
        BY <1>11, <2>1, <4>1, <4>3 DEF DeliveryInv, Clocks
      <4>5. row'[worker[v].target].claimedAt <= row[worker[v].target].claimedAt
        BY <1>7, <4>3, MoveFields
      <4>6. /\ row[worker[v].target].claimedAt \in Nat /\ row'[worker[v].target].claimedAt \in Nat
            /\ worker[v].at \in Nat
        <5>1. row[worker[v].target] \in RowType /\ row'[worker[v].target] \in RowType
          BY <4>3 DEF DeliveryInv, TypeOK
        <5> QED BY <4>1, <5>1, BusyFacts, RowNumbers
      <4>7. row'[worker[v].target].claimedAt <= worker[v].at
        BY <4>4, <4>5, <4>6
      <4> QED BY <4>1, <4>7
    <3> QED BY <3>1, <3>2
  <2> QED BY <1>2, <1>8, <2>1 DEF DeliveryInv, Clocks
<1>14. Entered'
  <2>1. \A u \in Target : row[u].status = "pending" => event[EventOf[u]] # NoEvent
    BY DEF DeliveryInv, Entered, AbsentRow
  <2>2. \A u \in Target \ {t} : /\ row'[u] = row[u]
                                \/ /\ event[EventOf[u]] # NoEvent
                                   /\ row'[u].status # "absent"
    <3> TAKE u \in Target \ {t}
    <3>1. row[u] \in RowType
      BY DEF DeliveryInv, TypeOK
    <3>2. Leaves(u) => row[u].status # "absent" /\ row'[u].status # "absent"
      BY <3>1, UnclaimedFields DEF Leaves, Statuses
    <3>3. row[u].status # "absent" => event[EventOf[u]] # NoEvent
      BY DEF DeliveryInv, Entered, AbsentRow
    <3> QED BY <1>7, <3>2, <3>3
  <2> QED BY <1>1, <1>5, <2>1, <2>2 DEF DeliveryInv, Entered
<1>15. \A a \in attempts : /\ a.seq <= row[a.target].seq /\ a.replay <= row[a.target].replay
                           /\ a.seq \in Nat /\ a.target \in Target
  BY AttemptFacts DEF DeliveryInv, Keys
<1>16. Keys'
  <2>1. \A v \in Worker : Busy(v)' => worker'[v].seq <= row'[worker'[v].target].seq
    <3> TAKE v \in Worker
    <3>1. CASE v = w
      BY <1>3, <1>5, <1>8, <3>1
    <3>2. CASE v # w
      BY <1>3, <1>5, <1>8, <1>9, <1>11, <3>2 DEF Busy
    <3> QED BY <3>1, <3>2
  <2>2. ASSUME NEW v \in Worker, NEW u \in Worker, Busy(v)', Busy(u)', Holds(v, worker[u])', u # v
        PROVE  FALSE
    <3>1. worker'[v].target = worker'[u].target /\ worker'[v].seq = worker'[u].seq
      BY <2>2 DEF Holds
    <3>2. CASE u = w
      BY <1>3, <1>8, <1>9, <2>2, <3>1, <3>2 DEF Busy
    <3>3. CASE v = w
      BY <1>3, <1>8, <1>9, <2>2, <3>1, <3>3 DEF Busy
    <3>4. CASE u # w /\ v # w
      BY <1>8, <2>2, <3>1, <3>4 DEF Busy, DeliveryInv, Keys, Holds
    <3> QED BY <3>2, <3>3, <3>4
  <2>3. \A a \in attempts : a.seq <= row'[a.target].seq /\ a.replay <= row'[a.target].replay
    BY <1>3, <1>5, <1>11, <1>15
  <2> QED BY <2>1, <2>2, <2>3 DEF DeliveryInv, Keys
<1>17. Started'
  <2>1. \A a \in attempts : ~Holds(w, a)'
    BY <1>3, <1>8, <1>15 DEF Holds
  <2> QED BY <1>8, <2>1 DEF DeliveryInv, Started, Holds
<1>18. Truthful'
  BY <1>8 DEF DeliveryInv, Truthful
<1>19. \A a \in attempts : (Sending(a)' <=> Sending(a)) /\ (Closed(a)' <=> Closed(a))
  <2>1. \A a \in attempts : Sending(a)' <=> Sending(a)
    BY <1>8 DEF Sending, Holds
  <2> QED BY <2>1 DEF Closed, Got
<1>20. Rounds'
  <2>1. ASSUME NEW a \in attempts, a.replay = row'[a.target].replay
        PROVE  /\ row'[a.target].status \notin {"in_flight", "delivered", "uncertain"} => Closed(a)
               /\ row'[a.target].status = "delivered" => ~Sending(a)
    <3>1. a.replay = row[a.target].replay
      BY <1>5, <1>11, <1>15, <2>1
    <3>2. \/ row'[a.target] = row[a.target]
          \/ row[a.target].status \in {"pending", "claimed"}
      BY <1>1, <1>7, <1>15 DEF Leaves
    <3> QED BY <3>1, <3>2 DEF DeliveryInv, Rounds, Closed
  <2> QED BY <1>19, <2>1 DEF DeliveryInv, Rounds
<1>21. InFlight'
  <2> SUFFICES ASSUME NEW u \in Target, row'[u].status = "in_flight"
               PROVE  \E a \in attempts : a.target = u /\ Current(a)'
    BY DEF InFlight
  <2>1. u # t
    BY <1>5
  <2>2. row'[u] = row[u]
    <3>1. row[u] \in RowType
      BY DEF DeliveryInv, TypeOK
    <3>2. Leaves(u) => row'[u].status # "in_flight"
      BY <3>1, UnclaimedFields DEF Leaves, Statuses
    <3> QED BY <1>7, <2>1, <3>2
  <2> QED BY <2>2 DEF DeliveryInv, InFlight, Current
<1>22. Evidence'
  <2>1. \A r \in ExpireReceipts(s) : ~r.attempted
    BY DEF ExpireReceipts, Receipt
  <2>2. \A a \in attempts : About(a)' = About(a)
    BY <2>1 DEF About, s
  <2>3. \A u \in Target \ {t} : row'[u].attempt <=> row[u].attempt
    BY <1>7, MoveFields
  <2>4. \A a \in attempts : Open_(a)' <=> Open_(a)
    BY <1>5, <1>6, <1>11, <1>15, <2>3 DEF Open_
  <2>5. \A r \in receipts' : r.attempted => r \in receipts
    BY <2>1 DEF s
  <2> QED BY <2>2, <2>4, <2>5 DEF DeliveryInv, Evidence
<1>23. OneReportPerSlot'
  BY DEF DeliveryInv, OneReportPerSlot
<1>24. ASSUME NEW u \in Target \ {t}, row[u].status = "pending", row'[u].status = "pending",
              row[u].nextAt <= row'[t].claimedAt
       PROVE  ~Precedes(u, t)
  <2>1. row[u] \in RowType /\ RowOK(row[u]) /\ event[EventOf[u]].expires \in Nat
    BY ConstantsAssumption DEF DeliveryInv, TypeOK, RowsOK
  <2>2. row[u].count < MaxAttempts
    BY <1>24, <2>1 DEF RowOK
  <2>3. u \notin Overdue(worker[w].at)
    <3>1. Unclaimed(row[u], "expired", 0).status = "expired"
      BY <2>1, UnclaimedFields DEF Statuses
    <3>2. row'[u] = ExpireRows(worker[w].at)[u]
      BY DEF ExpireRows
    <3> QED BY <1>24, <3>1, <3>2 DEF ExpireRows
  <2>4. u \in Due(worker[w].at)
    BY <1>2, <1>5, <1>24, <2>1, <2>2, <2>3 DEF Overdue, Due, s
  <2> QED BY <2>4 DEF First
<1>25. Claims
  BY <1>1, <1>5, <1>7, <1>24 DEF Claims
<1> QED BY <1>12, <1>13, <1>14, <1>16, <1>17, <1>18, <1>20, <1>21, <1>22, <1>23, <1>25 DEF DeliveryInv

LEMMA ClaimKeeps ==
    ASSUME DeliveryInv, TypeOK', NEW w \in Worker, ClaimNext(w)
    PROVE  DeliveryInv' /\ (Calm \/ Claims)
<1>1. CASE Due(worker[w].at) = {} /\ row' = ExpireRows(worker[w].at)
           /\ worker' = [worker EXCEPT ![w] = Idle(w, "idle", now)]
  BY <1>1, ClaimNothingKeeps DEF ClaimNext
<1>2. CASE \E t \in First(Due(worker[w].at)) :
             /\ row' = [ExpireRows(worker[w].at) EXCEPT ![t] = ClaimRow(w, t, worker[w].at)]
             /\ worker' = [worker EXCEPT ![w] =
                  [worker[w] EXCEPT !.pc = "process", !.at = now, !.target = t,
                                    !.seq = row'[t].seq, !.no = row[t].count + 1]]
  <2>1. PICK t \in First(Due(worker[w].at)) :
             /\ row' = [ExpireRows(worker[w].at) EXCEPT ![t] = ClaimRow(w, t, worker[w].at)]
             /\ worker' = [worker EXCEPT ![w] =
                  [worker[w] EXCEPT !.pc = "process", !.at = now, !.target = t,
                                    !.seq = row'[t].seq, !.no = row[t].count + 1]]
    BY <1>2
  <2> QED BY <2>1, ClaimTargetKeeps DEF ClaimNext
<1> QED BY <1>1, <1>2 DEF ClaimNext

\* One attempt is started, at a target that is claimed, under a key nobody
\* has received anything under, and not against a cancellation.
Starts ==
    /\ UNCHANGED <<event, received>>
    /\ \E b :
         /\ attempts' = attempts \union {b} /\ b.target \in Target
         /\ <<b.target, b.seq>> \notin received
         /\ row[b.target].status = "claimed" /\ row'[b.target].status = "in_flight"
         /\ row'[b.target].replay = row[b.target].replay
         /\ EventOf[b.target] \notin cancelled
         /\ \A u \in Target \ {b.target} : row'[u] = row[u]

\* start_transport_attempt makes the attempt durable before anything is sent.
LEMMA StartKeeps ==
    ASSUME DeliveryInv, TypeOK', NEW w \in Worker, worker[w].pc = "process",
           NEW s \in ClockReads(w), BeginStarted(w, s),
           UNCHANGED <<now, owner, event, cancelled, received>>
    PROVE  DeliveryInv' /\ Starts
<1> DEFINE t == worker[w].target
<1>0. PICK b : b = Attempt(w, s)
  OBVIOUS
<1>1. Busy(w) /\ worker \in [Worker -> WorkerType]
  BY DEF Busy, DeliveryInv, TypeOK, WorkersOK
<1>2. /\ t \in Target /\ row[t] \in RowType /\ RowOK(row[t])
      /\ worker[w].seq \in Nat /\ worker[w].at \in Nat /\ now \in Nat
      /\ worker[w].at >= 1 /\ now >= 1 /\ worker[w].gen >= 1
  BY <1>1, BusyFacts DEF DeliveryInv, RowsOK, Clocks
<1>3. /\ row[t].status = "claimed" /\ row[t].claimGen = worker[w].gen
      /\ row[t].seq = worker[w].seq /\ row[t].leaseUntil > s
      /\ row[t].count + 1 = worker[w].no /\ row[t].count < MaxAttempts
  BY DEF BeginStarted, MayStart, HoldsClaim
<1>4. s \in Nat /\ s >= worker[w].at
  <2>1. s \in worker[w].at .. now
    BY DEF ClockReads
  <2>2. worker[w].at \in Nat /\ now \in Nat
    BY <1>2
  <2> QED BY <2>1, <2>2
<1>5. /\ row[t].count \in Nat /\ row[t].claimedAt \in Nat /\ row[t].seq \in Nat
      /\ row[t].claimedAt <= s
      /\ ClaimTerm \in Nat /\ ClaimTerm > 0 /\ MaxAttempts \in Nat
  <2>1. ClaimTerm \in Nat /\ ClaimTerm > 0 /\ MaxAttempts \in Nat
    BY ConstantsAssumption
  <2>2. row[t].claimedAt <= worker[w].at
    BY <1>3 DEF DeliveryInv, Clocks
  <2>3. row[t].count \in Nat /\ row[t].claimedAt \in Nat /\ row[t].seq \in Nat
    BY <1>2, RowNumbers
  <2> QED BY <1>2, <1>4, <2>1, <2>2, <2>3
<1>6. /\ row'[t] = [row[t] EXCEPT !.status = "in_flight", !.count = row[t].count + 1,
                                  !.attempt = TRUE, !.leaseUntil = s + ClaimTerm]
      /\ \A u \in Target \ {t} : row'[u] = row[u]
  BY <1>2 DEF BeginStarted, DeliveryInv, TypeOK
<1>7. /\ row'[t].status = "in_flight" /\ row'[t].count = row[t].count + 1
      /\ row'[t].leaseUntil = s + ClaimTerm /\ row'[t].seq = row[t].seq
      /\ row'[t].replay = row[t].replay /\ row'[t].claimGen = row[t].claimGen
      /\ row'[t].claimedAt = row[t].claimedAt /\ row'[t].nextAt = row[t].nextAt
      /\ row'[t].attempt
      /\ row'[t].ack <=> row[t].ack
  BY <1>2, <1>6 DEF RowType
<1>8. /\ ~row[t].attempt /\ ~row[t].ack /\ row[t].nextAt = 0 /\ row[t].claimGen > 0
  BY <1>2, <1>3 DEF RowOK
<1>9. /\ b.target = t /\ b.seq = row[t].seq /\ b.gen = row[t].claimGen
      /\ b.replay = row[t].replay /\ b.no = row[t].count + 1 /\ b.startedAt = s
  BY <1>0, <1>3 DEF Attempt
<1>10. attempts' = attempts \union {b} /\ receipts' = receipts
  BY <1>0 DEF BeginStarted
<1>11. /\ worker'[w].pc = "send" /\ worker'[w].at = now /\ worker'[w].target = t
       /\ worker'[w].seq = row[t].seq /\ worker'[w].gen = worker[w].gen
       /\ \A v \in Worker \ {w} : worker'[v] = worker[v]
  <2>1. worker' = [worker EXCEPT ![w] = [worker[w] EXCEPT !.pc = "send", !.at = now]]
    BY DEF BeginStarted
  <2> QED BY <1>1, <1>3, <2>1 DEF WorkerType
<1>12. \A a \in attempts : /\ ~(a.target = t /\ a.seq = row[t].seq)
                           /\ a.target \in Target /\ a.seq \in Nat
                           /\ a.seq <= row[a.target].seq /\ a.replay <= row[a.target].replay
  <2>1. \A a \in attempts : ~(a.target = t /\ a.seq = row[t].seq)
    BY <1>3 DEF DeliveryInv, Started, Holds
  <2> QED BY <2>1, AttemptFacts DEF DeliveryInv, Keys
<1>13. RowsOK'
  <2>1. RowOK(row'[t])
    <3>1. s + ClaimTerm > row[t].claimedAt /\ row[t].count + 1 <= MaxAttempts
          /\ row[t].count + 1 > 0
      BY <1>3, <1>4, <1>5
    <3> QED BY <1>7, <1>8, <3>1 DEF RowOK
  <2> QED BY <1>6, <2>1 DEF RowsOK, DeliveryInv
<1>14. \A u \in Target : /\ row'[u].seq = row[u].seq /\ row'[u].replay = row[u].replay
                         /\ row'[u].claimedAt = row[u].claimedAt
  BY <1>6, <1>7
<1>15. \A v \in Worker : /\ worker'[v].target = worker[v].target
                         /\ worker'[v].seq = worker[v].seq
                         /\ Busy(v)' <=> Busy(v)
                         /\ worker'[v].pc = "process" => v # w
  BY <1>1, <1>3, <1>11 DEF Busy
<1>16. \A v \in Worker : Busy(v) => worker[v].target \in Target
  BY BusyFacts
<1>17. Clocks'
  <2>1. ASSUME NEW v \in Worker, worker'[v].pc = "process",
               worker'[v].seq = row'[worker'[v].target].seq
        PROVE  row'[worker'[v].target].claimedAt <= worker'[v].at
    <3>1. v # w /\ worker'[v] = worker[v] /\ Busy(v) /\ worker[v].pc = "process"
      BY <1>11, <1>15, <2>1 DEF Busy
    <3>2. worker[v].target \in Target /\ worker[v].seq = row[worker[v].target].seq
      BY <1>14, <1>16, <2>1, <3>1
    <3>3. row[worker[v].target].claimedAt <= worker[v].at
      BY <3>1, <3>2 DEF DeliveryInv, Clocks
    <3> QED BY <1>14, <3>1, <3>2, <3>3
  <2> QED BY <1>2, <1>11, <2>1 DEF DeliveryInv, Clocks
<1>18. Entered'
  <2>1. event[EventOf[t]] # NoEvent
    BY <1>2, <1>3 DEF DeliveryInv, Entered, AbsentRow
  <2> QED BY <1>6, <1>7, <2>1 DEF DeliveryInv, Entered
<1>19. Keys'
  <2>1. \A v \in Worker : Busy(v)' => worker'[v].seq <= row'[worker'[v].target].seq
    BY <1>14, <1>15, <1>16 DEF DeliveryInv, Keys
  <2>2. \A u, v \in Worker : Busy(u)' /\ Busy(v)' /\ Holds(u, worker[v])' => u = v
    BY <1>15 DEF DeliveryInv, Keys, Holds
  <2>3. \A a \in attempts' : a.seq <= row'[a.target].seq /\ a.replay <= row'[a.target].replay
    <3>1. row[t].seq <= row[t].seq /\ row[t].replay <= row[t].replay
      BY <1>2, RowNumbers
    <3> QED BY <1>2, <1>9, <1>10, <1>12, <1>14, <3>1
  <2>4. \A a, c \in attempts' : a.target = c.target /\ a.seq = c.seq => a = c
    BY <1>9, <1>10, <1>12 DEF DeliveryInv, Keys
  <2> QED BY <2>1, <2>2, <2>3, <2>4 DEF Keys
<1>20. \A v \in Worker \ {w} : Busy(v) => ~(worker[v].target = t /\ worker[v].seq = row[t].seq)
  BY <1>1, <1>3 DEF DeliveryInv, Keys, Holds
<1>21. Started'
  <2>1. \A v \in Worker : worker'[v].pc = "process" => ~\E a \in attempts' : Holds(v, a)'
    <3> SUFFICES ASSUME NEW v \in Worker, worker'[v].pc = "process",
                        NEW a \in attempts', Holds(v, a)'
                 PROVE  FALSE
      OBVIOUS
    <3>1. v # w /\ worker'[v] = worker[v] /\ Busy(v)
      BY <1>11, <1>15 DEF Busy
    <3>2. a # b
      BY <1>9, <1>20, <3>1 DEF Holds
    <3> QED BY <1>10, <3>1, <3>2 DEF DeliveryInv, Started, Holds
  <2>2. \A v \in Worker : worker'[v].pc \in {"send", "settle"} => \E a \in attempts' : Holds(v, a)'
    <3> TAKE v \in Worker
    <3>1. CASE v = w
      BY <1>9, <1>10, <1>11, <3>1 DEF Holds
    <3>2. CASE v # w
      BY <1>10, <1>11, <3>2 DEF Holds, DeliveryInv, Started
    <3> QED BY <3>1, <3>2
  <2> QED BY <1>10, <2>1, <2>2 DEF DeliveryInv, Started
<1>22. <<t, row[t].seq>> \notin received
  BY <1>12 DEF DeliveryInv, Started
<1>23. Truthful'
  BY <1>11, <1>22 DEF DeliveryInv, Truthful
<1>24. \A a \in attempts : (Sending(a)' <=> Sending(a)) /\ (Closed(a)' <=> Closed(a))
  <2>1. \A a \in attempts : Sending(a)' <=> Sending(a)
    <3> TAKE a \in attempts
    <3>1. ~Holds(w, a)' /\ ~Holds(w, a)
      BY <1>3, <1>11, <1>12 DEF Holds
    <3> QED BY <1>11, <3>1 DEF Sending, Holds
  <2> QED BY <2>1 DEF Closed, Got
<1>25. Rounds'
  <2>1. ASSUME NEW a \in attempts', NEW c \in attempts', a.target = c.target,
               a.replay = c.replay, a.seq < c.seq
        PROVE  Closed(a)'
    <3>1. a \in attempts
      <4>1. c.seq <= row[c.target].seq /\ c.seq \in Nat
        BY <1>5, <1>9, <1>10, <1>12
      <4> QED BY <1>5, <1>9, <1>10, <2>1, <4>1
    <3>2. CASE c \in attempts
      BY <1>24, <2>1, <3>1, <3>2 DEF DeliveryInv, Rounds
    <3>3. CASE c = b
      <4>1. a.target = t /\ a.replay = row[t].replay
        BY <1>9, <2>1, <3>3
      <4>2. Closed(a)
        BY <1>3, <3>1, <4>1 DEF DeliveryInv, Rounds
      <4> QED BY <1>24, <3>1, <4>2
    <3> QED BY <1>10, <3>2, <3>3
  <2>2. ASSUME NEW a \in attempts', a.replay = row'[a.target].replay
        PROVE  /\ row'[a.target].status \notin {"in_flight", "delivered", "uncertain"} => Closed(a)'
               /\ row'[a.target].status = "delivered" => ~Sending(a)'
    <3>1. CASE a.target = t
      BY <1>7, <3>1
    <3>2. CASE a.target # t
      <4>1. a \in attempts /\ a.target \in Target
        BY <1>9, <1>10, <1>12, <3>2
      <4>2. row'[a.target] = row[a.target]
        BY <1>6, <3>2, <4>1
      <4> QED BY <1>24, <2>2, <4>1, <4>2 DEF DeliveryInv, Rounds
    <3> QED BY <3>1, <3>2
  <2> QED BY <2>1, <2>2 DEF Rounds
<1>26. InFlight'
  <2> SUFFICES ASSUME NEW u \in Target, row'[u].status = "in_flight"
               PROVE  \E a \in attempts' : a.target = u /\ Current(a)'
    BY DEF InFlight
  <2>1. CASE u = t
    <3>1. s >= row[t].claimedAt /\ s < s + ClaimTerm
      BY <1>4, <1>5
    <3>2. Current(b)'
      BY <1>7, <1>9, <3>1 DEF Current
    <3> QED BY <1>9, <1>10, <2>1, <3>2
  <2>2. CASE u # t
    BY <1>6, <1>10, <2>2 DEF DeliveryInv, InFlight, Current
  <2> QED BY <2>1, <2>2
<1>27. Evidence'
  <2>1. \A a \in attempts' : About(a)' = About(a)
    BY <1>10 DEF About
  <2>2. About(b) = {} /\ Open_(b)'
    <3>1. About(b) = {}
      BY <1>9, <1>12 DEF About, DeliveryInv, Evidence
    <3> QED BY <1>7, <1>9, <3>1 DEF Open_
  <2>3. \A a \in attempts : Open_(a)' <=> Open_(a)
    <3> TAKE a \in attempts
    <3>1. CASE a.target = t
      BY <1>7, <1>8, <1>12, <3>1 DEF Open_
    <3>2. CASE a.target # t
      <4>1. row'[a.target] = row[a.target]
        BY <1>6, <1>12, <3>2
      <4> QED BY <4>1 DEF Open_
    <3> QED BY <3>1, <3>2
  <2>4. \A a \in attempts' : IF Open_(a)' THEN About(a)' = {}
                                          ELSE \E r \in receipts' : About(a)' = {r}
    BY <1>10, <2>1, <2>2, <2>3 DEF DeliveryInv, Evidence
  <2> QED BY <1>10, <2>4 DEF DeliveryInv, Evidence
<1>28. OneReportPerSlot'
  BY DEF DeliveryInv, OneReportPerSlot
<1>29. Starts
  <2>1. EventOf[t] \notin cancelled
    BY DEF BeginStarted, MayStart
  <2>2. /\ attempts' = attempts \union {b} /\ b.target \in Target
        /\ <<b.target, b.seq>> \notin received
        /\ row[b.target].status = "claimed" /\ row'[b.target].status = "in_flight"
        /\ row'[b.target].replay = row[b.target].replay
        /\ EventOf[b.target] \notin cancelled
        /\ \A u \in Target \ {b.target} : row'[u] = row[u]
    <3>1. b.target = t /\ b.seq = row[t].seq
      BY <1>9
    <3> QED BY <1>2, <1>3, <1>6, <1>7, <1>10, <1>22, <2>1, <3>1
  <2> QED BY <2>2 DEF Starts
<1> QED BY <1>13, <1>17, <1>18, <1>19, <1>21, <1>23, <1>25, <1>26, <1>27, <1>28, <1>29 DEF DeliveryInv

LEMMA BeginKeeps ==
    ASSUME DeliveryInv, TypeOK', NEW w \in Worker, BeginTransport(w)
    PROVE  DeliveryInv' /\ (Calm \/ Starts)
<1>1. PICK s \in ClockReads(w) : BeginWithdrawn(w) \/ BeginTerminal(w, s) \/ BeginStarted(w, s)
  BY DEF BeginTransport
<1>2. /\ worker[w].pc = "process" /\ Busy(w)
      /\ UNCHANGED <<now, owner, event, cancelled, received>>
  BY DEF BeginTransport, Busy
<1> QED BY <1>1, <1>2, WithdrawnKeeps, TerminalKeeps, StartKeeps

-----------------------------------------------------------------------------
(* The invariant *)

LEMMA InitInv == Init => DeliveryInv
<1> SUFFICES ASSUME Init PROVE DeliveryInv
  OBVIOUS
<1>1. TypeOK
  BY TypeInit
<1>2. /\ attempts = {} /\ receipts = {} /\ received = {} /\ now = 1
      /\ \A w \in Worker : worker[w] = Down
      /\ \A t \in Target : row[t] = AbsentRow
      /\ \A e \in Event : event[e] = NoEvent
      /\ ~owner.active
  BY DEF Init, NoLease
<1>3. \A w \in Worker : worker[w].pc = "down" /\ worker[w].at = 0
  BY <1>2 DEF Down
<1>4. RowsOK
  BY <1>2, ConstantsAssumption DEF RowsOK, RowOK, AbsentRow
<1>5. Clocks /\ Keys /\ Started /\ Truthful
  BY <1>2, <1>3 DEF Clocks, Keys, Started, Truthful, Busy
<1>6. Rounds /\ InFlight /\ Evidence /\ OneReportPerSlot
  BY <1>2 DEF Rounds, InFlight, Evidence, OneReportPerSlot, AbsentRow
<1>7. Entered
  BY <1>2, ConstantsAssumption DEF Entered
<1> QED BY <1>1, <1>4, <1>5, <1>6, <1>7 DEF DeliveryInv

LEMMA TypeStep ==
    ASSUME TypeOK, [Next]_vars PROVE TypeOK'
<1>w. worker' = worker => WorkersOK'
  BY DEF TypeOK, WorkersOK, Busy
<1>1. CASE Tick
  BY <1>1, <1>w DEF Tick, TypeOK
<1>2. CASE CoreStep
  BY <1>2, TypeCore
<1>3. CASE OperatorStep
  BY <1>3, TypeOperator
<1>4. ASSUME NEW w \in Worker, WorkerStep(w)
      PROVE  TypeOK'
  BY <1>4, TypeLease, TypeRecover, TypeClaim, TypeReject, TypeBegin, TypeSend, TypeSettle
     DEF WorkerStep
<1>5. CASE UNCHANGED vars
  BY <1>5, <1>w DEF vars, TypeOK
<1> QED BY <1>1, <1>2, <1>3, <1>4, <1>5 DEF Next

\* Every step keeps the invariant, and is one of four kinds.
LEMMA Steps ==
    ASSUME DeliveryInv, [Next]_vars
    PROVE  DeliveryInv' /\ (Calm \/ Claims \/ Starts \/ Sends)
<1>0. TypeOK'
  BY TypeStep DEF DeliveryInv
<1>1. CASE Tick
  BY <1>0, <1>1, TickKeeps
<1>2. CASE CoreStep
  BY <1>0, <1>2, CoreKeeps
<1>3. CASE OperatorStep
  BY <1>0, <1>3, OperatorKeeps
<1>4. ASSUME NEW w \in Worker, WorkerStep(w)
      PROVE  DeliveryInv' /\ (Calm \/ Claims \/ Starts \/ Sends)
  BY <1>0, <1>4, LeaseKeeps, RecoverKeeps, ClaimKeeps, RejectKeeps, BeginKeeps, SendKeeps,
     SettleKeeps DEF WorkerStep
<1>5. CASE UNCHANGED vars
  <2>1. /\ UNCHANGED <<event, row, attempts, receipts, received>> /\ now' = now
        /\ owner' = owner /\ worker' = worker
    BY <1>5 DEF vars
  <2>2. now \in Nat /\ (owner.active => owner.gen >= 1)
    BY DEF DeliveryInv, TypeOK, Clocks
  <2> QED BY <1>0, <2>1, <2>2, StillKeeps
<1> QED BY <1>1, <1>2, <1>3, <1>4, <1>5 DEF Next

\* The inductive invariant behind the theorems below: claim keys identify
\* workers and attempts, results are true, and in a round only the last
\* attempt can have arrived.
THEOREM DeliveryInvariant == Spec => []DeliveryInv
<1>1. DeliveryInv /\ [Next]_vars => DeliveryInv'
  BY Steps
<1> QED BY <1>1, InitInv, PTL DEF Spec

-----------------------------------------------------------------------------
(* What it implies *)

\* No transaction of the ledger is ever refused by a CHECK constraint of
\* notification_targets, whatever the workers' crashes and delays.
THEOREM ChecksNeverFail == Spec => []SchemaChecks
<1>1. DeliveryInv => SchemaChecks
  BY DEF DeliveryInv, RowsOK, RowOK, SchemaChecks
<1> QED BY <1>1, DeliveryInvariant, PTL

\* Two attempts of one round never both reach the recipient: the earlier one
\* is closed before the later can exist.
THEOREM SeenOncePerRound == Spec => []AtMostOncePerReplay
<1>1. DeliveryInv => AtMostOncePerReplay
  <2> SUFFICES ASSUME DeliveryInv, NEW a \in attempts, NEW b \in attempts,
                      a.target = b.target, a.replay = b.replay, Got(a), Got(b)
               PROVE  a = b
    BY DEF AtMostOncePerReplay, Got
  <2>1. ~(a.seq < b.seq) /\ ~(b.seq < a.seq)
    BY DEF DeliveryInv, Rounds, Closed
  <2>2. a.seq \in Nat /\ b.seq \in Nat
    BY AttemptFacts DEF DeliveryInv
  <2>3. a.seq = b.seq
    BY <2>1, <2>2
  <2> QED BY <2>3 DEF DeliveryInv, Keys
<1> QED BY <1>1, DeliveryInvariant, PTL

\* A row never goes back to the queue, to a failure or to a withdrawal in a
\* round in which its recipient has the message.
THEOREM NothingForgotten == Spec => []ReceivedIsRemembered
<1>1. DeliveryInv => ReceivedIsRemembered
  BY DEF DeliveryInv, Rounds, Closed, Got, ReceivedIsRemembered
<1> QED BY <1>1, DeliveryInvariant, PTL

\* Each attempt that is over has one receipt, and the open one none.
THEOREM EvidenceKept == Spec => []EvidenceComplete
<1>1. DeliveryInv => EvidenceComplete
  <2> SUFFICES ASSUME DeliveryInv PROVE EvidenceComplete
    OBVIOUS
  <2>1. ASSUME NEW a \in attempts
        PROVE  Cardinality(About(a)) = IF Open_(a) THEN 0 ELSE 1
    <3>1. CASE Open_(a)
      <4>1. About(a) = {}
        BY <3>1 DEF DeliveryInv, Evidence
      <4> QED BY <3>1, <4>1, FS_EmptySet
    <3>2. CASE ~Open_(a)
      <4>1. PICK r \in receipts : About(a) = {r}
        BY <3>2 DEF DeliveryInv, Evidence
      <4>2. Cardinality({r}) = 1
        BY FS_Singleton
      <4> QED BY <3>2, <4>1, <4>2
    <3> QED BY <3>1, <3>2
  <2> QED BY <2>1 DEF EvidenceComplete, About, Open_, DeliveryInv, Evidence
<1> QED BY <1>1, DeliveryInvariant, PTL

\* A worker that still holds the claim it settles under settles the attempt
\* its row waits for.
THEOREM ProvenanceKept == Spec => []ProvenanceHolds
<1>1. DeliveryInv => ProvenanceHolds
  <2> SUFFICES ASSUME DeliveryInv, NEW w \in Worker, worker[w].pc = "settle",
                      HoldsClaim(w, "in_flight", worker[w].at)
               PROVE  AttemptMatches(w)
    BY DEF ProvenanceHolds
  <2> DEFINE t == worker[w].target
  <2>1. t \in Target
    BY BusyFacts DEF Busy
  <2>2. row[t].status = "in_flight" /\ row[t].claimGen = worker[w].gen /\ row[t].seq = worker[w].seq
    BY DEF HoldsClaim
  <2>3. PICK a \in attempts : a.target = t /\ Current(a)
    BY <2>1, <2>2 DEF DeliveryInv, InFlight
  <2>4. row[t].attempt
    BY <2>1, <2>2 DEF DeliveryInv, RowsOK, RowOK
  <2> QED BY <2>2, <2>3, <2>4 DEF Current, AttemptMatches
<1> QED BY <1>1, DeliveryInvariant, PTL

\* A pending row is claimed only by claim_next, and claim_next picks by rank.
THEOREM UrgentFirstHolds == Spec => UrgentFirst
<1>1. ASSUME DeliveryInv, [Next]_vars
      PROVE  [\A t, u \in Target :
                /\ row[t].status = "pending" /\ row'[t].status = "claimed"
                /\ row[u].status = "pending" /\ row'[u].status = "pending"
                /\ row[u].nextAt <= row'[t].claimedAt
                => Rank(Kind[EventOf[t]]) <= Rank(Kind[EventOf[u]])]_vars
  <2> SUFFICES ASSUME NEW t \in Target, NEW u \in Target,
                      row[t].status = "pending", row'[t].status = "claimed",
                      row[u].status = "pending", row'[u].status = "pending",
                      row[u].nextAt <= row'[t].claimedAt
               PROVE  Rank(Kind[EventOf[t]]) <= Rank(Kind[EventOf[u]])
    OBVIOUS
  <2>0. row[t] \in RowType
    BY <1>1 DEF DeliveryInv, TypeOK
  <2>a. ~RowMoves(t)
    <3>1. ~Stays(t)
      BY <2>0 DEF Stays, RowType
    <3>2. ~Enters(t) /\ ~Ends(t) /\ ~Replays(t)
      BY DEF Enters, AbsentRow, Ends, Replays
    <3>3. ~Leaves(t)
      BY <2>0, UnclaimedFields DEF Leaves, Statuses
    <3> QED BY <3>1, <3>2, <3>3 DEF RowMoves
  <2>1. ~Calm
    BY <2>a DEF Calm, Quiet
  <2>2. ~Starts
    BY DEF Starts
  <2>3. ~Sends
    BY DEF Sends
  <2>4. Claims
    BY <1>1, <2>1, <2>2, <2>3, Steps
  <2>5. ~Precedes(u, t)
    <3>1. PICK v \in Target :
            /\ \A x \in Target \ {v} : row'[x] = row[x] \/ Leaves(x)
            /\ \A x \in Target \ {v} :
                 /\ row[x].status = "pending" /\ row'[x].status = "pending"
                 /\ row[x].nextAt <= row'[v].claimedAt
                 => ~Precedes(x, v)
      BY <2>4 DEF Claims
    <3>2. v = t
      BY <1>1, <2>a, <3>1, Untouched, Leaving
    <3> QED BY <3>1, <3>2
  <2>6. ~(Rank(Kind[EventOf[u]]) < Rank(Kind[EventOf[t]]))
    BY <2>5 DEF Precedes
  <2>7. \A kind \in Kinds : Rank(kind) \in Int
    BY DEF Kinds, Rank
  <2>8. Kind[EventOf[t]] \in Kinds /\ Kind[EventOf[u]] \in Kinds
    BY ConstantsAssumption
  <2> QED BY <2>6, <2>7, <2>8
<1> QED BY <1>1, DeliveryInvariant, PTL DEF Spec, UrgentFirst

-----------------------------------------------------------------------------
(* Reports and trader roles *)

\* Only what is stored is ever attempted.
Attempted == \A a \in attempts : event[EventOf[a.target]] # NoEvent

LEMMA AttemptedStep ==
    ASSUME DeliveryInv, Attempted, [Next]_vars PROVE Attempted'
<1>1. \A a \in attempts : a.target \in Target
  BY AttemptFacts DEF DeliveryInv
<1>2. CASE Calm
  BY <1>1, <1>2 DEF Calm, Quiet, EntersWith, Attempted
<1>3. CASE Claims \/ Sends
  BY <1>3 DEF Claims, Sends, Attempted
<1>4. CASE Starts
  <2>1. PICK b : /\ attempts' = attempts \union {b} /\ b.target \in Target
                 /\ row[b.target].status = "claimed"
    BY <1>4 DEF Starts
  <2>2. event[EventOf[b.target]] # NoEvent
    BY <2>1 DEF DeliveryInv, Entered, AbsentRow
  <2> QED BY <1>4, <2>1, <2>2 DEF Starts, Attempted
<1> QED BY <1>2, <1>3, <1>4, Steps

\* The desk is never sent two reports of one half hour, because a second one
\* is never stored.
THEOREM OneReportSent == Spec => []SlotSentOnce
<1>1. Init => Attempted
  BY DEF Init, Attempted
<1>2. DeliveryInv /\ Attempted /\ [Next]_vars => Attempted'
  BY AttemptedStep
<1>3. DeliveryInv /\ Attempted => SlotSentOnce
  <2> SUFFICES ASSUME DeliveryInv, Attempted, NEW a \in attempts, NEW b \in attempts,
                      Kind[EventOf[a.target]] = "report", Kind[EventOf[b.target]] = "report",
                      Slot[EventOf[a.target]] = Slot[EventOf[b.target]]
               PROVE  EventOf[a.target] = EventOf[b.target]
    BY DEF SlotSentOnce
  <2>1. EventOf[a.target] \in Event /\ EventOf[b.target] \in Event
    BY AttemptFacts, ConstantsAssumption DEF DeliveryInv
  <2>2. event[EventOf[a.target]] # NoEvent /\ event[EventOf[b.target]] # NoEvent
    BY DEF Attempted
  <2> QED BY <2>1, <2>2 DEF DeliveryInv, OneReportPerSlot
<1> QED BY <1>1, <1>2, <1>3, DeliveryInvariant, PTL DEF Spec

\* The rows of which SupersededNeverFresh speaks.
Waiting(t) == row[t].status \in {"pending", "claimed"}
Handled(t) == row[t].replay > 0 \/ \E a \in attempts : a.target = t

\* A move leaves a row waiting only if it was, or was handled, or is new.
LEMMA MoveWaits ==
    ASSUME DeliveryInv, NEW t \in Target, RowMoves(t), Waiting(t)'
    PROVE  \/ Waiting(t) /\ row'[t].replay = row[t].replay
           \/ Enters(t)
           \/ row[t].status = "in_flight"
           \/ row'[t].replay > 0
<1>1. row[t] \in RowType
  BY DEF DeliveryInv, TypeOK
<1>2. CASE Stays(t)
  BY <1>1, <1>2 DEF Stays, RowType, Waiting
<1>3. CASE Leaves(t)
  BY <1>1, <1>3, UnclaimedFields DEF Leaves, Statuses, Waiting
<1>4. CASE Ends(t)
  BY <1>4 DEF Ends
<1>5. CASE Replays(t)
  <2>1. row'[t].replay = row[t].replay + 1 /\ row[t].replay \in Nat
    BY <1>1, <1>5 DEF Replays, RowType
  <2> QED BY <2>1
<1> QED BY <1>2, <1>3, <1>4, <1>5 DEF RowMoves

\* Unless it is new, a row that waits was handled or was waiting already.
LEMMA KeepsHandled ==
    ASSUME DeliveryInv, [Next]_vars, NEW t \in Target, Waiting(t)', ~Enters(t),
           Waiting(t) => Handled(t)
    PROVE  Handled(t)'
<1>1. row[t] \in RowType
  BY DEF DeliveryInv, TypeOK
<1>2. attempts \subseteq attempts'
  BY Steps DEF Calm, Quiet, Claims, Starts, Sends
<1>3. \/ Waiting(t) /\ row'[t].replay = row[t].replay
      \/ row[t].status = "in_flight"
      \/ row'[t].replay > 0
  <2>1. CASE Calm
    BY <2>1, MoveWaits DEF Calm, Quiet
  <2>2. CASE Claims
    <3>1. PICK u \in Target : /\ row[u].status = "pending" /\ row'[u].replay = row[u].replay
                              /\ \A v \in Target \ {u} : row'[v] = row[v] \/ Leaves(v)
      BY <2>2 DEF Claims
    <3>2. CASE t = u
      BY <3>1, <3>2 DEF Waiting
    <3>3. CASE t # u
      BY <3>1, <3>3, Untouched, Leaving, MoveWaits
    <3> QED BY <3>2, <3>3
  <2>3. CASE Starts
    <3>1. PICK b : /\ row'[b.target].status = "in_flight"
                   /\ \A u \in Target \ {b.target} : row'[u] = row[u]
      BY <2>3 DEF Starts
    <3> QED BY <3>1 DEF Waiting
  <2>4. CASE Sends
    BY <2>4 DEF Sends, Waiting
  <2> QED BY <2>1, <2>2, <2>3, <2>4, Steps
<1>4. CASE Waiting(t) /\ row'[t].replay = row[t].replay
  BY <1>2, <1>4 DEF Handled
<1>5. CASE row[t].status = "in_flight"
  BY <1>2, <1>5 DEF Handled, DeliveryInv, InFlight
<1> QED BY <1>3, <1>4, <1>5 DEF Handled

\* supersede_prior_operator_targets and enforce_operator_lifecycle read one
\* table of roles: what a role withdraws, it also keeps out.
LEMMA RolesAgree ==
    ASSUME NEW e \in Event, NEW f \in Event, Kind[f] \in Supersedes(Kind[e])
    PROVE  /\ Kind[e] \in OperatorKinds /\ Kind[f] \in OperatorKinds /\ e # f
           /\ \/ Kind[e] = "exit"
              \/ Kind[e] = "cancel" /\ Kind[f] # "exit"
              \/ Kind[e] = "trade_ready" /\ Kind[f] \in {"setup", "trade_ready"}
<1>1. Kind[e] \in Kinds
  BY ConstantsAssumption
<1> QED BY <1>1 DEF Supersedes, Kinds, OperatorKinds

Supersession(e, t) ==
    /\ Stored(e)
    /\ EventOf[t] \in SameGeneration(e)
    /\ Kind[EventOf[t]] \in Supersedes(Kind[e])

\* An operator notification leaves nothing fresh behind it and comes behind
\* nothing that supersedes it.
LEMMA OperatorFresh ==
    ASSUME DeliveryInv, TypeOK', NEW e \in Event, PersistOperatorNotification(e),
           NEW f \in Event, NEW t \in Target, Supersession(f, t)', Waiting(t)'
    PROVE  ~Enters(t) /\ (Waiting(t) => Supersession(f, t))
<1>1. PICK c \in CreationTimes : InsertEvent(e, c, CancelRows(Superseded(e)))
  BY DEF PersistOperatorNotification
<1>2. /\ ~Stored(e) /\ event' = [event EXCEPT ![e] = [occurred |-> c, expires |-> c + Ttl]]
      /\ row'[t] = IF EventOf[t] = e THEN NewRow(c) ELSE CancelRows(Superseded(e))[t]
      /\ ~Suppressed(e)
  BY <1>1 DEF InsertEvent, PersistOperatorNotification
<1>3. \A g \in Event \ {e} : Stored(g)' <=> Stored(g)
  BY <1>2 DEF Stored, DeliveryInv, TypeOK
<1>4. /\ EventOf[t] \in Event /\ f # EventOf[t]
      /\ Kind[f] \in OperatorKinds /\ Kind[EventOf[t]] \in OperatorKinds
      /\ \/ Kind[f] = "exit"
         \/ Kind[f] = "cancel" /\ Kind[EventOf[t]] # "exit"
         \/ Kind[f] = "trade_ready" /\ Kind[EventOf[t]] \in {"setup", "trade_ready"}
  <2>1. EventOf[t] \in Event
    BY ConstantsAssumption
  <2>2. Kind[EventOf[t]] \in Supersedes(Kind[f])
    BY DEF Supersession
  <2> QED BY <2>1, <2>2, RolesAgree
<1>5. /\ Stored(f)' /\ Stored(EventOf[t])' /\ Kind[EventOf[t]] \in Supersedes(Kind[f])
      /\ Opportunity[EventOf[t]] = Opportunity[f] /\ Generation[EventOf[t]] = Generation[f]
  BY DEF Supersession, SameGeneration, Lifecycle
<1>6. EventOf[t] # e
  <2> SUFFICES ASSUME EventOf[t] = e PROVE FALSE
    OBVIOUS
  <2>1. Stored(f)
    BY <1>3, <1>4, <1>5
  <2>2. f \in SameGeneration(e)
    BY <1>4, <1>5, <2>1 DEF SameGeneration, Lifecycle
  <2> QED BY <1>2, <1>4, <2>2 DEF Suppressed
<1>7. Stored(EventOf[t])
  BY <1>3, <1>4, <1>5, <1>6
<1>8. ~Enters(t)
  BY <1>7 DEF Enters, Stored, DeliveryInv, Entered, AbsentRow
<1>9. Waiting(t) => f # e
  <2> SUFFICES ASSUME Waiting(t), f = e PROVE FALSE
    OBVIOUS
  <2>1. t \in Superseded(e)
    BY <1>4, <1>5, <1>7 DEF Superseded, SameGeneration, Lifecycle
  <2>2. row'[t] = Unclaimed(row[t], "cancelled", 0)
    BY <1>2, <1>6, <2>1 DEF CancelRows, Waiting
  <2>3. row'[t].status = "cancelled"
    <3>1. row[t] \in RowType
      BY DEF DeliveryInv, TypeOK
    <3> QED BY <2>2, <3>1, UnclaimedFields DEF Statuses
  <2> QED BY <2>3 DEF Waiting
<1>10. Waiting(t) => Supersession(f, t)
  BY <1>3, <1>4, <1>5, <1>7, <1>9 DEF Supersession, SameGeneration, Lifecycle
<1> QED BY <1>8, <1>10

\* The other steps store no trader event.
LEMMA OthersFresh ==
    ASSUME DeliveryInv, TypeOK', [Next]_vars, ~\E e \in Event : PersistOperatorNotification(e),
           NEW f \in Event, NEW t \in Target, Supersession(f, t)'
    PROVE  ~Enters(t) /\ Supersession(f, t)
<1>1. \A g \in Event : Kind[g] \in OperatorKinds => event'[g] = event[g]
  <2>1. CASE \E e \in Event : PersistDecision(e) \/ PersistScheduledReport(e)
    <3>1. PICK e \in Event, c \in CreationTimes :
            Kind[e] \notin OperatorKinds /\ InsertEvent(e, c, row)
      BY <2>1 DEF PersistDecision, PersistScheduledReport, OperatorKinds
    <3> QED BY <3>1 DEF InsertEvent, DeliveryInv, TypeOK
  <2>2. CASE \E e \in Event : CancelEvent(e)
    BY <2>2 DEF CancelEvent
  <2>3. CASE Tick \/ OperatorStep \/ UNCHANGED vars
    BY <2>3 DEF Tick, OperatorStep, AcknowledgeFailure, ReplayFailure, vars
  <2>4. ASSUME NEW w \in Worker, WorkerStep(w)
        PROVE  event' = event
    BY <2>4 DEF WorkerStep, Open, RefreshOwner, RecoverStaleClaims, ClaimNext,
                RejectBeforeTransport, BeginTransport, Send, Settle, Exit, Crash
  <2> QED BY <2>1, <2>2, <2>3, <2>4 DEF Next, CoreStep
<1>2. EventOf[t] \in Event /\ Kind[EventOf[t]] \in Supersedes(Kind[f])
  BY ConstantsAssumption DEF Supersession
<1>3. Kind[f] \in OperatorKinds /\ Kind[EventOf[t]] \in OperatorKinds
  BY <1>2, RolesAgree
<1>4. Stored(f) /\ Stored(EventOf[t])
  BY <1>1, <1>2, <1>3 DEF Supersession, SameGeneration, Lifecycle, Stored
<1>5. ~Enters(t)
  BY <1>4 DEF Enters, Stored, DeliveryInv, Entered, AbsentRow
<1> QED BY <1>3, <1>4, <1>5 DEF Supersession, SameGeneration, Lifecycle

\* Once a later role is stored, no target of an earlier role of the same
\* opportunity generation waits that was not attempted or replayed.
THEOREM NothingSupersededFresh == Spec => []SupersededNeverFresh
<1>0. SupersededNeverFresh <=>
        \A f \in Event, t \in Target : Supersession(f, t) /\ Waiting(t) => Handled(t)
  BY DEF SupersededNeverFresh, Supersession, Waiting, Handled
<1>a. SupersededNeverFresh' <=>
        \A f \in Event, t \in Target : Supersession(f, t)' /\ Waiting(t)' => Handled(t)'
  BY DEF SupersededNeverFresh, Supersession, Waiting, Handled
<1>1. Init => SupersededNeverFresh
  BY DEF Init, SupersededNeverFresh, AbsentRow
<1>2. ASSUME DeliveryInv, SupersededNeverFresh, [Next]_vars PROVE SupersededNeverFresh'
  <2> SUFFICES ASSUME NEW f \in Event, NEW t \in Target, Supersession(f, t)', Waiting(t)'
               PROVE  Handled(t)'
    BY <1>a
  <2>0. TypeOK'
    BY <1>2, Steps DEF DeliveryInv
  <2>1. ~Enters(t) /\ (Waiting(t) => Supersession(f, t))
    BY <1>2, <2>0, OperatorFresh, OthersFresh
  <2> QED BY <1>0, <1>2, <2>1, KeepsHandled
<1> QED BY <1>1, <1>2, DeliveryInvariant, PTL DEF Spec

-----------------------------------------------------------------------------
(* The outbox contract *)

Seen_ == {<<a.target, a.replay, a.seq>> : a \in {b \in attempts : <<b.target, b.seq>> \in received}}

\* The contract's seen, read off the attempts.
LEMMA SeenInRound ==
    ASSUME TypeOK, NEW t \in Target, NEW n
    PROVE  Contract!SeenIn(t, n) <=> \E a \in attempts : a.target = t /\ a.replay = n /\ Got(a)
<1> DEFINE got == {b \in attempts : <<b.target, b.seq>> \in received}
           key(a) == <<a.target, a.replay, a.seq>>
<1>0. Contract!SeenIn(t, n) <=> \E m \in {key(a) : a \in got} : m[1] = t /\ m[2] = n
  BY DEF Contract!SeenIn
<1>1. \A a : key(a)[1] = a.target /\ key(a)[2] = a.replay
  OBVIOUS
<1> HIDE DEF key
<1>2. (\E m \in {key(a) : a \in got} : m[1] = t /\ m[2] = n)
        <=> \E a \in got : a.target = t /\ a.replay = n
  BY <1>1
<1> QED BY <1>0, <1>2 DEF Got

\* What a move of a row is in the contract.
LEMMA MoveMaps ==
    ASSUME DeliveryInv, TypeOK', NEW t \in Target, RowMoves(t), UNCHANGED <<attempts, received>>
    PROVE  Contract!Move(t) \/ Contract!Retry(t) \/ Contract!Stay(t)
<1>1. row[t] \in RowType /\ row[t].replay \in Nat
  BY DEF DeliveryInv, TypeOK, RowType
<1>2. CASE Stays(t)
  <2>1. row'[t].status = row[t].status /\ row'[t].replay = row[t].replay
    BY <1>1, <1>2 DEF Stays, RowType
  <2> QED BY <2>1 DEF Contract!Stay
<1>3. CASE Enters(t)
  <2>1. /\ row[t].status = "absent" /\ row'[t].status = "pending"
        /\ row'[t].replay = row[t].replay
    BY <1>3 DEF Enters, AbsentRow, NewRow
  <2> QED BY <2>1 DEF Contract!Move, Contract!Enqueue, PhaseOf
<1>4. CASE Leaves(t)
  <2>1. /\ row[t].status \in {"pending", "claimed"}
        /\ row'[t].status \in {"pending", "dead_letter", "cancelled", "expired"}
        /\ row'[t].replay = row[t].replay
    BY <1>1, <1>4, UnclaimedFields DEF Leaves, Statuses
  <2>2. CASE row'[t].status = "pending"
    BY <2>1, <2>2 DEF Contract!Stay, PhaseOf
  <2>3. CASE row'[t].status # "pending"
    BY <2>1, <2>3 DEF Contract!Move, Contract!Refuse, PhaseOf
  <2> QED BY <2>2, <2>3
<1>5. CASE Ends(t)
  <2>1. PICK status \in {"pending", "dead_letter", "delivered", "uncertain"}, n \in Nat :
          /\ row'[t] = Unclaimed(row[t], status, n)
          /\ \A a \in attempts : a.target = t /\ Current(a) =>
               /\ status \in {"pending", "dead_letter"} => Closed(a)'
               /\ status = "delivered" => Got(a) /\ ~Sending(a)'
    BY <1>5 DEF Ends
  <2>2. /\ row[t].status = "in_flight" /\ row'[t].status = status
        /\ row'[t].replay = row[t].replay
    BY <1>1, <1>5, <2>1, UnclaimedFields DEF Ends, Statuses
  <2>3. PICK c \in attempts : c.target = t /\ Current(c)
    BY <2>2 DEF DeliveryInv, InFlight
  <2>4. Contract!Seen(t) <=> \E a \in attempts : a.target = t /\ a.replay = row[t].replay /\ Got(a)
    <3>1. Contract!Seen(t) <=> Contract!SeenIn(t, row[t].replay)
      BY DEF Contract!Seen
    <3> QED BY <3>1, SeenInRound DEF DeliveryInv
  <2>5. CASE status \in {"pending", "dead_letter"}
    <3>1. ASSUME NEW a \in attempts, a.target = t, a.replay = row[t].replay PROVE ~Got(a)
      <4>1. CASE Current(a)
        BY <2>1, <2>5, <3>1, <4>1 DEF Closed, Got
      <4>2. CASE ~Current(a)
        BY <2>2, <3>1, <4>2, EarlierClosed DEF Closed
      <4> QED BY <4>1, <4>2
    <3>2. ~Contract!Seen(t)
      BY <2>4, <3>1
    <3> QED BY <2>2, <2>5, <3>2 DEF Contract!Move, Contract!Bounce, PhaseOf
  <2>6. CASE status = "delivered"
    <3>1. Got(c) /\ c.replay = row[t].replay
      BY <2>1, <2>3, <2>6 DEF Current
    <3>2. Contract!Seen(t)
      BY <2>3, <2>4, <3>1
    <3> QED BY <2>2, <2>6, <3>2 DEF Contract!Move, Contract!Confirm, PhaseOf
  <2>7. CASE status = "uncertain"
    BY <2>2, <2>7 DEF Contract!Move, Contract!LoseSight, PhaseOf
  <2> QED BY <2>5, <2>6, <2>7
<1>6. CASE Replays(t)
  <2>1. /\ row[t].status \in {"dead_letter", "uncertain"} /\ row'[t].status = "pending"
        /\ row'[t].replay = row[t].replay + 1
    BY <1>1, <1>6 DEF Replays, RowType
  <2> QED BY <2>1 DEF Contract!Retry, PhaseOf
<1> QED BY <1>2, <1>3, <1>4, <1>5, <1>6 DEF RowMoves

\* A claim is invisible, a start is a launch.
LEMMA ClaimMaps ==
    ASSUME DeliveryInv, TypeOK', Claims PROVE Contract!Transact
<1>1. PICK t \in Target : /\ row[t].status = "pending" /\ row'[t].status = "claimed"
                          /\ row'[t].replay = row[t].replay
                          /\ \A u \in Target \ {t} : row'[u] = row[u] \/ Leaves(u)
  BY DEF Claims
<1>2. UNCHANGED <<attempts, received>>
  BY DEF Claims
<1>3. ASSUME NEW u \in Target
      PROVE  Contract!Move(u) \/ Contract!Retry(u) \/ Contract!Stay(u)
  <2>1. CASE u = t
    BY <1>1, <2>1 DEF Contract!Stay, PhaseOf
  <2>2. CASE u # t
    BY <1>1, <1>2, <2>2, Untouched, Leaving, MoveMaps
  <2> QED BY <2>1, <2>2
<1> QED BY <1>2, <1>3 DEF Contract!Transact

LEMMA StartMaps ==
    ASSUME DeliveryInv, TypeOK', Starts PROVE Contract!Transact
<1>1. PICK b : /\ attempts' = attempts \union {b} /\ b.target \in Target
               /\ <<b.target, b.seq>> \notin received
               /\ row[b.target].status = "claimed" /\ row'[b.target].status = "in_flight"
               /\ row'[b.target].replay = row[b.target].replay
               /\ \A u \in Target \ {b.target} : row'[u] = row[u]
  BY DEF Starts
<1>2. received' = received
  BY DEF Starts
<1>3. ASSUME NEW u \in Target
      PROVE  Contract!Move(u) \/ Contract!Stay(u)
  <2>1. CASE u = b.target
    BY <1>1, <2>1 DEF Contract!Move, Contract!Launch, PhaseOf
  <2>2. CASE u # b.target
    BY <1>1, <2>2 DEF Contract!Stay
  <2> QED BY <2>1, <2>2
<1>4. {a \in attempts' : <<a.target, a.seq>> \in received'}
        = {a \in attempts : <<a.target, a.seq>> \in received}
  BY <1>1, <1>2
<1> QED BY <1>3, <1>4 DEF Contract!Transact

\* What a send makes the recipient see, it sees for the first time in its
\* round.
LEMMA SendMaps ==
    ASSUME DeliveryInv, TypeOK', Sends
    PROVE  Contract!Transact \/ \E t \in Target : \E n \in 0 .. row[t].replay : Contract!Arrive(t, n)
<1>1. PICK b \in attempts :
        /\ Sending(b) /\ ~Got(b)
        /\ received' = received \/ received' = received \union {<<b.target, b.seq>>}
  BY DEF Sends
<1>2. row' = row /\ attempts' = attempts
  BY DEF Sends
<1> DEFINE t == b.target
           n == b.replay
           m == <<b.target, b.replay, b.seq>>
<1>3. t \in Target /\ n \in Nat /\ b.seq \in Nat /\ row[t].replay \in Nat /\ n <= row[t].replay
  BY AttemptFacts DEF DeliveryInv, Keys
<1>4. CASE received' = received
  BY <1>2, <1>4 DEF Contract!Transact, Contract!Stay
<1>5. CASE received' = received \union {<<b.target, b.seq>>}
  <2>1. ~Contract!SeenIn(t, n)
    <3> SUFFICES ASSUME NEW a \in attempts, a.target = t, a.replay = n, Got(a) PROVE FALSE
      BY <1>3, SeenInRound DEF DeliveryInv
    <3>1. ~(a.seq < b.seq) /\ ~(b.seq < a.seq)
      BY <1>1 DEF DeliveryInv, Rounds, Closed
    <3>2. a.seq \in Nat
      BY AttemptFacts DEF DeliveryInv
    <3>3. a = b
      BY <1>3, <3>1, <3>2 DEF DeliveryInv, Keys
    <3> QED BY <1>1, <3>3
  <2>2. \/ n = row[t].replay /\ PhaseOf(row[t].status) \in {"sending", "unknown"}
        \/ n \in 0 .. row[t].replay - 1
    <3>1. CASE n = row[t].replay
      <4>1. row[t].status \in {"in_flight", "uncertain"}
        BY <1>1, <3>1 DEF DeliveryInv, Rounds, Closed
      <4> QED BY <3>1, <4>1 DEF PhaseOf
    <3>2. CASE n # row[t].replay
      BY <1>3, <3>2
    <3> QED BY <3>1, <3>2
  <2>3. Seen_' = Seen_ \union {m}
    <3>1. \A a \in attempts : <<a.target, a.seq>> = <<b.target, b.seq>> => a = b
      BY DEF DeliveryInv, Keys
    <3>2. {a \in attempts' : <<a.target, a.seq>> \in received'}
            = {a \in attempts : <<a.target, a.seq>> \in received} \union {b}
      BY <1>1, <1>2, <1>5, <3>1
    <3> QED BY <3>2 DEF Seen_
  <2>4. m \in Seen_' /\ m[1] = t /\ m[2] = n
    BY <2>3
  <2>5. Contract!Arrive(t, n)
    BY <1>2, <1>3, <2>1, <2>2, <2>3, <2>4 DEF Contract!Arrive, Seen_
  <2>6. n \in 0 .. row[t].replay
    BY <1>3
  <2> QED BY <1>3, <2>5, <2>6
<1> QED BY <1>1, <1>4, <1>5

\* Claims, leases, crashes and stale workers implement the contract: every
\* step of the ledger is one of its moves, for any number of workers.
THEOREM Implements == Spec => ImplementsContract
<1>1. Init => Contract!ContractInit
  <2> SUFFICES ASSUME Init PROVE Contract!ContractInit
    OBVIOUS
  <2>1. /\ attempts = {}
        /\ \A t \in Target : row[t].status = "absent" /\ row[t].replay = 0
    BY DEF Init, AbsentRow
  <2> QED BY <2>1 DEF Contract!ContractInit, PhaseOf
<1>2. ASSUME DeliveryInv, [Next]_vars
      PROVE  [Contract!ContractNext]_(Contract!contractVars)
  <2>0. TypeOK'
    BY <1>2, Steps DEF DeliveryInv
  <2>1. CASE Calm
    <3>1. UNCHANGED <<attempts, received>> /\ \A t \in Target : RowMoves(t)
      BY <2>1 DEF Calm, Quiet
    <3>2. \A t \in Target : Contract!Move(t) \/ Contract!Retry(t) \/ Contract!Stay(t)
      BY <1>2, <2>0, <3>1, MoveMaps
    <3>3. Contract!Transact
      BY <3>1, <3>2 DEF Contract!Transact
    <3> QED BY <3>3 DEF Contract!ContractNext
  <2>2. CASE Claims
    BY <1>2, <2>0, <2>2, ClaimMaps DEF Contract!ContractNext
  <2>3. CASE Starts
    BY <1>2, <2>0, <2>3, StartMaps DEF Contract!ContractNext
  <2>4. CASE Sends
    BY <1>2, <2>0, <2>4, SendMaps DEF Contract!ContractNext
  <2> QED BY <1>2, <2>1, <2>2, <2>3, <2>4, Steps
<1> QED BY <1>1, <1>2, DeliveryInvariant, PTL DEF Spec, ImplementsContract, Contract!ContractSpec
=============================================================================
