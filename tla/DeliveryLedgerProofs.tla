------------------------ MODULE DeliveryLedgerProofs ------------------------
(* Theorems about DeliveryLedger, for any number of workers and targets and *)
(* any lease terms, with TLAPS.                                             *)
EXTENDS DeliveryLedger, TLAPS

EventType == [occurred : Nat, expires : Nat]
OwnerType == [id : Worker \union {NoWorker}, gen : Nat, active : BOOLEAN, until : Nat]
ReceiptType == [target : Target, seq : Nat, replay : Nat, attempted : BOOLEAN,
                outcome : ReceiptOutcomes]

-----------------------------------------------------------------------------
(* What the helpers return *)

\* Ending a claim yields a well-typed row, whatever its new status.
LEMMA UnclaimedType ==
    ASSUME NEW r \in RowType, NEW status \in Statuses, NEW nextAt \in Nat
    PROVE  Unclaimed(r, status, nextAt) \in RowType
BY DEF Unclaimed, RowType

\* So does an operator's replay,
LEMMA ReplayedType ==
    ASSUME NEW r \in RowType, NEW at \in Nat, NEW n \in Nat
    PROVE  [r EXCEPT !.status = "pending", !.count = 0, !.replay = n,
                     !.nextAt = at, !.ack = FALSE] \in RowType
BY DEF RowType, Statuses

\* a claim,
LEMMA ClaimedType ==
    ASSUME NEW r \in RowType, NEW gen \in Nat, NEW at \in Nat, NEW until \in Nat,
           NEW n \in Nat
    PROVE  [r EXCEPT !.status = "claimed", !.seq = n, !.nextAt = 0,
                     !.claimGen = gen, !.claimedAt = at, !.leaseUntil = until] \in RowType
BY DEF RowType, Statuses

\* and the start of a transport.
LEMMA StartedType ==
    ASSUME NEW r \in RowType, NEW until \in Nat, NEW n \in Nat
    PROVE  [r EXCEPT !.status = "in_flight", !.count = n,
                     !.attempt = TRUE, !.leaseUntil = until] \in RowType
BY DEF RowType, Statuses

\* A receipt about a stored target is well typed.
LEMMA ReceiptIsTyped ==
    ASSUME row \in [Target -> RowType], NEW t \in Target, NEW attempted \in BOOLEAN,
           NEW outcome \in ReceiptOutcomes
    PROVE  Receipt(t, attempted, outcome) \in ReceiptType
BY DEF Receipt, ReceiptType, RowType

\* Withdrawing rows keeps the table well typed and adds typed receipts.
LEMMA CancelTyped ==
    ASSUME row \in [Target -> RowType], NEW ts \in SUBSET Target
    PROVE  /\ CancelRows(ts) \in [Target -> RowType]
           /\ CancelReceipts(ts) \subseteq ReceiptType
<1>1. "cancelled" \in Statuses /\ 0 \in Nat
  BY DEF Statuses
<1>2. CancelRows(ts) \in [Target -> RowType]
  BY <1>1, UnclaimedType DEF CancelRows
<1>3. "cancelled_before_transport" \in ReceiptOutcomes
  BY DEF ReceiptOutcomes
<1>4. CancelReceipts(ts) \subseteq ReceiptType
  BY <1>3, ReceiptIsTyped DEF CancelReceipts
<1> QED BY <1>2, <1>4

\* Storing an event keeps the tables well typed.
LEMMA InsertTyped ==
    ASSUME TypeOK, NEW e \in Event, NEW rows \in [Target -> RowType],
           NEW c \in CreationTimes, InsertEvent(e, c, rows)
    PROVE  /\ event' \in [Event -> EventType]
           /\ row' \in [Target -> RowType]
<1>1. c \in Nat /\ c + Ttl \in Nat
  BY ConstantsAssumption DEF CreationTimes, TypeOK
<1>2. event' \in [Event -> EventType]
  BY <1>1 DEF InsertEvent, TypeOK, EventType
<1>3. NewRow(c) \in RowType
  BY <1>1 DEF NewRow, AbsentRow, RowType, Statuses
<1>4. row' \in [Target -> RowType]
  BY <1>3 DEF InsertEvent
<1> QED BY <1>2, <1>4

\* Acquiring a role keeps its row well typed.
LEMMA AcquiredType ==
    ASSUME NEW l \in OwnerType, NEW w \in Worker, NEW s \in Nat, NEW d \in Nat
    PROVE  Acquired(l, w, s, d) \in OwnerType
BY DEF Acquired, OwnerType, Reentrant

\* Workers stay well typed when one of them moves to a well-typed record that
\* carries a target while it is busy and a result when it settles.
LEMMA WorkerMoves ==
    ASSUME WorkersOK, NEW w \in Worker, NEW r \in WorkerType,
           worker' = [worker EXCEPT ![w] = r],
           r.pc \in {"process", "send", "settle"} => r.target \in Target /\ r.no > 0,
           r.pc = "settle" => r.result \in Results
    PROVE  WorkersOK'
BY DEF WorkersOK, Busy

\* A worker that has nothing in its hands, or is down, is such a record.
LEMMA WorkerRests ==
    ASSUME WorkersOK, now \in Nat, NEW w \in Worker, NEW r,
           r = Idle(w, "idle", now) \/ r = Down,
           worker' = [worker EXCEPT ![w] = r]
    PROVE  WorkersOK'
<1>1. worker[w] \in WorkerType
  BY DEF WorkersOK
<1>2. \A q \in WorkerType :
        LET p == [q EXCEPT !.pc = "idle", !.at = now, !.target = NoTarget,
                           !.seq = 0, !.no = 0, !.result = "none"]
        IN  p \in WorkerType /\ p.pc = "idle"
  BY DEF WorkerType
<1>3. Idle(w, "idle", now) \in WorkerType /\ Idle(w, "idle", now).pc = "idle"
  BY <1>1, <1>2 DEF Idle
<1>4. Down \in WorkerType /\ Down.pc = "down"
  BY DEF Down, WorkerType
<1>5. r \in WorkerType /\ r.pc \in {"idle", "down"}
  BY <1>3, <1>4
<1> QED BY <1>5, WorkerMoves

-----------------------------------------------------------------------------
(* Type correctness *)

LEMMA TypeInit == Init => TypeOK
BY ConstantsAssumption
   DEF Init, TypeOK, NoLease, NoEvent, AbsentRow, Down, RowType, WorkerType, Statuses,
       WorkersOK, Busy

LEMMA TypeCore ==
    ASSUME TypeOK, CoreStep
    PROVE  TypeOK'
<1> PICK e \in Event : \/ PersistDecision(e)
                       \/ PersistScheduledReport(e)
                       \/ PersistOperatorNotification(e)
                       \/ CancelEvent(e)
  BY DEF CoreStep
<1>1. row \in [Target -> RowType]
  BY DEF TypeOK
<1>w. worker' = worker => WorkersOK'
  BY DEF TypeOK, WorkersOK, Busy
<1>2. CASE PersistDecision(e)
  BY <1>1, <1>2, <1>w, InsertTyped DEF PersistDecision, TypeOK, EventType
<1>3. CASE PersistScheduledReport(e)
  BY <1>1, <1>3, <1>w, InsertTyped DEF PersistScheduledReport, TypeOK, EventType
<1>4. CASE PersistOperatorNotification(e)
  <2>1. Superseded(e) \in SUBSET Target
    BY DEF Superseded
  <2>2. /\ CancelRows(Superseded(e)) \in [Target -> RowType]
        /\ CancelReceipts(Superseded(e)) \subseteq ReceiptType
    BY <1>1, <2>1, CancelTyped
  <2>3. /\ event' \in [Event -> EventType]
        /\ row' \in [Target -> RowType]
    BY <1>4, <2>2, InsertTyped DEF PersistOperatorNotification
  <2>4. receipts' \subseteq ReceiptType
    BY <1>4, <2>2 DEF PersistOperatorNotification, TypeOK, ReceiptType
  <2> QED BY <1>4, <1>w, <2>3, <2>4
          DEF PersistOperatorNotification, TypeOK, EventType, ReceiptType
<1>5. CASE CancelEvent(e)
  <2>1. TargetsOf(e) \in SUBSET Target
    BY DEF TargetsOf
  <2>2. /\ CancelRows(TargetsOf(e)) \in [Target -> RowType]
        /\ CancelReceipts(TargetsOf(e)) \subseteq ReceiptType
    BY <1>1, <2>1, CancelTyped
  <2> QED BY <1>5, <1>w, <2>2 DEF CancelEvent, TypeOK, ReceiptType
<1> QED BY <1>2, <1>3, <1>4, <1>5

LEMMA TypeOperator ==
    ASSUME TypeOK, OperatorStep
    PROVE  TypeOK'
<1> PICK t \in Target : AcknowledgeFailure(t) \/ ReplayFailure(t)
  BY DEF OperatorStep
<1>1. row \in [Target -> RowType] /\ now \in Nat
  BY DEF TypeOK
<1>w. worker' = worker => WorkersOK'
  BY DEF TypeOK, WorkersOK, Busy
<1>2. CASE AcknowledgeFailure(t)
  BY <1>2, <1>w DEF AcknowledgeFailure, TypeOK, RowType
<1>3. CASE ReplayFailure(t)
  <2>1. row' \in [Target -> RowType]
    <3>1. row[t].replay + 1 \in Nat
      BY <1>1 DEF RowType
    <3> QED BY <1>1, <1>3, <3>1, ReplayedType DEF ReplayFailure
  <2> QED BY <1>3, <1>w, <2>1 DEF ReplayFailure, TypeOK
<1> QED BY <1>2, <1>3

\* Whatever a worker reads from the clock is a natural number.
LEMMA ClockReadsNat ==
    ASSUME TypeOK, NEW w \in Worker, NEW s \in ClockReads(w)
    PROVE  s \in Nat
BY DEF TypeOK, ClockReads, WorkersOK, WorkerType

LEMMA TypeLease ==
    ASSUME TypeOK, NEW w \in Worker,
           Open(w) \/ RefreshOwner(w) \/ Exit(w) \/ Crash(w)
    PROVE  TypeOK'
<1>1. /\ owner \in OwnerType /\ OwnerTerm \in Nat /\ now \in Nat
      /\ WorkersOK /\ worker[w] \in WorkerType
  BY ConstantsAssumption DEF TypeOK, OwnerType, WorkersOK
<1>2. CASE Open(w)
  <2> PICK s \in 1 .. now :
        /\ owner' = Acquired(owner, w, s, OwnerTerm)
        /\ worker' = [worker EXCEPT ![w] =
             [Down EXCEPT !.pc = "idle", !.at = now, !.gen = owner'.gen,
                          !.until = s + OwnerTerm]]
    BY <1>2 DEF Open
  <2>1. s \in Nat
    BY <1>1
  <2>2. owner' \in OwnerType
    BY <1>1, <2>1, AcquiredType
  <2>3. owner'.gen \in Nat /\ s + OwnerTerm \in Nat
    BY <1>1, <2>1, <2>2 DEF OwnerType
  <2>4. LET r == [Down EXCEPT !.pc = "idle", !.at = now, !.gen = owner'.gen,
                              !.until = s + OwnerTerm]
        IN  r \in WorkerType /\ r.pc = "idle"
    BY <1>1, <2>3 DEF WorkerType, Down
  <2>5. WorkersOK'
    BY <1>1, <2>4, WorkerMoves
  <2> QED BY <1>2, <2>2, <2>5 DEF Open, TypeOK, OwnerType
<1>3. CASE RefreshOwner(w)
  <2> PICK s \in ClockReads(w) :
        /\ \/ owner' = Renewed(owner, s, OwnerTerm)
           \/ owner' = Acquired(owner, w, s, OwnerTerm)
        /\ worker' = [worker EXCEPT ![w] =
             [worker[w] EXCEPT !.pc = "recover", !.at = s, !.gen = owner'.gen,
                               !.until = s + OwnerTerm]]
    BY <1>3 DEF RefreshOwner
  <2>1. s \in Nat
    BY ClockReadsNat
  <2>2. owner' \in OwnerType
    BY <1>1, <2>1, AcquiredType DEF Renewed, OwnerType
  <2>3. owner'.gen \in Nat /\ s + OwnerTerm \in Nat
    BY <1>1, <2>1, <2>2 DEF OwnerType
  <2>4. \A q \in WorkerType :
          LET r == [q EXCEPT !.pc = "recover", !.at = s, !.gen = owner'.gen,
                             !.until = s + OwnerTerm]
          IN  r \in WorkerType /\ r.pc = "recover"
    BY <2>1, <2>3 DEF WorkerType
  <2>5. WorkersOK'
    BY <1>1, <2>4, WorkerMoves
  <2> QED BY <1>3, <2>2, <2>5 DEF RefreshOwner, TypeOK, OwnerType
<1>4. CASE Exit(w)
  <2>1. owner' \in OwnerType
    BY <1>1, <1>4 DEF Exit, Released, OwnerType
  <2>2. WorkersOK'
    BY <1>1, <1>4, WorkerRests DEF Exit
  <2> QED BY <1>4, <2>1, <2>2 DEF Exit, TypeOK, OwnerType
<1>5. CASE Crash(w)
  <2>1. owner' \in OwnerType
    BY <1>1, <1>5 DEF Crash, OwnerType
  <2>2. WorkersOK'
    BY <1>1, <1>5, WorkerRests DEF Crash
  <2> QED BY <1>5, <2>1, <2>2 DEF Crash, TypeOK, OwnerType
<1> QED BY <1>2, <1>3, <1>4, <1>5

LEMMA TypeRecover ==
    ASSUME TypeOK, NEW w \in Worker, RecoverStaleClaims(w)
    PROVE  TypeOK'
<1> DEFINE s == worker[w].at
<1>1. /\ s \in Nat /\ row \in [Target -> RowType]
      /\ WorkersOK /\ worker[w] \in WorkerType
  BY DEF TypeOK, WorkersOK, WorkerType
<1>2. \A t \in Target : Recovered(t, s) \in RowType
  BY <1>1, UnclaimedType DEF Recovered, Statuses
<1>3. \A t \in Target : RecoveryReceipt(t) \in ReceiptType
  BY <1>1, ReceiptIsTyped DEF RecoveryReceipt, ReceiptOutcomes
<1>4. row' \in [Target -> RowType]
  BY <1>1, <1>2 DEF RecoverStaleClaims
<1>5. receipts' \subseteq ReceiptType
  BY <1>3 DEF RecoverStaleClaims, Stale, TypeOK, ReceiptType
<1>6. \A q \in WorkerType :
        LET r == [q EXCEPT !.pc = "claim"] IN r \in WorkerType /\ r.pc = "claim"
  BY DEF WorkerType
<1>7. WorkersOK'
  BY <1>1, <1>6, WorkerMoves DEF RecoverStaleClaims
<1> QED BY <1>4, <1>5, <1>7 DEF RecoverStaleClaims, TypeOK, ReceiptType

LEMMA TypeClaim ==
    ASSUME TypeOK, NEW w \in Worker, ClaimNext(w)
    PROVE  TypeOK'
<1> DEFINE s == worker[w].at
<1>0. /\ row \in [Target -> RowType] /\ now \in Nat
      /\ WorkersOK /\ worker[w] \in WorkerType
  BY DEF TypeOK, WorkersOK
<1>1. s \in Nat /\ worker[w].gen \in Nat /\ s + ClaimTerm \in Nat
  BY <1>0, ConstantsAssumption DEF WorkerType
<1>2. ExpireRows(s) \in [Target -> RowType]
  BY <1>0, <1>1, UnclaimedType DEF ExpireRows, Statuses
<1>3. ExpireReceipts(s) \subseteq ReceiptType
  BY <1>0, <1>1, ReceiptIsTyped DEF ExpireReceipts, Overdue, ReceiptOutcomes
<1>4. receipts' \subseteq ReceiptType
  BY <1>3 DEF ClaimNext, TypeOK, ReceiptType
<1>5. row' \in [Target -> RowType] /\ WorkersOK'
  <2>1. CASE row' = ExpireRows(s) /\ worker' = [worker EXCEPT ![w] = Idle(w, "idle", now)]
    BY <1>0, <1>1, <1>2, <2>1, WorkerRests
  <2>2. ASSUME NEW t \in First(Due(s)),
               row' = [ExpireRows(s) EXCEPT ![t] = ClaimRow(w, t, s)],
               worker' = [worker EXCEPT ![w] =
                 [worker[w] EXCEPT !.pc = "process", !.at = now, !.target = t,
                                   !.seq = row'[t].seq, !.no = row[t].count + 1]]
        PROVE  row' \in [Target -> RowType] /\ WorkersOK'
    <3>1. t \in Target
      BY <2>2 DEF First, Due
    <3>2. ClaimRow(w, t, s) \in RowType
      <4>1. row[t].seq + 1 \in Nat
        BY <1>0, <1>1, <3>1 DEF RowType
      <4> QED BY <1>0, <1>1, <3>1, <4>1, ClaimedType DEF ClaimRow
    <3>3. row' \in [Target -> RowType]
      BY <1>2, <2>2, <3>1, <3>2
    <3>4. row'[t].seq \in Nat /\ row[t].count + 1 \in Nat /\ row[t].count + 1 > 0
      BY <1>0, <1>1, <3>1, <3>3 DEF RowType
    <3>5. \A q \in WorkerType :
            LET r == [q EXCEPT !.pc = "process", !.at = now, !.target = t,
                               !.seq = row'[t].seq, !.no = row[t].count + 1]
            IN  /\ r \in WorkerType /\ r.pc = "process"
                /\ r.target = t /\ r.no = row[t].count + 1
      BY <1>0, <1>1, <3>1, <3>4 DEF WorkerType
    <3>6. WorkersOK'
      BY <1>0, <2>2, <3>1, <3>4, <3>5, WorkerMoves
    <3> QED BY <3>3, <3>6
  <2> QED BY <2>1, <2>2 DEF ClaimNext
<1> QED BY <1>4, <1>5 DEF ClaimNext, TypeOK, ReceiptType

LEMMA TypeReject ==
    ASSUME TypeOK, NEW w \in Worker, RejectBeforeTransport(w)
    PROVE  TypeOK'
<1> DEFINE t == worker[w].target
<1>1. row \in [Target -> RowType] /\ now \in Nat /\ WorkersOK
  BY DEF TypeOK
<1>2. t \in Target
  BY DEF TypeOK, WorkersOK, Busy, RejectBeforeTransport
<1>3. row' \in [Target -> RowType]
  <2>1. Unclaimed(row[t], "dead_letter", 0) \in RowType
    BY <1>1, <1>2, UnclaimedType DEF Statuses
  <2> QED BY <1>1, <2>1 DEF RejectBeforeTransport
<1>4. receipts' \subseteq ReceiptType
  <2>1. Receipt(t, FALSE, "permanent_failure") \in ReceiptType
    BY <1>1, <1>2, ReceiptIsTyped DEF ReceiptOutcomes
  <2> QED BY <2>1 DEF RejectBeforeTransport, TypeOK, ReceiptType
<1>5. WorkersOK'
  BY <1>1, WorkerRests DEF RejectBeforeTransport
<1> QED BY <1>3, <1>4, <1>5 DEF RejectBeforeTransport, TypeOK, ReceiptType

\* The three outcomes of begin_transport touch the rows, the receipts, the
\* attempts and the worker.
LEMMA TypeBegin ==
    ASSUME TypeOK, NEW w \in Worker, BeginTransport(w)
    PROVE  TypeOK'
<1> DEFINE t == worker[w].target
<1>1. /\ row \in [Target -> RowType] /\ now \in Nat
      /\ WorkersOK /\ worker[w] \in WorkerType
  BY DEF TypeOK, WorkersOK
<1>2. t \in Target /\ worker[w].no > 0
  BY DEF TypeOK, WorkersOK, Busy, BeginTransport
<1> PICK s \in ClockReads(w) :
      BeginWithdrawn(w) \/ BeginTerminal(w, s) \/ BeginStarted(w, s)
  BY DEF BeginTransport
<1>3. s + ClaimTerm \in Nat /\ s \in Nat
  BY ClockReadsNat, ConstantsAssumption
<1>4. CASE BeginWithdrawn(w)
  <2>1. WorkersOK'
    BY <1>1, <1>4, WorkerRests DEF BeginWithdrawn
  <2> QED BY <1>4, <2>1 DEF BeginWithdrawn, BeginTransport, TypeOK
<1>5. CASE BeginTerminal(w, s)
  <2>1. row' \in [Target -> RowType]
    <3>1. \A x \in {"cancelled", "expired"} : Unclaimed(row[t], x, 0) \in RowType
      BY <1>1, <1>2, UnclaimedType DEF Statuses
    <3> QED BY <1>1, <1>5, <3>1 DEF BeginTerminal
  <2>2. receipts' \subseteq ReceiptType
    <3>1. \A o \in {"cancelled_before_transport", "expired_before_transport"} :
            Receipt(t, FALSE, o) \in ReceiptType
      BY <1>1, <1>2, ReceiptIsTyped DEF ReceiptOutcomes
    <3> QED BY <1>5, <3>1 DEF BeginTerminal, TypeOK, ReceiptType
  <2>3. WorkersOK'
    BY <1>1, <1>5, WorkerRests DEF BeginTerminal
  <2> QED BY <1>5, <2>1, <2>2, <2>3 DEF BeginTerminal, BeginTransport, TypeOK, ReceiptType
<1>6. CASE BeginStarted(w, s)
  <2>1. row' \in [Target -> RowType]
    <3>1. row[t].count + 1 \in Nat
      BY <1>1, <1>2 DEF RowType
    <3> QED BY <1>1, <1>2, <1>3, <1>6, <3>1, StartedType DEF BeginStarted
  <2>2. Attempt(w, s) \in [target : Target, seq : Nat, gen : Nat, replay : Nat,
                           no : Nat, startedAt : Nat]
    <3>1. worker[w].seq \in Nat /\ worker[w].gen \in Nat /\ worker[w].no \in Nat
      BY <1>1 DEF WorkerType
    <3>2. row[t].replay \in Nat
      BY <1>1, <1>2 DEF RowType
    <3> QED BY <1>2, <1>3, <3>1, <3>2 DEF Attempt
  <2>3. \A q \in WorkerType :
          LET r == [q EXCEPT !.pc = "send", !.at = now]
          IN  /\ r \in WorkerType /\ r.pc = "send"
              /\ r.target = q.target /\ r.no = q.no
    BY <1>1 DEF WorkerType
  <2>4. WorkersOK'
    BY <1>1, <1>2, <1>6, <2>3, WorkerMoves DEF BeginStarted
  <2> QED BY <1>6, <2>1, <2>2, <2>4 DEF BeginStarted, BeginTransport, TypeOK
<1> QED BY <1>4, <1>5, <1>6

LEMMA TypeSend ==
    ASSUME TypeOK, NEW w \in Worker, Send(w)
    PROVE  TypeOK'
<1>1. /\ now \in Nat /\ WorkersOK /\ worker[w] \in WorkerType
  BY DEF TypeOK, WorkersOK
<1>2. worker[w].target \in Target /\ worker[w].no > 0
  BY <1>1 DEF WorkersOK, Busy, Send
<1>s. worker[w].seq \in Nat
  BY <1>1 DEF WorkerType
<1> PICK o \in Results :
      worker' = [worker EXCEPT ![w] =
        [worker[w] EXCEPT !.pc = "settle", !.at = now, !.result = o]]
  BY DEF Send
<1>4. \A q \in WorkerType :
        LET r == [q EXCEPT !.pc = "settle", !.at = now, !.result = o]
        IN  /\ r \in WorkerType
            /\ r.target = q.target /\ r.no = q.no /\ r.result = o
  BY <1>1 DEF WorkerType
<1>5. WorkersOK'
  BY <1>1, <1>2, <1>4, WorkerMoves
<1>6. received' \subseteq Target \X Nat
  BY <1>2, <1>s DEF Send, TypeOK
<1> QED BY <1>5, <1>6 DEF Send, TypeOK

LEMMA TypeSettle ==
    ASSUME TypeOK, NEW w \in Worker, Settle(w)
    PROVE  TypeOK'
<1> DEFINE t == worker[w].target
           result == worker[w].result
           status == SettledStatus(t, result)
<1>1. /\ row \in [Target -> RowType] /\ now \in Nat
      /\ WorkersOK /\ worker[w] \in WorkerType
  BY DEF TypeOK, WorkersOK
<1>2. t \in Target /\ result \in Results /\ worker[w].no > 0
  BY <1>1 DEF WorkersOK, Busy, Settle
<1>3. status \in Statuses /\ SettledOutcome(t, result) \in ReceiptOutcomes
  BY <1>2 DEF SettledStatus, SettledOutcome, Results, Statuses, ReceiptOutcomes
<1>4. RetryDelay(worker[w].no) \in Nat
  <2>1. worker[w].no \in Nat
    BY <1>1 DEF WorkerType
  <2>2. /\ RetrySchedule \in Seq(Nat \ {0})
        /\ Len(RetrySchedule) > 0
    BY ConstantsAssumption
  <2>3. /\ Len(RetrySchedule) \in Nat
        /\ \A i \in 1 .. Len(RetrySchedule) : RetrySchedule[i] \in Nat
    BY <2>2
  <2> QED BY <1>2, <2>1, <2>2, <2>3 DEF RetryDelay
<1>5. row' \in [Target -> RowType]
  <2> PICK s \in ClockReads(w) :
        row' = [row EXCEPT ![t] =
          Unclaimed(row[t], status,
                    IF status = "pending" THEN s + RetryDelay(worker[w].no) ELSE 0)]
    BY DEF Settle
  <2>1. s \in Nat
    BY ClockReadsNat
  <2>2. \A n \in Nat : Unclaimed(row[t], status, n) \in RowType
    BY <1>1, <1>2, <1>3, UnclaimedType
  <2> DEFINE due == IF status = "pending" THEN s + RetryDelay(worker[w].no) ELSE 0
  <2>3. due \in Nat
    <3>1. s + RetryDelay(worker[w].no) \in Nat
      BY <1>4, <2>1
    <3> QED BY <3>1
  <2>4. Unclaimed(row[t], status, due) \in RowType
    BY <2>2, <2>3
  <2>5. row' = [row EXCEPT ![t] = Unclaimed(row[t], status, due)]
    OBVIOUS
  <2> HIDE DEF due, status
  <2> QED BY <1>1, <1>2, <2>4, <2>5
<1>6. receipts' \subseteq ReceiptType
  <2>1. Receipt(t, TRUE, SettledOutcome(t, result)) \in ReceiptType
    BY <1>1, <1>2, <1>3, ReceiptIsTyped
  <2> QED BY <2>1 DEF Settle, TypeOK, ReceiptType
<1>7. WorkersOK'
  BY <1>1, WorkerRests DEF Settle
<1> QED BY <1>5, <1>6, <1>7 DEF Settle, TypeOK, ReceiptType

\* The tables, the workers and the clock keep their types, for every number of
\* workers and targets: in particular a worker past its claim always has a
\* target and an attempt number to index the retry schedule with.
THEOREM TypeCorrect == Spec => []TypeOK
<1>1. Init => TypeOK
  BY TypeInit
<1>2. TypeOK /\ [Next]_vars => TypeOK'
  <2> SUFFICES ASSUME TypeOK, [Next]_vars PROVE TypeOK'
    OBVIOUS
  <2>w. worker' = worker => WorkersOK'
    BY DEF TypeOK, WorkersOK, Busy
  <2>1. CASE Tick
    BY <2>1, <2>w DEF Tick, TypeOK
  <2>2. CASE CoreStep
    BY <2>2, TypeCore
  <2>3. CASE OperatorStep
    BY <2>3, TypeOperator
  <2>4. ASSUME NEW w \in Worker, WorkerStep(w)
        PROVE  TypeOK'
    BY <2>4, TypeLease, TypeRecover, TypeClaim, TypeReject, TypeBegin, TypeSend, TypeSettle
       DEF WorkerStep
  <2>5. CASE UNCHANGED vars
    BY <2>5, <2>w DEF vars, TypeOK
  <2> QED BY <2>1, <2>2, <2>3, <2>4, <2>5 DEF Next
<1> QED BY <1>1, <1>2, PTL DEF Spec
=============================================================================
