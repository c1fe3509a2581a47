--------------------------- MODULE DeliveryLedger ---------------------------
(***************************************************************************)
(* The notification outbox of spx-ledger and the delivery workers of       *)
(* spx-delivery that drain it.  Every action on the ledger is one          *)
(* immediate SQLite transaction; a worker's cycle is several of them with  *)
(* an HTTP request in the middle, so other workers, Core (which persists   *)
(* and cancels notifications), the operator and the clock interleave       *)
(* between any two.                                                        *)
(*                                                                         *)
(* Abstractions.  A claim token is random and fresh, and the pair (target, *)
(* lease_sequence) identifies it: the model keeps the pair.  So does an    *)
(* attempt id, because a claim starts at most one attempt.  NULL times are *)
(* 0; the clock starts at 1.                                               *)
(***************************************************************************)
EXTENDS Integers, FiniteSets, Sequences, OwnerLease

CONSTANTS
    Worker,         \* delivery processes that may be started
    Event,          \* notification events
    Target,         \* (event, target key) pairs
    EventOf,        \* the event of each target
    Kind,           \* lane and role of each event
    Opportunity,    \* opportunity of each trader event
    Generation,     \* opportunity generation of each trader event
    Slot,           \* half-hour slot of each scheduled report
    Configured,     \* targets the workers have an adapter for
    Ttl,            \* lifetime of every event
    MaxAttempts,    \* attempt budget of every target
    OwnerTerm,      \* owner_lease_seconds
    ClaimTerm,      \* claim_lease_seconds
    RetrySchedule,  \* retry_schedule_seconds
    IngressDelay,   \* how long after its creation an event may be stored
    NoWorker, NoTarget,
    MaxTime, MaxGen, MaxReplay  \* bounds: the clock, owner generations, replays of a target

Kinds == {"intent", "report", "setup", "trade_ready", "cancel", "exit"}
OperatorKinds == {"setup", "trade_ready", "cancel", "exit"}

ASSUME ConstantsAssumption ==
    /\ EventOf \in [Target -> Event]
    /\ Kind \in [Event -> Kinds]
    /\ Configured \subseteq Target
    /\ Generation \in [Event -> Nat]
    /\ Ttl \in Nat \ {0}
    /\ MaxAttempts \in Nat \ {0}
    /\ ClaimTerm \in Nat \ {0}
    /\ OwnerTerm \in Nat /\ ClaimTerm < OwnerTerm
    /\ RetrySchedule \in Seq(Nat \ {0}) /\ Len(RetrySchedule) > 0
    /\ IngressDelay \in Nat
    /\ NoWorker \notin Worker
    /\ NoTarget \notin Target
    /\ MaxTime \in Nat /\ MaxGen \in Nat /\ MaxReplay \in Nat

VARIABLES
    now,        \* the wall clock, shared by the processes of the host
    owner,      \* the runtime_owners row of the Delivery role
    event,      \* notification_events
    cancelled,  \* notification_cancellations
    row,        \* notification_targets
    attempts,   \* delivery_attempts
    receipts,   \* delivery_receipts
    worker,     \* the delivery processes
    received    \* which attempts reached their recipient (seen by nobody)

vars == <<now, owner, event, cancelled, row, attempts, receipts, worker, received>>

-----------------------------------------------------------------------------
(* Rows *)

Statuses == {"absent", "pending", "claimed", "in_flight", "delivered",
             "dead_letter", "cancelled", "expired", "uncertain"}

NoEvent == [occurred |-> 0, expires |-> 0]
Stored(e) == event[e] # NoEvent

AbsentRow == [status |-> "absent", count |-> 0, replay |-> 0, seq |-> 0,
              nextAt |-> 0, claimGen |-> 0, claimedAt |-> 0, leaseUntil |-> 0,
              attempt |-> FALSE, ack |-> FALSE]

NewRow(createdAt) == [AbsentRow EXCEPT !.status = "pending", !.nextAt = createdAt]

\* Mutant of Unclaimed: current_attempt_id survives the claim.
Unclaimed_KeepsAttempt(r, status, nextAt) ==
    [r EXCEPT !.status = status, !.nextAt = nextAt, !.claimGen = 0,
              !.claimedAt = 0, !.leaseUntil = 0]

\* The columns every UPDATE that ends a claim sets to NULL.
Unclaimed(r, status, nextAt) ==
    [r EXCEPT !.status = status, !.nextAt = nextAt, !.claimGen = 0,
              !.claimedAt = 0, !.leaseUntil = 0, !.attempt = FALSE]

\* A receipt belongs to an attempt exactly when its claim started one.
Receipt(t, attempted, outcome) ==
    [target |-> t, seq |-> row[t].seq, replay |-> row[t].replay,
     attempted |-> attempted, outcome |-> outcome]

\* A worker with nothing claimed.
Idle(w, pc, at) ==
    [worker[w] EXCEPT !.pc = pc, !.at = at, !.target = NoTarget,
                      !.seq = 0, !.no = 0, !.result = "none"]

Down == [pc |-> "down", at |-> 0, gen |-> 0, until |-> 0,
             target |-> NoTarget, seq |-> 0, no |-> 0, result |-> "none"]

Init ==
    /\ now = 1
    /\ owner = NoLease(NoWorker)
    /\ event = [e \in Event |-> NoEvent]
    /\ cancelled = {}
    /\ row = [t \in Target |-> AbsentRow]
    /\ attempts = {}
    /\ receipts = {}
    /\ worker = [w \in Worker |-> Down]
    /\ received = {}

Tick ==
    /\ now < MaxTime
    /\ now' = now + 1
    /\ UNCHANGED <<owner, event, cancelled, row, attempts, receipts, worker, received>>

-----------------------------------------------------------------------------
(* Core and the report service: storing and cancelling notifications.  They *)
(* hold role leases of their own (OwnerLease) and their clock is `now'; an  *)
(* exact duplicate is answered without a change and is a stuttering step.   *)

TargetsOf(e) == {t \in Target : EventOf[t] = e}

\* Mutant of CancelRows: a claimed row is left to its worker.
CancelRows_PendingOnly(ts) ==
    [t \in Target |->
        IF t \in ts /\ row[t].status = "pending"
        THEN Unclaimed(row[t], "cancelled", 0)
        ELSE row[t]]

\* Withdraws the pending and claimed rows among ts.
CancelRows(ts) ==
    [t \in Target |->
        IF t \in ts /\ row[t].status \in {"pending", "claimed"}
        THEN Unclaimed(row[t], "cancelled", 0)
        ELSE row[t]]

CancelReceipts(ts) ==
    {Receipt(t, FALSE, "cancelled_before_transport") :
        t \in {u \in ts : row[u].status \in {"pending", "claimed"}}}

\* The INSERT of an event and of its targets, which are due from creation on.
\* The trigger notification_events_cancellation_fence aborts it when the
\* event's cancellation came first.
InsertEvent(e, createdAt, rows) ==
    /\ ~Stored(e)
    /\ e \notin cancelled
    /\ event' = [event EXCEPT ![e] = [occurred |-> createdAt, expires |-> createdAt + Ttl]]
    /\ row' = [t \in Target |-> IF EventOf[t] = e THEN NewRow(createdAt) ELSE rows[t]]

CreationTimes == {c \in 1 .. now : now - c <= IngressDelay}

\* persist_decision with an intent: one NotificationIntentV1 per event id.
PersistDecision(e) ==
    /\ Kind[e] = "intent"
    /\ \E createdAt \in CreationTimes : InsertEvent(e, createdAt, row)
    /\ UNCHANGED <<now, owner, cancelled, attempts, receipts, worker, received>>

\* Mutant of SlotTaken: only the event id is looked up.
SlotTaken_ById(e) == Stored(e)

\* The slot is taken by another stored report.
SlotTaken(e) == \E f \in Event : Stored(f) /\ Kind[f] = "report" /\ Slot[f] = Slot[e]

\* persist_scheduled_report: a second event for a stored slot is a collision.
PersistScheduledReport(e) ==
    /\ Kind[e] = "report"
    /\ ~SlotTaken(e)
    /\ \E createdAt \in CreationTimes : InsertEvent(e, createdAt, row)
    /\ UNCHANGED <<now, owner, cancelled, attempts, receipts, worker, received>>

\* The stored trader events of e's opportunity.
Lifecycle(e) ==
    {f \in Event : /\ Stored(f)
                   /\ Kind[f] \in OperatorKinds
                   /\ Opportunity[f] = Opportunity[e]}

SameGeneration(e) == {f \in Lifecycle(e) : Generation[f] = Generation[e]}

\* enforce_operator_lifecycle
Suppressed(e) ==
    \/ \E f \in Lifecycle(e) : Generation[f] > Generation[e]
    \/ \E f \in SameGeneration(e) :
         \/ Kind[f] = "exit"
         \/ Kind[f] = "cancel" /\ Kind[e] # "exit"
         \/ Kind[f] = "trade_ready" /\ Kind[e] \in {"setup", "trade_ready"}

\* supersede_prior_operator_targets: the roles a later role withdraws.
Supersedes(kind) ==
    CASE kind = "trade_ready" -> {"setup"}
      [] kind = "cancel"      -> {"setup", "trade_ready"}
      [] kind = "exit"        -> {"setup", "trade_ready", "cancel"}
      [] OTHER                -> {}

Superseded(e) ==
    {t \in Target : /\ EventOf[t] \in SameGeneration(e)
                    /\ Kind[EventOf[t]] \in Supersedes(Kind[e])}

PersistOperatorNotification(e) ==
    /\ Kind[e] \in OperatorKinds
    /\ ~Suppressed(e)
    /\ \E createdAt \in CreationTimes : InsertEvent(e, createdAt, CancelRows(Superseded(e)))
    /\ receipts' = receipts \union CancelReceipts(Superseded(e))
    /\ UNCHANGED <<now, owner, cancelled, attempts, worker, received>>

\* cancel_event_at: the fence is permanent, may precede the event, and may be
\* repeated; a started transport is left alone.
CancelEvent(e) ==
    /\ cancelled' = cancelled \union {e}
    /\ row' = CancelRows(TargetsOf(e))
    /\ receipts' = receipts \union CancelReceipts(TargetsOf(e))
    /\ UNCHANGED <<now, owner, event, attempts, worker, received>>

-----------------------------------------------------------------------------
(* The operator: receipt tooling on terminal failures (operator.rs).        *)

AcknowledgeFailure(t) ==
    /\ row[t].status \in {"dead_letter", "expired", "uncertain"}
    /\ ~row[t].ack
    /\ row' = [row EXCEPT ![t].ack = TRUE]
    /\ UNCHANGED <<now, owner, event, cancelled, attempts, receipts, worker, received>>

\* Mutant of Replayable: a cancelled target can be replayed.
Replayable_Cancelled(t) == row[t].status \in {"dead_letter", "uncertain", "cancelled"}

\* The states replay_failure accepts.
Replayable(t) == row[t].status \in {"dead_letter", "uncertain"}

\* The model bounds the replays of a target by MaxReplay.
ReplayFailure(t) ==
    /\ Replayable(t)
    /\ event[EventOf[t]].expires > now
    /\ row[t].replay < MaxReplay
    /\ row' = [row EXCEPT ![t] =
         [row[t] EXCEPT !.status = "pending", !.count = 0, !.replay = row[t].replay + 1,
                        !.nextAt = now, !.ack = FALSE]]
    /\ UNCHANGED <<now, owner, event, cancelled, attempts, receipts, worker, received>>

-----------------------------------------------------------------------------
(* A delivery worker.  worker[w].at is the timestamp its cycle runs on while *)
(* it refreshes, recovers and claims (run_once_inner reads the clock once),  *)
(* and otherwise the earliest value its next clock read can return.          *)

ClockReads(w) == worker[w].at .. now

OwnsRole(w, s) == Owns(owner, w, worker[w].gen, s)

\* The model bounds the generations the role goes through by MaxGen.
MayAcquire(w, s) == Acquirable(owner, w, s) /\ owner.gen < MaxGen

\* DeliveryWorker::open under a fresh owner id; the process may have read the
\* clock long before.
Open(w) ==
    /\ worker[w].pc = "down"
    /\ \E s \in 1 .. now :
         /\ MayAcquire(w, s)
         /\ owner' = Acquired(owner, w, s, OwnerTerm)
         /\ worker' = [worker EXCEPT ![w] =
              [Down EXCEPT !.pc = "idle", !.at = now, !.gen = owner'.gen, !.until = s + OwnerTerm]]
    /\ UNCHANGED <<now, event, cancelled, row, attempts, receipts, received>>

\* refresh_owner: renews what the worker believes to be live, else reacquires.
RefreshOwner(w) ==
    /\ worker[w].pc = "idle"
    /\ \E s \in ClockReads(w) :
         /\ IF worker[w].until > s
            THEN /\ OwnsRole(w, s)
                 /\ owner' = Renewed(owner, s, OwnerTerm)
            ELSE /\ MayAcquire(w, s)
                 /\ owner' = Acquired(owner, w, s, OwnerTerm)
         /\ worker' = [worker EXCEPT ![w] =
              [worker[w] EXCEPT !.pc = "recover", !.at = s, !.gen = owner'.gen,
                                !.until = s + OwnerTerm]]
    /\ UNCHANGED <<now, event, cancelled, row, attempts, receipts, received>>

\* recover_stale_claims: unstarted work returns to the queue, started work
\* becomes uncertain.
Stale(s) == {t \in Target : /\ row[t].status \in {"claimed", "in_flight"}
                            /\ row[t].leaseUntil <= s}

\* Mutant of Recovered: started work returns to the queue as well.
Recovered_Requeues(t, s) == Unclaimed(row[t], "pending", s)

Recovered(t, s) ==
    IF row[t].status = "in_flight"
    THEN Unclaimed(row[t], "uncertain", 0)
    ELSE Unclaimed(row[t], "pending", s)

\* Mutant of RecoveryReceipt: a started attempt gets no receipt of its own.
RecoveryReceipt_Unattempted(t) == Receipt(t, FALSE, "claim_recovered")

RecoveryReceipt(t) ==
    IF row[t].status = "in_flight"
    THEN Receipt(t, TRUE, "transport_uncertain")
    ELSE Receipt(t, FALSE, "claim_recovered")

RecoverStaleClaims(w) ==
    LET s == worker[w].at IN
    /\ worker[w].pc = "recover"
    /\ OwnsRole(w, s)
    /\ row' = [t \in Target |-> IF t \in Stale(s) THEN Recovered(t, s) ELSE row[t]]
    /\ receipts' = receipts \union {RecoveryReceipt(t) : t \in Stale(s)}
    /\ worker' = [worker EXCEPT ![w] = [worker[w] EXCEPT !.pc = "claim"]]
    /\ UNCHANGED <<now, owner, event, cancelled, attempts, received>>

\* expire_due
Overdue(s) == {t \in Target : /\ row[t].status = "pending"
                              /\ event[EventOf[t]].expires <= s}

\* The SELECT of claim_next; an expired row is no longer pending.
Due(s) == {t \in Target : /\ row[t].status = "pending"
                          /\ row[t].nextAt <= s
                          /\ row[t].count < MaxAttempts
                          /\ event[EventOf[t]].expires > s}

Rank(kind) == CASE kind = "exit"                       -> 0
                [] kind = "cancel"                     -> 1
                [] kind \in {"intent", "trade_ready"}  -> 2
                [] kind = "setup"                      -> 3
                [] kind = "report"                     -> 4

\* ORDER BY rank, expires_at_us, occurred_at_us; the model leaves the order of
\* target ids open.
Precedes(t, u) ==
    LET e == EventOf[t]
        f == EventOf[u]
    IN  \/ Rank(Kind[e]) < Rank(Kind[f])
        \/ /\ Rank(Kind[e]) = Rank(Kind[f])
           /\ \/ event[e].expires < event[f].expires
              \/ /\ event[e].expires = event[f].expires
                 /\ event[e].occurred < event[f].occurred

\* Mutant of First: the SELECT lost its ORDER BY.
First_Any(ts) == ts

First(ts) == {t \in ts : \A u \in ts : ~Precedes(u, t)}

ClaimRow(w, t, s) ==
    [row[t] EXCEPT !.status = "claimed", !.seq = row[t].seq + 1, !.nextAt = 0,
                   !.claimGen = worker[w].gen, !.claimedAt = s,
                   !.leaseUntil = s + ClaimTerm]

ExpireRows(s) ==
    [t \in Target |-> IF t \in Overdue(s) THEN Unclaimed(row[t], "expired", 0) ELSE row[t]]

ExpireReceipts(s) == {Receipt(t, FALSE, "expired_before_transport") : t \in Overdue(s)}

\* claim_next, with a due target and without one.
ClaimNext(w) ==
    LET s == worker[w].at IN
    /\ worker[w].pc = "claim"
    /\ OwnsRole(w, s)
    /\ receipts' = receipts \union ExpireReceipts(s)
    /\ \/ \E t \in First(Due(s)) :
            /\ row' = [ExpireRows(s) EXCEPT ![t] = ClaimRow(w, t, s)]
            /\ worker' = [worker EXCEPT ![w] =
                 [worker[w] EXCEPT !.pc = "process", !.at = now, !.target = t,
                                   !.seq = row'[t].seq, !.no = row[t].count + 1]]
       \/ /\ Due(s) = {}
          /\ row' = ExpireRows(s)
          /\ worker' = [worker EXCEPT ![w] = Idle(w, "idle", now)]
    /\ UNCHANGED <<now, owner, event, cancelled, attempts, received>>

\* require_claim_in_transaction and require_in_flight_in_transaction.
HoldsClaim(w, status, s) ==
    LET r == row[worker[w].target] IN
    /\ r.status = status
    /\ r.claimGen = worker[w].gen
    /\ r.seq = worker[w].seq
    /\ r.leaseUntil > s

\* reject_before_transport: no adapter is configured for the target.
RejectBeforeTransport(w) ==
    LET t == worker[w].target IN
    /\ worker[w].pc = "process"
    /\ t \notin Configured
    /\ \E s \in ClockReads(w) : OwnsRole(w, s) /\ HoldsClaim(w, "claimed", s)
    /\ row' = [row EXCEPT ![t] = Unclaimed(row[t], "dead_letter", 0)]
    /\ receipts' = receipts \union {Receipt(t, FALSE, "permanent_failure")}
    /\ worker' = [worker EXCEPT ![w] = Idle(w, "idle", now)]
    /\ UNCHANGED <<now, owner, event, cancelled, attempts, received>>

\* The outcomes of begin_transport.  It answers Cancelled or Expired for a
\* row that already is, whoever changed it.
BeginWithdrawn(w) ==
    /\ row[worker[w].target].status \in {"cancelled", "expired"}
    /\ UNCHANGED <<row, receipts, attempts>>
    /\ worker' = [worker EXCEPT ![w] = Idle(w, "idle", now)]

\* terminal_without_transport is fenced by the claim token alone.
BeginTerminal(w, s) ==
    LET t == worker[w].target
        fenced == EventOf[t] \in cancelled
        status == IF fenced THEN "cancelled" ELSE "expired"
    IN  /\ row[t].status = "claimed"
        /\ row[t].seq = worker[w].seq
        /\ fenced \/ event[EventOf[t]].expires <= s
        /\ row' = [row EXCEPT ![t] = Unclaimed(row[t], status, 0)]
        /\ receipts' = receipts \union
             {Receipt(t, FALSE, IF fenced THEN "cancelled_before_transport"
                                          ELSE "expired_before_transport")}
        /\ UNCHANGED attempts
        /\ worker' = [worker EXCEPT ![w] = Idle(w, "idle", now)]

\* What begin_transport and start_transport_attempt recheck atomically.
MayStart(w, s) ==
    LET t == worker[w].target IN
    /\ EventOf[t] \notin cancelled
    /\ event[EventOf[t]].expires > s
    /\ HoldsClaim(w, "claimed", s)
    /\ row[t].count + 1 = worker[w].no
    /\ row[t].count < MaxAttempts

\* Mutant of Attempt: the number is read before the increment.
Attempt_OldCount(w, s) ==
    [target |-> worker[w].target, seq |-> worker[w].seq, gen |-> worker[w].gen,
     replay |-> row[worker[w].target].replay, no |-> worker[w].no - 1, startedAt |-> s]

Attempt(w, s) ==
    [target |-> worker[w].target, seq |-> worker[w].seq, gen |-> worker[w].gen,
     replay |-> row[worker[w].target].replay, no |-> worker[w].no, startedAt |-> s]

\* start_transport_attempt: the attempt is durable before the request is made.
BeginStarted(w, s) ==
    LET t == worker[w].target IN
    /\ MayStart(w, s)
    /\ row' = [row EXCEPT ![t] =
         [row[t] EXCEPT !.status = "in_flight", !.count = row[t].count + 1,
                        !.attempt = TRUE, !.leaseUntil = s + ClaimTerm]]
    /\ attempts' = attempts \union {Attempt(w, s)}
    /\ UNCHANGED receipts
    /\ worker' = [worker EXCEPT ![w] = [worker[w] EXCEPT !.pc = "send", !.at = now]]

BeginTransport(w) ==
    /\ worker[w].pc = "process"
    /\ worker[w].target \in Configured
    /\ \E s \in ClockReads(w) :
         /\ OwnsRole(w, s)
         /\ BeginWithdrawn(w) \/ BeginTerminal(w, s) \/ BeginStarted(w, s)
    /\ UNCHANGED <<now, owner, event, cancelled, received>>

\* Transport::send.  A provider's positive acknowledgement means the recipient
\* has the message, its refusal (an error code, a 429 or another 4xx) that it
\* does not; a timeout, a 5xx or a missing acknowledgement says nothing.
Results == {"delivered", "retryable", "permanent", "uncertain"}

Reached(result) ==
    CASE result = "delivered"                 -> {TRUE}
      [] result \in {"retryable", "permanent"} -> {FALSE}
      [] result = "uncertain"                 -> BOOLEAN

Send(w) ==
    /\ worker[w].pc = "send"
    /\ \E result \in Results : \E reached \in Reached(result) :
         /\ worker' = [worker EXCEPT ![w] =
              [worker[w] EXCEPT !.pc = "settle", !.at = now, !.result = result]]
         /\ received' = IF reached THEN received \union {<<worker[w].target, worker[w].seq>>}
                                   ELSE received
    /\ UNCHANGED <<now, owner, event, cancelled, row, attempts, receipts>>

\* attempt_matches_current_target
AttemptMatches(w) ==
    LET t == worker[w].target
        r == row[t]
    IN  \E a \in attempts :
          /\ a.target = t
          /\ a.seq = worker[w].seq
          /\ a.gen = worker[w].gen
          /\ r.status = "in_flight" /\ r.attempt
          /\ r.claimGen = a.gen
          /\ r.replay = a.replay
          /\ r.count = a.no
          /\ a.startedAt >= r.claimedAt
          /\ a.startedAt < r.leaseUntil

\* retry_at: the last delay of the schedule repeats.
RetryDelay(no) ==
    RetrySchedule[IF no <= Len(RetrySchedule) THEN no ELSE Len(RetrySchedule)]

\* Mutant of SettledStatus: a permanent rejection has a status of its own.
SettledStatus_Failed(t, result) ==
    CASE result = "delivered" -> "delivered"
      [] result = "retryable" -> "pending"
      [] result = "permanent" -> "failed"
      [] result = "uncertain" -> "uncertain"

\* Mutant of SettledStatus: an unknown outcome is retried.
SettledStatus_RetriesUnknown(t, result) ==
    CASE result = "delivered" -> "delivered"
      [] result \in {"retryable", "uncertain"} ->
           IF row[t].count >= MaxAttempts THEN "dead_letter" ELSE "pending"
      [] result = "permanent" -> "dead_letter"

\* settlement_plan: the row's next status, and when a retry is due.
SettledStatus(t, result) ==
    CASE result = "delivered" -> "delivered"
      [] result = "retryable" -> IF row[t].count >= MaxAttempts THEN "dead_letter" ELSE "pending"
      [] result = "permanent" -> "dead_letter"
      [] result = "uncertain" -> "uncertain"

SettledOutcome(t, result) ==
    CASE result = "delivered" -> "delivered"
      [] result = "retryable" -> IF row[t].count >= MaxAttempts
                                 THEN "retry_exhausted" ELSE "retryable_failure"
      [] result = "permanent" -> "permanent_failure"
      [] result = "uncertain" -> "transport_uncertain"

Settle(w) ==
    LET t == worker[w].target
        status == SettledStatus(t, worker[w].result)
    IN  /\ worker[w].pc = "settle"
        /\ \E s \in ClockReads(w) :
             /\ OwnsRole(w, s)
             /\ HoldsClaim(w, "in_flight", s)
             /\ AttemptMatches(w)
             /\ row' = [row EXCEPT ![t] =
                  Unclaimed(row[t], status, IF status = "pending" THEN s + RetryDelay(worker[w].no)
                                                             ELSE 0)]
        /\ receipts' = receipts \union {Receipt(t, TRUE, SettledOutcome(t, worker[w].result))}
        /\ worker' = [worker EXCEPT ![w] = Idle(w, "idle", now)]
        /\ UNCHANGED <<now, owner, event, cancelled, attempts, received>>

\* The process leaves its loop: the stop flag at the loop's head, or an error
\* of any transaction (a lost owner or claim fence, a storage failure).  The
\* destructor releases the lease if it is still this process's.
Exit(w) ==
    /\ worker[w].pc # "down"
    /\ owner' = Released(owner, w, worker[w].gen)
    /\ worker' = [worker EXCEPT ![w] = Down]
    /\ UNCHANGED <<now, event, cancelled, row, attempts, receipts, received>>

\* The process dies where it stands.  Its owner id is never used again.
Crash(w) ==
    /\ worker[w].pc # "down"
    /\ owner' = [owner EXCEPT !.id = IF @ = w THEN NoWorker ELSE @]
    /\ worker' = [worker EXCEPT ![w] = Down]
    /\ UNCHANGED <<now, event, cancelled, row, attempts, receipts, received>>

-----------------------------------------------------------------------------

CoreStep ==
    \E e \in Event : \/ PersistDecision(e)
                     \/ PersistScheduledReport(e)
                     \/ PersistOperatorNotification(e)
                     \/ CancelEvent(e)

OperatorStep == \E t \in Target : AcknowledgeFailure(t) \/ ReplayFailure(t)

WorkerStep(w) ==
    \/ Open(w)
    \/ RefreshOwner(w)
    \/ RecoverStaleClaims(w)
    \/ ClaimNext(w)
    \/ RejectBeforeTransport(w)
    \/ BeginTransport(w)
    \/ Send(w)
    \/ Settle(w)
    \/ Exit(w)
    \/ Crash(w)

Next == Tick \/ CoreStep \/ OperatorStep \/ \E w \in Worker : WorkerStep(w)

Spec == Init /\ [][Next]_vars
-----------------------------------------------------------------------------
(* Types *)

RowType == [status : Statuses, count : Nat, replay : Nat, seq : Nat,
            nextAt : Nat, claimGen : Nat, claimedAt : Nat, leaseUntil : Nat,
            attempt : BOOLEAN, ack : BOOLEAN]

WorkerType == [pc : {"down", "idle", "recover", "claim", "process", "send", "settle"},
               at : Nat, gen : Nat, until : Nat, target : Target \union {NoTarget},
               seq : Nat, no : Nat, result : Results \union {"none"}]

ReceiptOutcomes == {"delivered", "retryable_failure", "retry_exhausted",
                    "permanent_failure", "cancelled_before_transport",
                    "expired_before_transport", "transport_uncertain", "claim_recovered"}

\* A worker with a claim in its hands.
Busy(w) == worker[w].pc \in {"process", "send", "settle"}

WorkersOK ==
    /\ worker \in [Worker -> WorkerType]
    /\ \A w \in Worker : Busy(w) => worker[w].target \in Target /\ worker[w].no > 0
    /\ \A w \in Worker : worker[w].pc = "settle" => worker[w].result \in Results

\* The types of the tables, of the worker processes and of the clock; a busy
\* worker works on a target, and settles a result it has.
TypeOK ==
    /\ now \in Nat
    /\ owner \in [id : Worker \union {NoWorker}, gen : Nat, active : BOOLEAN, until : Nat]
    /\ event \in [Event -> [occurred : Nat, expires : Nat]]
    /\ cancelled \subseteq Event
    /\ row \in [Target -> RowType]
    /\ attempts \subseteq [target : Target, seq : Nat, gen : Nat, replay : Nat,
                           no : Nat, startedAt : Nat]
    /\ receipts \subseteq [target : Target, seq : Nat, replay : Nat,
                           attempted : BOOLEAN, outcome : ReceiptOutcomes]
    /\ WorkersOK
    /\ received \subseteq Target \X Nat

-----------------------------------------------------------------------------
(* Safety *)

Terminal == {"delivered", "dead_letter", "cancelled", "expired", "uncertain"}

\* The CHECK constraints of notification_targets (schema.rs) hold although no
\* action enforces them: no transaction of the code is ever aborted by one.
SchemaChecks ==
    \A t \in Target :
      LET r == row[t] IN
      /\ r.count <= MaxAttempts
      /\ r.status = "pending" => r.count < MaxAttempts /\ r.nextAt > 0
      /\ r.status # "pending" => r.nextAt = 0
      /\ r.status \in {"claimed", "in_flight"} => r.claimGen > 0 /\ r.leaseUntil > r.claimedAt
      /\ r.status \notin {"claimed", "in_flight"} =>
           r.claimGen = 0 /\ r.claimedAt = 0 /\ r.leaseUntil = 0
      /\ r.attempt <=> r.status = "in_flight"
      /\ r.status = "in_flight" => r.count > 0
      /\ r.ack => r.status \in {"dead_letter", "expired", "uncertain"}

\* A recipient sees a target at most once per replay generation: whatever
\* workers crash, stall past their leases or take over, a message the ledger
\* may have sent is sent again only after an operator's replay.
AtMostOncePerReplay ==
    \A a, b \in attempts :
      /\ a.target = b.target
      /\ a.replay = b.replay
      /\ <<a.target, a.seq>> \in received
      /\ <<b.target, b.seq>> \in received
      => a = b

\* The ledger never forgets a message that reached its recipient: until an
\* operator replays it, the row says in_flight, delivered or uncertain.
ReceivedIsRemembered ==
    \A a \in attempts :
      /\ <<a.target, a.seq>> \in received
      /\ a.replay = row[a.target].replay
      => row[a.target].status \in {"in_flight", "delivered", "uncertain"}

\* The evidence is complete and unambiguous: an attempt has exactly one receipt
\* unless it is the one its target is waiting for (receipt.rs, UNIQUE attempt_id),
\* and every receipt of an attempt belongs to a started one.
EvidenceComplete ==
    /\ \A a \in attempts :
         LET about == {r \in receipts : r.attempted /\ r.target = a.target /\ r.seq = a.seq}
             open  == row[a.target].attempt /\ row[a.target].seq = a.seq
         IN  Cardinality(about) = IF open THEN 0 ELSE 1
    /\ \A r \in receipts : r.attempted =>
         \E a \in attempts : a.target = r.target /\ a.seq = r.seq

\* When the fence of a settlement holds, so does the provenance check behind
\* it (attempt_matches_current_target): no true outcome is thrown away by it.
ProvenanceHolds ==
    \A w \in Worker :
      /\ worker[w].pc = "settle"
      /\ HoldsClaim(w, "in_flight", worker[w].at)
      => AttemptMatches(w)

\* Supersession and suppression together (ingress_decision.rs): once a later
\* role of the same opportunity generation is stored, the only waiting targets
\* of an earlier role are those a transport had already started for, and those
\* an operator has replayed since.
SupersededNeverFresh ==
    \A e \in Event : \A t \in Target :
      /\ Stored(e)
      /\ EventOf[t] \in SameGeneration(e)
      /\ Kind[EventOf[t]] \in Supersedes(Kind[e])
      /\ row[t].status \in {"pending", "claimed"}
      => row[t].replay > 0 \/ \E a \in attempts : a.target = t

\* A claim is handed out only when nothing more urgent is waiting to be sent.
UrgentFirst ==
    [][\A t, u \in Target :
         /\ row[t].status = "pending" /\ row'[t].status = "claimed"
         /\ row[u].status = "pending" /\ row'[u].status = "pending"
         /\ row[u].nextAt <= row'[t].claimedAt
         => Rank(Kind[EventOf[t]]) <= Rank(Kind[EventOf[u]])]_vars

\* persist_scheduled_report keeps one event per slot, so the desk is never
\* sent two reports of the same half hour.
SlotSentOnce ==
    \A a, b \in attempts :
      LET e == EventOf[a.target]
          f == EventOf[b.target]
      IN  /\ Kind[e] = "report" /\ Kind[f] = "report"
          /\ Slot[e] = Slot[f]
          => e = f

-----------------------------------------------------------------------------
(* Refinement: claims, leases and workers implement the outbox contract.    *)

PhaseOf(status) ==
    CASE status = "absent"                   -> "absent"
      [] status \in {"pending", "claimed"}   -> "queued"
      [] status = "in_flight"                -> "sending"
      [] status = "delivered"                -> "delivered"
      [] status = "dead_letter"              -> "failed"
      [] status \in {"cancelled", "expired"} -> "withdrawn"
      [] status = "uncertain"                -> "unknown"

Contract == INSTANCE OutboxContract WITH
    phase <- [t \in Target |-> PhaseOf(row[t].status)],
    round <- [t \in Target |-> row[t].replay],
    seen  <- {<<a.target, a.replay, a.seq>> :
                a \in {b \in attempts : <<b.target, b.seq>> \in received}}

\* The outbox and its workers implement OutboxContract: whatever crashes,
\* stalls and races of workers do, each target only makes the contract's moves.
ImplementsContract == Contract!ContractSpec
=============================================================================
