------------------------- MODULE NotificationQueue -------------------------
(***************************************************************************)
(* The Python notification queue: the tables notification_events and       *)
(* notification_attempts (infrastructure/notifications.py), the Huey       *)
(* worker that delivers scheduled rows, the jobs that deliver their own    *)
(* rows inline (dispatch_notification), the producers and the cancellers   *)
(* (notifier/unified_delivery.py, dispatcher.py, infrastructure/jobs.py).  *)
(*                                                                         *)
(* Atomicity.  engine.begin() on pysqlite sends no BEGIN: a transaction    *)
(* starts at the first INSERT or UPDATE, and the SELECTs before it are     *)
(* separate reads.  So a step here is either such a read or the            *)
(* transaction that follows it, and anything may happen in between.        *)
(*                                                                         *)
(* Abstractions.  Payloads, channels' transports and error texts are left  *)
(* out; a transport result is one of the classes _settle_sink tells apart. *)
(* The order in which Huey hands out tasks is left open.                   *)
(***************************************************************************)
EXTENDS Integers, FiniteSets, Sequences, FiniteSetsExt

CONSTANTS
    Event,          \* logical events
    Row,            \* notification_events rows: one per event and channel
    EventOf,        \* the event of each row
    Inline,         \* events a job delivers itself instead of scheduling them
    Huey,           \* the worker process
    NoRow,
    MaxDelivery,    \* MAX_DELIVERY_ATTEMPTS
    TaskRetries,    \* retries of the Huey task
    MaxEnqueues, MaxCancels, MaxFaults
        \* bounds: enqueues and cancellations of an event, crashes and failed
        \* database calls

ASSUME QueueAssumption ==
    /\ EventOf \in [Row -> Event]
    /\ Inline \subseteq Event
    /\ Huey \notin Event
    /\ NoRow \notin Row
    /\ MaxDelivery \in Nat \ {0}
    /\ TaskRetries \in Nat
    /\ MaxEnqueues \in Nat /\ MaxCancels \in Nat /\ MaxFaults \in Nat

VARIABLES
    row,        \* notification_events
    attempts,   \* notification_attempts; the id is the position
    fence,      \* events with a __cancellation__ row
    tasks,      \* Huey's durable queue: the copies of each <<row, retries left>>
    accepted,   \* events a producer scheduled and reported as accepted
    producer,   \* where the producer of each event stands
    canceller,  \* the rows a canceller is about to mark
    consumer,   \* the Huey worker and the inline jobs
    lapsed,     \* events past their expires_at
    received,   \* the attempts that reached their recipient (seen by nobody)
    spent       \* how much of the bounds is used

vars == <<row, attempts, fence, tasks, accepted, producer, canceller, consumer, lapsed,
          received, spent>>

-----------------------------------------------------------------------------
(* State *)

Consumer == {Huey} \union Inline

Task == Row \X (0 .. TaskRetries)

RowsOf(e) == {r \in Row : EventOf[r] = e}

AbsentRow == [status |-> "absent", cancelled |-> FALSE]
PendingRow == [AbsentRow EXCEPT !.status = "pending"]

Ready == [pc |-> "idle", row |-> NoRow, retries |-> 0, id |-> 0, no |-> 0,
          result |-> "none", todo |-> {}, found |-> {}, started |-> {}]

NotCancelling == [pc |-> "idle", rows |-> {}]

Init ==
    /\ row = [r \in Row |-> AbsentRow]
    /\ attempts = <<>>
    /\ fence = {}
    /\ tasks = [t \in Task |-> 0]
    /\ accepted = {}
    /\ producer = [e \in Event |-> "idle"]
    /\ canceller = [e \in Event |-> NotCancelling]
    /\ consumer = [c \in Consumer |-> IF c = Huey THEN [Ready EXCEPT !.pc = "startup"] ELSE Ready]
    /\ lapsed = {}
    /\ received = {}
    /\ spent = [enqueues |-> [e \in Event |-> 0], cancels |-> [e \in Event |-> 0], faults |-> 0]

Fault ==
    /\ spent.faults < MaxFaults
    /\ spent' = [spent EXCEPT !.faults = spent.faults + 1]

Lapse(e) ==
    /\ e \notin lapsed
    /\ lapsed' = lapsed \union {e}
    /\ UNCHANGED <<accepted, row, attempts, fence, tasks, producer, canceller, consumer,
                   received, spent>>

\* A task for every row of rs.
WithTasks(rs) ==
    [t \in Task |-> IF t[1] \in rs /\ t[2] = TaskRetries THEN tasks[t] + 1 ELSE tasks[t]]

-----------------------------------------------------------------------------
(* Producers: enqueue, then schedule or deliver inline.                     *)

\* enqueue reads the fence; a fenced event is cancelled_before_enqueue.
CheckFence(e) ==
    /\ producer[e] = "idle" /\ (e \in Inline => consumer[e].pc = "idle")
    /\ spent.enqueues[e] < MaxEnqueues
    /\ spent' = [spent EXCEPT !.enqueues[e] = spent.enqueues[e] + 1]
    /\ producer' = [producer EXCEPT ![e] = IF e \in fence THEN "idle" ELSE "insert"]
    /\ UNCHANGED <<row, attempts, fence, tasks, canceller, consumer, accepted, lapsed,
                   received>>

\* The INSERTs; a row that exists already is a duplicate and keeps its state.
InsertRows(e) ==
    /\ producer[e] = "insert"
    /\ row' = [r \in Row |-> IF EventOf[r] = e /\ row[r] = AbsentRow THEN PendingRow ELSE row[r]]
    /\ producer' = [producer EXCEPT ![e] = "schedule"]
    /\ UNCHANGED <<attempts, fence, tasks, canceller, consumer, accepted, lapsed, received, spent>>

Schedule(e) ==
    /\ producer[e] = "schedule"
    /\ producer' = [producer EXCEPT ![e] = "idle"]
    /\ IF e \in Inline
       THEN /\ consumer' = [consumer EXCEPT ![e] = [Ready EXCEPT !.pc = "next", !.todo = RowsOf(e)]]
            /\ UNCHANGED tasks
       ELSE /\ tasks' = WithTasks(RowsOf(e))
            /\ UNCHANGED consumer
    /\ accepted' = accepted \union {e}
    /\ UNCHANGED <<row, attempts, fence, canceller, lapsed, received,
                   spent>>

ProducerCrash(e) ==
    /\ producer[e] # "idle"
    /\ Fault
    /\ producer' = [producer EXCEPT ![e] = "idle"]
    /\ UNCHANGED <<row, attempts, fence, tasks, canceller, consumer, accepted, lapsed,
                   received>>

-----------------------------------------------------------------------------
(* cancel: a fence for the event, and its pending and failed rows.          *)

Cancellable(e) == {r \in RowsOf(e) : row[r].status \in {"pending", "failed"}}

MarkCancelled(rs) ==
    row' = [r \in Row |-> IF r \in rs THEN [status |-> "failed", cancelled |-> TRUE] ELSE row[r]]

StartsCancel(e) ==
    /\ canceller[e].pc = "idle"
    /\ spent.cancels[e] < MaxCancels
    /\ spent' = [spent EXCEPT !.cancels[e] = spent.cancels[e] + 1]

\* The first cancellation inserts the fence, so that its SELECT of the rows is
\* inside the transaction.
Cancel(e) ==
    /\ e \notin fence
    /\ StartsCancel(e)
    /\ fence' = fence \union {e}
    /\ MarkCancelled(Cancellable(e))
    /\ UNCHANGED <<attempts, tasks, producer, canceller, consumer, accepted, lapsed, received>>

\* A repeated one selects the rows before its transaction starts.
CancelAgain(e) ==
    /\ e \in fence
    /\ StartsCancel(e)
    /\ canceller' = [canceller EXCEPT ![e] = [pc |-> "mark", rows |-> Cancellable(e)]]
    /\ UNCHANGED <<row, attempts, fence, tasks, producer, consumer, accepted, lapsed, received>>

MarkAgain(e) ==
    /\ canceller[e].pc = "mark"
    /\ MarkCancelled(canceller[e].rows)
    /\ canceller' = [canceller EXCEPT ![e] = NotCancelling]
    /\ UNCHANGED <<attempts, fence, tasks, producer, consumer, accepted, lapsed, received,
                   spent>>

-----------------------------------------------------------------------------
(* Consumers: the Huey worker's single thread and the inline jobs.          *)

\* Back for the next task, or the next row of an inline job.
Done(c) ==
    LET k == consumer[c] IN
    IF c # Huey /\ k.todo # {} THEN [Ready EXCEPT !.pc = "next", !.todo = k.todo] ELSE Ready

Becomes(c, k) == consumer' = [consumer EXCEPT ![c] = k]

Goes(c, pc) == Becomes(c, [consumer[c] EXCEPT !.pc = pc])

\* Huey deletes the task it hands out.
Take ==
    /\ consumer[Huey].pc = "idle"
    /\ \E t \in Task :
         /\ tasks[t] > 0
         /\ tasks' = [tasks EXCEPT ![t] = tasks[t] - 1]
         /\ Becomes(Huey, [Ready EXCEPT !.pc = "read", !.row = t[1], !.retries = t[2]])
    /\ UNCHANGED <<row, attempts, fence, producer, canceller, accepted, lapsed, received, spent>>

\* dispatch_notification delivers the rows it enqueued one by one.
TakeInline(c) ==
    /\ consumer[c].pc = "next"
    /\ \E r \in consumer[c].todo :
         Becomes(c, [Ready EXCEPT !.pc = "read", !.row = r, !.todo = consumer[c].todo \ {r}])
    /\ UNCHANGED <<row, attempts, fence, tasks, producer, canceller, accepted, lapsed,
                   received, spent>>

Resolved == {"delivered", "processing", "uncertain"}

\* Mutant of NotDue: the cancellation is not looked at.
NotDue_Cancelled(r) == row[r].status \in Resolved

\* begin_attempt returns None.
NotDue(r) == row[r].cancelled \/ row[r].status \in Resolved

ReadRow(c) ==
    /\ consumer[c].pc = "read"
    /\ LET r == consumer[c].row IN
       \/ NotDue(r) /\ Becomes(c, Done(c))
       \/ ~NotDue(r) /\ Goes(c, IF EventOf[r] \in lapsed THEN "lapse" ELSE "count")
    /\ UNCHANGED <<row, attempts, fence, tasks, producer, canceller, accepted, lapsed,
                   received, spent>>

\* UPDATE ... expired_before_transport
ExpireRow(c) ==
    /\ consumer[c].pc = "lapse"
    /\ row' = [row EXCEPT ![consumer[c].row].status = "failed"]
    /\ Becomes(c, Done(c))
    /\ UNCHANGED <<attempts, fence, tasks, producer, canceller, accepted, lapsed, received, spent>>

AttemptsOf(r) == {i \in DOMAIN attempts : attempts[i].row = r}

\* SELECT max(attempt_no), plus one
NextNo(r) == Max({0} \union {attempts[i].no : i \in AttemptsOf(r)}) + 1

CountAttempts(c) ==
    /\ consumer[c].pc = "count"
    /\ LET no == NextNo(consumer[c].row) IN
       Becomes(c, IF no > MaxDelivery THEN Done(c)
                                      ELSE [consumer[c] EXCEPT !.pc = "write", !.no = no])
    /\ UNCHANGED <<row, attempts, fence, tasks, producer, canceller, accepted, lapsed,
                   received, spent>>

\* The attempt row; `late' notes that the row was cancelled by then.
NewAttempt(c) ==
    [row |-> consumer[c].row, no |-> consumer[c].no, started |-> FALSE, open |-> TRUE,
     outcome |-> "processing", late |-> row[consumer[c].row].cancelled, retaken |-> FALSE]

\* The transaction of begin_attempt, which is unconditional.
BeginAttempt(c) ==
    /\ consumer[c].pc = "write"
    /\ row' = [row EXCEPT ![consumer[c].row].status = "processing"]
    /\ attempts' = Append(attempts, NewAttempt(c))
    /\ Becomes(c, [consumer[c] EXCEPT !.pc = "begun", !.id = Len(attempts) + 1])
    /\ UNCHANGED <<fence, tasks, producer, canceller, accepted, lapsed, received,
                   spent>>

\* In the quiet window the row is settled without transport.
QuietWindow(c) ==
    /\ consumer[c].pc = "begun"
    /\ Becomes(c, [consumer[c] EXCEPT !.pc = "settle", !.result = "quiet"])
    /\ UNCHANGED <<row, attempts, fence, tasks, producer, canceller, accepted, lapsed,
                   received, spent>>

MarkTransportStarted(c) ==
    /\ consumer[c].pc = "begun"
    /\ attempts' = [attempts EXCEPT ![consumer[c].id].started = TRUE]
    /\ Goes(c, "send")
    /\ UNCHANGED <<row, fence, tasks, producer, canceller, accepted, lapsed, received, spent>>

\* What the transports answer (external): ok, an explicit refusal, a permanent
\* failure, or nothing that tells (an exception included).
Results == {"ok", "refused", "permanent", "unknown"}

Reaches(result) == CASE result = "ok"      -> {TRUE}
                     [] result = "unknown" -> {TRUE, FALSE}
                     [] OTHER              -> {FALSE}

Transport(c) ==
    /\ consumer[c].pc = "send"
    /\ \E result \in Results :
         /\ Becomes(c, [consumer[c] EXCEPT !.pc = "settle", !.result = result])
         /\ \E reached \in Reaches(result) :
              received' = IF reached THEN received \union {consumer[c].id} ELSE received
    /\ UNCHANGED <<row, attempts, fence, tasks, producer, canceller, accepted, lapsed, spent>>

\* Mutant of SettledStatus: the outcome is stored as the status.
SettledStatus_Outcome(result) == IF result = "unknown" THEN "transport_outcome_uncertain" ELSE result

\* Mutant of SettledStatus: an unknown outcome counts as failed.
SettledStatus_Failed(result) ==
    CASE result \in {"ok", "quiet"} -> "delivered"
      [] OTHER                      -> "failed"

\* _settle_sink
SettledStatus(result) ==
    CASE result \in {"ok", "quiet"}          -> "delivered"
      [] result \in {"permanent", "refused"} -> "failed"
      [] result = "unknown"                  -> "uncertain"

\* settle, which is unconditional too; a refusal is raised for a retry.
Settle(c) ==
    LET k == consumer[c] IN
    /\ k.pc = "settle"
    /\ row' = [row EXCEPT ![k.row].status = SettledStatus(k.result)]
    /\ attempts' = [attempts EXCEPT ![k.id] =
         [attempts[k.id] EXCEPT !.open = FALSE, !.outcome = k.result]]
    /\ IF k.result = "refused" /\ k.no < MaxDelivery
       THEN Goes(c, "raise")
       ELSE Becomes(c, Done(c))
    /\ UNCHANGED <<fence, tasks, producer, canceller, accepted, lapsed, received,
                   spent>>

\* Mutant of Raise: the task is not put back.
Raise_Dropped(c) ==
    /\ consumer[c].pc = "raise"
    /\ Becomes(c, Done(c))
    /\ UNCHANGED <<row, attempts, fence, tasks, producer, canceller, accepted, lapsed,
                   received, spent>>

\* Huey puts a task that raised back while it has retries; an inline job goes
\* on with its next row.
Raise(c) ==
    LET k == consumer[c] IN
    /\ k.pc = "raise"
    /\ LET t == <<k.row, k.retries - 1>> IN
       tasks' = IF c = Huey /\ k.retries > 0 THEN [tasks EXCEPT ![t] = tasks[t] + 1] ELSE tasks
    /\ Becomes(c, Done(c))
    /\ UNCHANGED <<row, attempts, fence, producer, canceller, accepted, lapsed, received, spent>>

\* A database call raises (locked beyond its timeout): the worker's task is
\* retried, an inline job ends.
StoreFails(c) ==
    /\ consumer[c].pc \in {"read", "lapse", "count", "write", "begun", "settle"}
    /\ Fault
    /\ IF c = Huey THEN Goes(c, "raise") ELSE Becomes(c, Ready)
    /\ UNCHANGED <<row, attempts, fence, tasks, producer, canceller, accepted, lapsed,
                   received>>

\* systemd restarts the worker (Restart=on-failure); an inline job is over.
ConsumerCrash(c) ==
    /\ consumer[c].pc # IF c = Huey THEN "startup" ELSE "idle"
    /\ Fault
    /\ Becomes(c, IF c = Huey THEN [Ready EXCEPT !.pc = "startup"] ELSE Ready)
    /\ UNCHANGED <<row, attempts, fence, tasks, producer, canceller, accepted, lapsed,
                   received>>

-----------------------------------------------------------------------------
(* recover_incomplete_attempts, on the worker's startup.                    *)

Incomplete == {i \in DOMAIN attempts : attempts[i].open /\ row[attempts[i].row].status = "processing"}

\* Mutant of RecoveredStatus: every interrupted attempt may be repeated.
RecoveredStatus_Failed(started) == "failed"

RecoveredStatus(started) == IF started THEN "uncertain" ELSE "failed"

\* The SELECT: the open attempts of rows in process, and those of them whose
\* transport had started.
RecoverReads ==
    /\ consumer[Huey].pc = "startup"
    /\ Becomes(Huey, [Ready EXCEPT !.pc = "recover", !.found = Incomplete,
                                   !.started = {i \in Incomplete : attempts[i].started}])
    /\ UNCHANGED <<row, attempts, fence, tasks, producer, canceller, accepted, lapsed,
                   received, spent>>

\* The rows of the attempts that were read as started, and as not started.
StartedRows == {attempts[i].row : i \in consumer[Huey].started}
InterruptedRows == {attempts[i].row : i \in consumer[Huey].found \ consumer[Huey].started}

\* The transaction of the UPDATEs, which are unconditional: a job may have gone
\* on with its attempt since.  A row with both kinds of attempt gets the status of
\* whichever the query returned last.  `retaken' notes that recovery took the
\* attempt for one that had sent nothing.
RecoverWrites ==
    LET k == consumer[Huey] IN
    /\ k.pc = "recover"
    /\ \E last \in SUBSET (StartedRows \intersect InterruptedRows) :
         row' = [r \in Row |->
             IF r \in StartedRows \union InterruptedRows
             THEN [row[r] EXCEPT !.status = RecoveredStatus(r \notin InterruptedRows \/ r \in last)]
             ELSE row[r]]
    /\ attempts' = [i \in DOMAIN attempts |->
         IF i \in k.found
         THEN [attempts[i] EXCEPT !.open = FALSE,
                                  !.outcome = IF i \in k.started THEN "unknown" ELSE "interrupted",
                                  !.retaken = attempts[i].retaken \/ i \notin k.started]
         ELSE attempts[i]]
    /\ Becomes(Huey, [Ready EXCEPT !.pc = "reschedule", !.todo = InterruptedRows])
    /\ UNCHANGED <<fence, tasks, producer, canceller, accepted, lapsed, received,
                   spent>>

\* recover_notification_tasks schedules the interrupted rows again.
Reschedule ==
    /\ consumer[Huey].pc = "reschedule"
    /\ tasks' = WithTasks(consumer[Huey].todo)
    /\ Becomes(Huey, Ready)
    /\ UNCHANGED <<row, attempts, fence, producer, canceller, accepted, lapsed, received, spent>>

-----------------------------------------------------------------------------

ProducerStep(e) == CheckFence(e) \/ InsertRows(e) \/ Schedule(e)

CancellerStep(e) == Cancel(e) \/ CancelAgain(e) \/ MarkAgain(e)

Deliver(c) ==
    \/ ReadRow(c) \/ ExpireRow(c) \/ CountAttempts(c) \/ BeginAttempt(c)
    \/ QuietWindow(c) \/ MarkTransportStarted(c) \/ Transport(c) \/ Settle(c) \/ Raise(c)

WorkerStep == RecoverReads \/ RecoverWrites \/ Reschedule \/ Take \/ Deliver(Huey)

Next ==
    \/ \E e \in Event : Lapse(e) \/ ProducerStep(e) \/ ProducerCrash(e) \/ CancellerStep(e)
    \/ WorkerStep
    \/ \E c \in Inline : TakeInline(c) \/ Deliver(c)
    \/ \E c \in Consumer : StoreFails(c) \/ ConsumerCrash(c)

Spec == Init /\ [][Next]_vars

\* The worker loops while it runs and systemd restarts it, a producer that
\* stored its rows goes on to schedule them.
Fairness ==
    /\ WF_vars(WorkerStep)
    /\ \A e \in Event : WF_vars(InsertRows(e) \/ Schedule(e))

FairSpec == Spec /\ Fairness

-----------------------------------------------------------------------------
(* Types *)

Outcomes == Results \union {"processing", "quiet", "interrupted"}

AttemptType ==
    [row : Row, no : 1 .. MaxDelivery, started : BOOLEAN, open : BOOLEAN,
     outcome : Outcomes, late : BOOLEAN, retaken : BOOLEAN]

ConsumerType ==
    [pc : {"startup", "recover", "reschedule", "idle", "next", "read", "lapse", "count", "write",
           "begun", "send", "settle", "raise"},
     row : Row \union {NoRow}, retries : 0 .. TaskRetries, id : Nat, no : 0 .. MaxDelivery,
     result : Results \union {"none", "quiet"}, todo : SUBSET Row,
     found : SUBSET Nat, started : SUBSET Nat]

\* The types of the tables, the queue and the processes; a consumer past
\* begin_attempt has an attempt of its own in the table.
TypeOK ==
    /\ row \in [Row -> [status : {"absent", "pending", "processing", "delivered", "failed",
                                 "uncertain"}, cancelled : BOOLEAN]]
    /\ attempts \in Seq(AttemptType)
    /\ fence \subseteq Event /\ accepted \subseteq Event
    /\ tasks \in [Task -> Nat]
    /\ producer \in [Event -> {"idle", "insert", "schedule"}]
    /\ canceller \in [Event -> [pc : {"idle", "mark"}, rows : SUBSET Row]]
    /\ consumer \in [Consumer -> ConsumerType]
    /\ lapsed \subseteq Event /\ received \subseteq DOMAIN attempts
    /\ \A c \in Consumer : consumer[c].pc \in {"begun", "send", "settle"} =>
         /\ consumer[c].id \in DOMAIN attempts
         /\ attempts[consumer[c].id].row = consumer[c].row

-----------------------------------------------------------------------------
(* Safety *)

\* The rows that no job delivers beside the worker.
WorkerRow == {r \in Row : EventOf[r] \notin Inline}

\* A recipient sees a row of the worker at most once, whatever its crashes,
\* retries and recoveries (begin_attempt, recover_incomplete_attempts).
SentOnce ==
    \A r \in WorkerRow : \A i, j \in received \intersect AttemptsOf(r) : i = j

\* A row of the worker that reached its recipient is never shown as not sent,
\* unless a canceller marked it (settle, recover_incomplete_attempts).
ReceivedRemembered ==
    \A r \in WorkerRow :
      received \intersect AttemptsOf(r) # {} => row[r].cancelled \/ row[r].status \in Resolved

\* A cancelled row of the worker begins at most the one attempt whose
\* begin_attempt had read it before.
CancelStopsRetries ==
    \A r \in WorkerRow : Cardinality({i \in AttemptsOf(r) : attempts[i].late}) <= 1

\* The status of a row is always the result of one of its attempts, of a
\* cancellation or of its expiry, even when the worker's recovery and an inline
\* job settle the same attempt (settle, recover_incomplete_attempts).
StatusBacked ==
    \A r \in Row :
      LET outcomes == {attempts[i].outcome : i \in AttemptsOf(r)} IN
      /\ row[r].status = "delivered" => outcomes \intersect {"ok", "quiet"} # {}
      /\ row[r].status = "uncertain" => "unknown" \in outcomes
      /\ row[r].status = "failed" =>
           \/ row[r].cancelled \/ EventOf[r] \in lapsed
           \/ outcomes \intersect {"refused", "permanent", "interrupted"} # {}

\* With inline jobs a recipient may see a row twice, but only when recovery
\* took an attempt that a job still works on for one that had sent nothing
\* (recover_incomplete_attempts); no crash, late settlement or second enqueue
\* does it otherwise.
ResentOnlyRetaken ==
    \A r \in Row : \A i, j \in received \intersect AttemptsOf(r) :
      i # j => \E k \in AttemptsOf(r) : attempts[k].retaken

-----------------------------------------------------------------------------
(* Liveness *)

\* A failed row that no retry is due for.
GivenUp(r) ==
    /\ row[r].status = "failed"
    /\ \/ row[r].cancelled
       \/ EventOf[r] \in lapsed
       \/ Cardinality(AttemptsOf(r)) = MaxDelivery
       \/ \E i \in AttemptsOf(r) : attempts[i].outcome = "permanent"

\* "Producer acknowledgement means the durable consumer now owns retries"
\* (notifier/pipeline.py): an accepted row is delivered, quarantined as
\* uncertain, or tried until its budget is used up.
AcceptedResolved ==
    \A r \in Row :
      (row[r].status = "pending" /\ EventOf[r] \in accepted)
        ~> (row[r].status \in {"delivered", "uncertain"} \/ GivenUp(r))

\* The same as long as no process dies and no database call fails: refused
\* attempts, quiet windows, expiry, cancellation and duplicate tasks
\* never leave a row that nobody comes back to.
ResolvedWithoutFaults ==
    \A r \in Row :
      (row[r].status = "pending" /\ EventOf[r] \in accepted)
        ~> \/ row[r].status \in {"delivered", "uncertain"}
           \/ GivenUp(r)
           \/ spent.faults > 0
=============================================================================
