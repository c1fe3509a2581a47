---------------------------- MODULE BridgeIngress ----------------------------
(***************************************************************************)
(* The normalized bridge (spx-bridge) that mirrors a snapshot file of the  *)
(* Python collectors into Core's quote book over a Unix socket, and Core's *)
(* side of that socket (server.rs, engine.rs).  The bridge persists every  *)
(* frame before it sends it and retries the exact frame until it knows the *)
(* outcome.  Either process may die at any point, an answer may come too   *)
(* late, and Core may still process a frame of a connection the bridge has *)
(* abandoned.                                                              *)
(*                                                                         *)
(* Abstractions.  A document is an element of Document with its source     *)
(* time and what it maps to per provider; its fingerprint is its identity. *)
(* The bridge's persisted state is one variable, because a change to it is *)
(* lost with the process unless it was persisted; a persist that fails is  *)
(* a crash.  The advisory lanes of a tick appear as LaneFailure, which     *)
(* drops the connection.                                                   *)
(***************************************************************************)
EXTENDS Integers, FiniteSets, Sequences, QuoteBook

CONSTANTS
    Document,       \* readable contents of the snapshot file
    Reason,         \* ways its read can fail, future-dated contents included
    At,             \* source time of each document
    Content,        \* what each document maps to, per provider
    Session,        \* the IBKR source session a document carries, or Nothing
    Health,         \* readable contents of the IBKR health file
    HealthEpoch,    \* connection generation each one names
    Healthy,        \* whether it reports a healthy data plane
    Nothing,        \* an absent value
    MaxRejected,    \* max_rejected_attempts
    MaxChanges, MaxFaults, MaxBoots, MaxRuns
        \* bounds: changes of the files, transport and Core faults, starts of
        \* the bridge, starts of Core

ASSUME BridgeAssumption ==
    /\ At \in [Document -> Nat]
    /\ Document \intersect Reason = {}
    /\ Nothing \notin Document \union Reason \union Health
    /\ MaxRejected \in Nat \ {0}
    /\ MaxChanges \in Nat /\ MaxFaults \in Nat /\ MaxBoots \in Nat /\ MaxRuns \in Nat

VARIABLES
    source,     \* the snapshot file: a document or the reason it is unreadable
    health,     \* the IBKR health file, or Nothing
    state,      \* BridgeState on disk
    bridge,     \* the bridge process
    core,       \* the Core process and its quote book
    recorded,   \* Core's durable ingress_messages
    wire,       \* frames a Core thread holds and has not processed, each with
                \* whether the bridge has abandoned its connection
    reply,      \* Core's answer on the bridge's connection, or Nothing
    acked,      \* providers with a frame acknowledged on this connection
    spent       \* how much of the bounds is used, and frames composed so far

vars == <<source, health, state, bridge, core, recorded, wire, reply, acked, spent>>

-----------------------------------------------------------------------------
(* State *)

NewState ==
    [boot |-> 0,
     gen |-> [p \in Provider |-> 0], seq |-> [p \in Provider |-> 0],
     epoch |-> [p \in Provider |-> Nothing], hash |-> [p \in Provider |-> Nothing],
     pending |-> Nothing, rejected |-> 0,
     failure |-> Nothing, fenced |-> {},
     doneSource |-> Nothing, doneAt |-> 0]

Stopped ==
    [pc |-> "down", conn |-> "none", resync |-> TRUE, reading |-> Nothing,
     health |-> Nothing, todo |-> <<>>, after |-> "tick", phase |-> "boot"]

Init ==
    /\ source \in Document \union Reason
    /\ health \in Health \union {Nothing}
    /\ state = NewState
    /\ bridge = Stopped
    /\ core = [up |-> FALSE, run |-> 0, book |-> EmptyBook(Nothing)]
    /\ recorded = {}
    /\ wire = {}
    /\ reply = Nothing
    /\ acked = {}
    /\ spent = [changes |-> 0, faults |-> 0, frames |-> 0]

\* One more fault, within MaxFaults.
Fault ==
    /\ spent.faults < MaxFaults
    /\ spent' = [spent EXCEPT !.faults = spent.faults + 1]

\* The collectors rewrite their files (external).
SourceChanges ==
    /\ spent.changes < MaxChanges
    /\ spent' = [spent EXCEPT !.changes = spent.changes + 1]
    /\ \/ /\ source' \in (Document \union Reason) \ {source}
          /\ UNCHANGED health
       \/ /\ health' \in (Health \union {Nothing}) \ {health}
          /\ UNCHANGED source
    /\ UNCHANGED <<state, bridge, core, recorded, wire, reply, acked>>

-----------------------------------------------------------------------------
(* The durable bridge state (state.rs).                                     *)

\* Mutant of BeginBoot: the sequences restart under the old generations.
BeginBoot_SameGeneration(s) ==
    [s EXCEPT !.boot = s.boot + 1, !.seq = [p \in Provider |-> 0], !.fenced = {},
              !.gen = [p \in Provider |-> IF s.gen[p] = 0 THEN 1 ELSE s.gen[p]]]

BeginBoot(s) ==
    [s EXCEPT !.boot = s.boot + 1, !.seq = [p \in Provider |-> 0], !.fenced = {},
              !.gen = [p \in Provider |-> s.gen[p] + 1]]

BeginSourceFailure(s, reason) ==
    IF s.failure = reason THEN s ELSE [s EXCEPT !.failure = reason, !.fenced = {}]

\* Mutant of ResetProgress: the fence of an earlier connection still counts.
ResetProgress_Kept(s) == s

\* reset_source_failure_progress
ResetProgress(s) == [s EXCEPT !.fenced = {}]

EpochChanged(s, p, epoch) == epoch # Nothing /\ epoch # s.epoch[p]

\* next_cursor: an epoch change opens a new generation.
NextCursor(s, p, epoch) ==
    IF EpochChanged(s, p, epoch)
    THEN [s EXCEPT !.gen[p] = s.gen[p] + 1, !.seq[p] = 1, !.epoch[p] = epoch]
    ELSE [s EXCEPT !.seq[p] = s.seq[p] + 1]

\* acknowledge: the pending frame is settled.
Acknowledge(s) ==
    LET f == s.pending IN
    [s EXCEPT !.pending = Nothing, !.rejected = 0,
              !.hash[f.provider] = f.content,
              !.fenced = IF f.purpose = "source_failure"
                         THEN s.fenced \union {f.provider} ELSE s.fenced]

CompleteSource(s, d) ==
    [s EXCEPT !.failure = Nothing, !.fenced = {}, !.doneSource = d, !.doneAt = At[d]]

\* BridgeState::validate, which persist and load call: a state it refuses
\* stops the bridge for good.
Valid(s) ==
    /\ s.boot > 0 => \A p \in Provider : s.gen[p] > 0
    /\ s.pending # Nothing /\ s.pending.purpose = "source_failure" =>
         /\ s.failure = s.pending.fingerprint
         /\ s.pending.provider \notin s.fenced

-----------------------------------------------------------------------------
(* Connection and process life cycle (runtime.rs).                          *)

\* BridgeRuntime::open, also by systemd after a failure.
Boot ==
    /\ bridge.pc = "down"
    /\ state.boot < MaxBoots
    /\ state' = BeginBoot(state)
    /\ bridge' = [Stopped EXCEPT !.pc = "tick"]
    /\ UNCHANGED <<source, health, core, recorded, wire, reply, acked, spent>>

\* A socket that connects gets a full resynchronisation.
Connect ==
    /\ bridge.pc = "tick" /\ bridge.conn = "none"
    /\ core.up
    /\ state' = ResetProgress(state)
    /\ bridge' = [bridge EXCEPT !.conn = "open", !.resync = TRUE, !.phase = "socket_sync_fence"]
    /\ acked' = {}
    /\ UNCHANGED <<source, health, core, recorded, wire, reply, spent>>

ConnectFails ==
    /\ bridge.pc = "tick" /\ bridge.conn = "none"
    /\ ~core.up
    /\ bridge' = [bridge EXCEPT !.phase = "degraded"]
    /\ UNCHANGED <<source, health, state, core, recorded, wire, reply, acked, spent>>

\* What the bridge sent stays with Core when it drops the connection.
Abandoned == {[m EXCEPT !.late = TRUE] : m \in wire}

\* disconnect: the pending frame stays.
Disconnected(b) ==
    [b EXCEPT !.pc = "tick", !.conn = "none", !.resync = TRUE, !.reading = Nothing,
              !.health = Nothing, !.todo = <<>>, !.phase = "degraded"]

Halted == [Stopped EXCEPT !.phase = "halted"]

\* The bridge dies, or halts on what it cannot map or encode.
Crash ==
    /\ bridge.pc # "down"
    /\ bridge' = Halted
    /\ wire' = Abandoned
    /\ reply' = Nothing
    /\ UNCHANGED <<source, health, state, core, recorded, acked, spent>>

\* An advisory lane's send fails at the end of a tick.
LaneFailure ==
    /\ bridge.pc = "tick" /\ bridge.conn # "none"
    /\ Fault
    /\ bridge' = Disconnected(bridge)
    /\ UNCHANGED <<source, health, state, core, recorded, wire, reply, acked>>

-----------------------------------------------------------------------------
(* A tick (runtime.rs).  What is pending goes first.                        *)

\* Mutant of RetryPending: a fence frame is not retried.
RetryPending_SnapshotsOnly ==
    /\ bridge.pc = "tick" /\ bridge.conn # "none"
    /\ state.pending # Nothing /\ state.pending.purpose = "snapshot"
    /\ bridge' = [bridge EXCEPT !.pc = "send", !.after = "tick"]
    /\ UNCHANGED <<source, health, state, core, recorded, wire, reply, acked, spent>>

RetryPending ==
    /\ bridge.pc = "tick" /\ bridge.conn # "none"
    /\ state.pending # Nothing
    /\ bridge' = [bridge EXCEPT !.pc = "send", !.after = "tick"]
    /\ UNCHANGED <<source, health, state, core, recorded, wire, reply, acked, spent>>

\* Mutant of UpToDate: any completed document is enough.
UpToDate_AnyFile(d) ==
    state.doneSource # Nothing /\ ~bridge.resync /\ state.failure = Nothing

\* handle_document has nothing to do.
UpToDate(d) == state.doneSource = d /\ ~bridge.resync /\ state.failure = Nothing

Order == <<"schwab", "ibkr">>

ReadSource ==
    /\ bridge.pc = "tick" /\ bridge.conn # "none"
    /\ state.pending = Nothing
    /\ \/ /\ source \in Reason
          /\ state' = BeginSourceFailure(state, source)
          /\ bridge' = [bridge EXCEPT !.pc = "fence", !.reading = source, !.todo = Order,
                                      !.phase = "degraded"]
       \/ /\ source \in Document /\ UpToDate(source)
          /\ bridge' = [bridge EXCEPT !.phase = "ready"]
          /\ UNCHANGED state
       \/ /\ source \in Document /\ ~UpToDate(source)
          /\ At[source] < state.doneAt
          /\ bridge' = Halted
          /\ UNCHANGED state
       \/ /\ source \in Document /\ ~UpToDate(source)
          /\ At[source] >= state.doneAt
          /\ bridge' = [bridge EXCEPT !.pc = "health", !.reading = source]
          /\ UNCHANGED state
    /\ UNCHANGED <<source, health, core, recorded, wire, reply, acked, spent>>

\* The health file is read after the document, fail-closed.
ReadHealth ==
    /\ bridge.pc = "health"
    /\ bridge' = [bridge EXCEPT
         !.pc = "sync", !.health = health, !.todo = Order,
         !.phase = IF bridge.resync THEN "socket_sync_fence" ELSE "snapshot_sync"]
    /\ UNCHANGED <<source, health, state, core, recorded, wire, reply, acked, spent>>

SourceEpoch(p, d, h) ==
    IF p # "ibkr" THEN Nothing
    ELSE IF h # Nothing THEN HealthEpoch[h] ELSE Session[d]

\* map_provider_batch, and map_source_failure_batch without a health file.
Mapped(p, d, h) ==
    IF p # "ibkr" THEN Content[d][p]
    ELSE IF h = Nothing THEN "unavailable"
    ELSE IF Healthy[h] THEN Content[d][p] ELSE "degraded"

Frame(s, p, fingerprint, content, purpose) ==
    [provider |-> p, gen |-> s.gen[p], seq |-> s.seq[p], fingerprint |-> fingerprint,
     content |-> content, purpose |-> purpose, stamp |-> spent.frames + 1]

\* Mutant of SetPending: the frame is sent without being stored.
SetPending_NotStored(s, f) == s

\* Mutant of SetPending: the fence counts before it is acknowledged.
SetPending_FencesEarly(s, f) ==
    [s EXCEPT !.pending = f, !.rejected = 0,
              !.fenced = IF f.purpose = "source_failure"
                         THEN s.fenced \union {f.provider} ELSE s.fenced]

\* set_pending: the frame and the cursor it consumed become durable together.
SetPending(s, f) == [s EXCEPT !.pending = f, !.rejected = 0]

Compose(s, f, after) ==
    /\ state' = SetPending(s, f)
    /\ bridge' = [bridge EXCEPT !.pc = "send", !.todo = Tail(bridge.todo), !.after = after]
    /\ spent' = [spent EXCEPT !.frames = spent.frames + 1]

\* Mutant of Skippable: an unchanged content is never sent again.
Skippable_Content(p, epoch, content) == state.hash[p] = content

\* A provider's batch is not sent again on the same healthy connection.
Skippable(p, epoch, content) ==
    /\ state.hash[p] = content
    /\ ~EpochChanged(state, p, epoch)
    /\ ~bridge.resync
    /\ state.failure = Nothing

\* process_document, one provider at a time.
SyncProvider ==
    /\ bridge.pc = "sync" /\ bridge.todo # <<>>
    /\ LET p == Head(bridge.todo)
           epoch == SourceEpoch(p, bridge.reading, bridge.health)
           content == Mapped(p, bridge.reading, bridge.health)
           next == NextCursor(state, p, epoch)
       IN  \/ /\ Skippable(p, epoch, content)
              /\ bridge' = [bridge EXCEPT !.todo = Tail(bridge.todo)]
              /\ UNCHANGED <<state, spent>>
           \/ /\ ~Skippable(p, epoch, content)
              /\ Compose(next, Frame(next, p, bridge.reading, content, "snapshot"), "sync")
    /\ UNCHANGED <<source, health, core, recorded, wire, reply, acked>>

CompleteDocument ==
    /\ bridge.pc = "sync" /\ bridge.todo = <<>>
    /\ state' = CompleteSource(state, bridge.reading)
    /\ bridge' = [bridge EXCEPT !.pc = "tick", !.resync = FALSE, !.phase = "ready"]
    /\ UNCHANGED <<source, health, core, recorded, wire, reply, acked, spent>>

\* handle_source_failure, one provider at a time.
FenceProvider ==
    /\ bridge.pc = "fence" /\ bridge.todo # <<>>
    /\ LET p == Head(bridge.todo)
           next == NextCursor(state, p, Nothing)
       IN  \/ /\ p \in state.fenced
              /\ bridge' = [bridge EXCEPT !.todo = Tail(bridge.todo)]
              /\ UNCHANGED <<state, spent>>
           \/ /\ p \notin state.fenced
              /\ Compose(next, Frame(next, p, bridge.reading, "unavailable", "source_failure"),
                         "fence")
    /\ UNCHANGED <<source, health, core, recorded, wire, reply, acked>>

FenceComplete ==
    /\ bridge.pc = "fence" /\ bridge.todo = <<>>
    /\ bridge' = [bridge EXCEPT !.pc = "tick", !.resync = FALSE]
    /\ UNCHANGED <<source, health, state, core, recorded, wire, reply, acked, spent>>

-----------------------------------------------------------------------------
(* send_pending and its answer.                                             *)

SamePeer == bridge.conn = "open"

Send ==
    /\ bridge.pc = "send"
    /\ SamePeer
    /\ wire' = wire \union {[late |-> FALSE, frame |-> state.pending]}
    /\ bridge' = [bridge EXCEPT !.pc = "await"]
    /\ UNCHANGED <<source, health, state, core, recorded, reply, acked, spent>>

\* The write fails: Core is gone, or refused the connection as server_busy.
SendFails ==
    /\ bridge.pc = "send"
    /\ \/ ~SamePeer /\ UNCHANGED spent
       \/ SamePeer /\ Fault
    /\ bridge' = Disconnected(bridge)
    /\ UNCHANGED <<source, health, state, core, recorded, wire, reply, acked>>

\* The answer does not come in time, or the connection breaks; Core may still
\* hold the frame.
AnswerLost ==
    /\ bridge.pc = "await"
    /\ \/ ~SamePeer /\ reply = Nothing /\ UNCHANGED spent
       \/ Fault
    /\ bridge' = Disconnected(bridge)
    /\ wire' = Abandoned
    /\ reply' = Nothing
    /\ UNCHANGED <<source, health, state, core, recorded, acked>>

AcceptedAcks == {"applied", "duplicate", "duplicate_ingress"}

Accepted ==
    /\ bridge.pc = "await" /\ reply \in AcceptedAcks
    /\ state' = Acknowledge(state)
    /\ acked' = acked \union {state.pending.provider}
    /\ bridge' = [bridge EXCEPT !.pc = bridge.after]
    /\ reply' = Nothing
    /\ UNCHANGED <<source, health, core, recorded, wire, spent>>

\* Every other answer.  A stale acknowledgement halts the bridge; server_busy
\* retries forever, processing_rejected (also sent for a collision) up to
\* MaxRejected times.
NotAccepted ==
    /\ bridge.pc = "await" /\ reply \in {"stale", "busy", "rejected", "collision"}
    /\ LET counted == reply \in {"rejected", "collision"}
           n == state.rejected + 1
           halts == reply = "stale" \/ (counted /\ n >= MaxRejected)
       IN  /\ state' = IF counted THEN [state EXCEPT !.rejected = n] ELSE state
           /\ bridge' = IF halts THEN Halted ELSE Disconnected(bridge)
    /\ reply' = Nothing
    /\ UNCHANGED <<source, health, core, recorded, wire, acked, spent>>

-----------------------------------------------------------------------------
(* Core: one thread per connection, the engine behind one mutex.            *)

Answer(m, ack) == reply' = IF m.late THEN reply ELSE ack

\* An error before the message is applied: the owner lease, the raw log or its
\* disk reserve, the clock.
Refuse(m) ==
    /\ Fault
    /\ \E ack \in {"busy", "rejected"} : Answer(m, ack)
    /\ UNCHANGED <<core, recorded>>

\* check_ingress
KnownIngress(f) == {g \in recorded : BatchId(g) = BatchId(f)}

AnswerKnown(m) ==
    /\ KnownIngress(m.frame) # {}
    /\ Answer(m, IF m.frame \in recorded THEN "duplicate_ingress" ELSE "collision")
    /\ UNCHANGED <<core, recorded, spent>>

\* The book is changed before the projection is published and the identity
\* recorded; a failure in between leaves it changed and rejects the frame.
Apply(m) ==
    /\ KnownIngress(m.frame) = {}
    /\ \E aged \in {{}, core.book.seen} :
         LET d == Disposition(core.book, aged, m.frame, Nothing) IN
         /\ core' = IF d = "applied"
                    THEN [core EXCEPT !.book = Applied(core.book, aged, m.frame)]
                    ELSE core
         /\ \/ /\ d = "collision"
               /\ Answer(m, d)
               /\ UNCHANGED <<recorded, spent>>
            \/ /\ d # "collision"
               /\ Answer(m, d)
               /\ recorded' = recorded \union {m.frame}
               /\ UNCHANGED spent
            \/ /\ d # "collision"
               /\ Fault
               /\ Answer(m, "rejected")
               /\ UNCHANGED recorded

Process ==
    /\ core.up
    /\ \E m \in wire :
         /\ wire' = wire \ {m}
         /\ Refuse(m) \/ AnswerKnown(m) \/ Apply(m)
    /\ UNCHANGED <<source, health, state, bridge, acked>>

\* CoreEngine::open: the ledger survives, the book does not.
CoreStart ==
    /\ ~core.up
    /\ core.run < MaxRuns
    /\ core' = [up |-> TRUE, run |-> core.run + 1, book |-> EmptyBook(Nothing)]
    /\ UNCHANGED <<source, health, state, bridge, recorded, wire, reply, acked, spent>>

CoreCrash ==
    /\ core.up
    /\ core' = [core EXCEPT !.up = FALSE, !.book = EmptyBook(Nothing)]
    /\ wire' = {}
    /\ bridge' = [bridge EXCEPT !.conn = IF bridge.conn = "open" THEN "broken" ELSE bridge.conn]
    /\ UNCHANGED <<source, health, state, recorded, reply, acked, spent>>

-----------------------------------------------------------------------------

Tick == Connect \/ ConnectFails \/ RetryPending \/ ReadSource \/ ReadHealth
Mirror == SyncProvider \/ CompleteDocument \/ FenceProvider \/ FenceComplete
Exchange == Send \/ SendFails \/ AnswerLost \/ Accepted \/ NotAccepted

BridgeStep == Tick \/ Mirror \/ Exchange

Next ==
    \/ SourceChanges
    \/ Boot \/ BridgeStep \/ LaneFailure \/ Crash
    \/ Process \/ CoreStart \/ CoreCrash

Spec == Init /\ [][Next]_vars

\* The bridge loops and Core serves while they run, and systemd restarts
\* either after a failure (Restart=on-failure).
Fairness ==
    /\ WF_vars(BridgeStep)
    /\ WF_vars(Process)
    /\ WF_vars(Boot)
    /\ WF_vars(CoreStart)

FairSpec == Spec /\ Fairness

-----------------------------------------------------------------------------
(* Types *)

Contents == {Content[d][p] : d \in Document, p \in Provider} \union {"unavailable", "degraded"}
Epochs == {HealthEpoch[h] : h \in Health} \union {Session[d] : d \in Document}

FrameType ==
    [provider : Provider, gen : Nat, seq : Nat, fingerprint : Document \union Reason,
     content : Contents, purpose : {"snapshot", "source_failure"}, stamp : Nat]

StateType ==
    [boot : Nat, gen : [Provider -> Nat], seq : [Provider -> Nat],
     epoch : [Provider -> Epochs \union {Nothing}],
     hash : [Provider -> Contents \union {Nothing}],
     pending : FrameType \union {Nothing}, rejected : Nat,
     failure : Reason \union {Nothing}, fenced : SUBSET Provider,
     doneSource : Document \union {Nothing}, doneAt : Nat]

BridgeType ==
    [pc : {"down", "tick", "health", "sync", "fence", "send", "await"},
     conn : {"none", "open", "broken"}, resync : BOOLEAN,
     reading : Document \union Reason \union {Nothing},
     health : Health \union {Nothing},
     todo : {<<>>, <<"ibkr">>, Order}, after : {"tick", "sync", "fence"},
     phase : {"boot", "socket_sync_fence", "snapshot_sync", "ready", "degraded", "halted"}]

BookType == [cursor : [Provider -> FrameType \union {Nothing}], seen : SUBSET FrameType]

Answers == AcceptedAcks \union {"stale", "busy", "rejected", "collision"}

\* The absent value is no frame and no answer.
ASSUME NothingAssumption == Nothing \notin FrameType \union Answers

\* The types; a frame is sent, and an answer awaited, only while one is pending.
TypeOK ==
    /\ source \in Document \union Reason
    /\ health \in Health \union {Nothing}
    /\ state \in StateType
    /\ bridge \in BridgeType
    /\ core \in [up : BOOLEAN, run : Nat, book : BookType]
    /\ recorded \subseteq FrameType
    /\ wire \subseteq [late : BOOLEAN, frame : FrameType]
    /\ reply \in Answers \union {Nothing}
    /\ acked \subseteq Provider
    /\ spent \in [changes : Nat, faults : Nat, frames : Nat]
    /\ bridge.pc \in {"send", "await"} => state.pending # Nothing

-----------------------------------------------------------------------------
(* Safety *)

\* No step of the bridge, crash or restart produces a state that
\* BridgeState::validate refuses: the bridge can always persist and reload.
StateValid == Valid(state)

\* While it serves the bridge Core never answers that a frame is stale or
\* collides with another: the bridge halts only on faults that are not its own.
NeverStale == reply \notin {"stale", "collision"}

\* READY means mirrored: both providers have been acknowledged on the present
\* connection ("READY is reached only after both provider frames receive
\* non-stale accepted ACKs", rust/docs/STATE_MACHINES.md), and as long as its
\* Core lives, Core's last batch of every provider is what the completed document
\* and the health file read with it say, whatever was retried, skipped, fenced or
\* processed late before.
ReadyMirrors ==
    bridge.phase = "ready" =>
      /\ acked = Provider
      /\ SamePeer => \A p \in Provider :
           /\ core.book.cursor[p] # Nothing
           /\ core.book.cursor[p].content = Mapped(p, state.doneSource, bridge.health)

\* A failed source is fenced: between two ticks of a synchronised connection no
\* provider is live in Core's book.
FenceHolds ==
    /\ state.failure # Nothing
    /\ bridge.pc = "tick" /\ ~bridge.resync
    => \A p \in Provider : ~ShownLive(core.book, p, Nothing)

-----------------------------------------------------------------------------
(* Liveness *)

\* The model's supply of restarts is used up.
OutOfRestarts ==
    (bridge.pc = "down" /\ state.boot = MaxBoots) \/ (~core.up /\ core.run = MaxRuns)

\* The exact retry of a frame ends with its acknowledgement, across restarts while
\* the supply lasts (send_pending, tick).
PendingResolved ==
    \A p \in Provider :
      (state.pending # Nothing /\ state.pending.provider = p)
        ~> (state.pending = Nothing \/ state.pending.provider # p \/ OutOfRestarts)

\* Once the files stop changing and faults cease, the bridge catches up with
\* the source, or its fence of the source stands.  A bridge that has nothing to
\* write may still hold a socket whose Core has restarted: only a write tells it.
CatchesUp ==
    <>[](\/ OutOfRestarts
         \/ /\ bridge.conn # "none" /\ ~bridge.resync /\ state.pending = Nothing
            /\ IF source \in Reason THEN state.failure = source
                                     ELSE state.failure = Nothing /\ state.doneSource = source)
=============================================================================
