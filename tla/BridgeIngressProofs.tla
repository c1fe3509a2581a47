------------------------ MODULE BridgeIngressProofs ------------------------
(* Theorems about BridgeIngress, for any documents, health files and        *)
(* bounds, with TLAPS.                                                      *)
EXTENDS BridgeIngress, TLAPS

-----------------------------------------------------------------------------
(* The inductive invariant *)

\* Where the loop may be while a frame is pending, and what it is reading: a
\* document while it synchronises, the recorded failure while it fences.
LoopOK ==
    /\ bridge.pc \in {"health", "sync", "fence"} => state.pending = Nothing
    /\ bridge.pc \in {"health", "sync"} => bridge.reading \in Document
    /\ bridge.pc = "fence" => bridge.reading \in Reason /\ state.failure = bridge.reading
    /\ bridge.pc \in {"send", "await"} /\ bridge.after = "sync" => bridge.reading \in Document
    /\ bridge.pc \in {"send", "await"} /\ bridge.after = "fence" =>
         bridge.reading \in Reason /\ state.failure = bridge.reading

BridgeInv == TypeOK /\ LoopOK /\ StateValid

-----------------------------------------------------------------------------
(* What the helpers return *)

\* The steps of BridgeState keep it well typed and valid.
LEMMA BeginBootKeeps ==
    ASSUME NEW s \in StateType, Valid(s)
    PROVE  BeginBoot(s) \in StateType /\ Valid(BeginBoot(s)) /\ BeginBoot(s).pending = s.pending
<1> DEFINE g == [p \in Provider |-> s.gen[p] + 1]
           z == [p \in Provider |-> 0]
           b == s.boot + 1
<1>1. g \in [Provider -> Nat] /\ z \in [Provider -> Nat] /\ b \in Nat /\ \A p \in Provider : g[p] > 0
  BY DEF StateType
<1>2. BeginBoot(s) = [s EXCEPT !.boot = b, !.seq = z, !.fenced = {}, !.gen = g]
  BY DEF BeginBoot
<1> HIDE DEF g, z, b
<1> DEFINE r == [s EXCEPT !.boot = b, !.seq = z, !.fenced = {}, !.gen = g]
<1>3. r \in StateType /\ r.pending = s.pending /\ r.gen = g /\ r.fenced = {} /\ r.failure = s.failure
  BY <1>1 DEF StateType
<1>4. Valid(r)
  BY <1>1, <1>3 DEF Valid
<1> QED BY <1>2, <1>3, <1>4

LEMMA FailureKeeps ==
    ASSUME NEW s \in StateType, Valid(s), s.pending = Nothing, NEW reason \in Reason
    PROVE  LET r == BeginSourceFailure(s, reason) IN
           r \in StateType /\ Valid(r) /\ r.pending = Nothing /\ r.failure = reason
BY DEF BeginSourceFailure, StateType, Valid

LEMMA ResetKeeps ==
    ASSUME NEW s \in StateType, Valid(s)
    PROVE  ResetProgress(s) \in StateType /\ Valid(ResetProgress(s))
           /\ ResetProgress(s).pending = s.pending
BY DEF ResetProgress, StateType, Valid

LEMMA CompleteKeeps ==
    ASSUME NEW s \in StateType, Valid(s), s.pending = Nothing, NEW d \in Document
    PROVE  CompleteSource(s, d) \in StateType /\ Valid(CompleteSource(s, d))
           /\ CompleteSource(s, d).pending = Nothing
<1>1. At[d] \in Nat
  BY BridgeAssumption
<1> QED BY <1>1 DEF CompleteSource, StateType, Valid

LEMMA AcknowledgeKeeps ==
    ASSUME NEW s \in StateType, Valid(s), s.pending # Nothing
    PROVE  LET r == Acknowledge(s) IN
           r \in StateType /\ Valid(r) /\ r.pending = Nothing /\ r.failure = s.failure
<1> DEFINE f == s.pending
           h == [s.hash EXCEPT ![f.provider] = f.content]
           n == IF f.purpose = "source_failure" THEN s.fenced \union {f.provider} ELSE s.fenced
<1>1. f \in FrameType
  BY DEF StateType
<1>2. f.provider \in Provider /\ f.content \in Contents
  BY <1>1 DEF FrameType
<1>3. h \in [Provider -> Contents \union {Nothing}] /\ n \in SUBSET Provider
  BY <1>2 DEF StateType
<1>4. Acknowledge(s) = [s EXCEPT !.pending = Nothing, !.rejected = 0, !.hash = h, !.fenced = n]
  BY DEF Acknowledge, StateType
<1> HIDE DEF h, n
<1> DEFINE r == [s EXCEPT !.pending = Nothing, !.rejected = 0, !.hash = h, !.fenced = n]
<1>5. r \in StateType /\ r.pending = Nothing /\ r.failure = s.failure /\ r.boot = s.boot /\ r.gen = s.gen
  BY <1>3 DEF StateType
<1> QED BY <1>4, <1>5 DEF Valid

\* A cursor step changes neither the failure nor its progress, and no
\* generation goes back.
LEMMA NextCursorKeeps ==
    ASSUME NEW s \in StateType, NEW p \in Provider, NEW epoch \in Epochs \union {Nothing}
    PROVE  LET r == NextCursor(s, p, epoch) IN
           /\ r \in StateType
           /\ r.failure = s.failure /\ r.fenced = s.fenced /\ r.boot = s.boot
           /\ \A q \in Provider : r.gen[q] >= s.gen[q]
<1>1. CASE EpochChanged(s, p, epoch)
  <2> DEFINE g == [s.gen EXCEPT ![p] = s.gen[p] + 1]
             c == [s.seq EXCEPT ![p] = 1]
             e == [s.epoch EXCEPT ![p] = epoch]
  <2>1. /\ g \in [Provider -> Nat] /\ c \in [Provider -> Nat]
        /\ e \in [Provider -> Epochs \union {Nothing}]
        /\ \A q \in Provider : g[q] >= s.gen[q]
    BY DEF StateType
  <2>2. NextCursor(s, p, epoch) = [s EXCEPT !.gen = g, !.seq = c, !.epoch = e]
    BY <1>1 DEF NextCursor, StateType
  <2> HIDE DEF g, c, e
  <2> QED BY <2>1, <2>2 DEF StateType
<1>2. CASE ~EpochChanged(s, p, epoch)
  <2> DEFINE c == [s.seq EXCEPT ![p] = s.seq[p] + 1]
  <2>1. c \in [Provider -> Nat] /\ \A q \in Provider : s.gen[q] >= s.gen[q]
    BY DEF StateType
  <2>2. NextCursor(s, p, epoch) = [s EXCEPT !.seq = c]
    BY <1>2 DEF NextCursor, StateType
  <2> HIDE DEF c
  <2> QED BY <2>1, <2>2 DEF StateType
<1> QED BY <1>1, <1>2

\* The frame a cursor step composes is well typed and becomes pending.
LEMMA PendingKeeps ==
    ASSUME TypeOK, NEW s \in StateType, NEW p \in Provider,
           NEW fp \in Document \union Reason, NEW content \in Contents,
           NEW purpose \in {"snapshot", "source_failure"},
           s.boot > 0 => \A q \in Provider : s.gen[q] > 0,
           purpose = "source_failure" => s.failure = fp /\ p \notin s.fenced
    PROVE  LET r == SetPending(s, Frame(s, p, fp, content, purpose)) IN
           r \in StateType /\ Valid(r) /\ r.pending # Nothing /\ r.failure = s.failure
<1> DEFINE f == Frame(s, p, fp, content, purpose)
<1>1. spent.frames + 1 \in Nat
  BY DEF TypeOK
<1>2. s.gen[p] \in Nat /\ s.seq[p] \in Nat
  BY DEF StateType
<1>3. f \in FrameType /\ f.provider = p /\ f.fingerprint = fp /\ f.purpose = purpose
  BY <1>1, <1>2 DEF Frame, FrameType
<1>4. f # Nothing
  BY <1>3, NothingAssumption
<1> HIDE DEF f
<1> DEFINE r == [s EXCEPT !.pending = f, !.rejected = 0]
<1>5. r \in StateType /\ r.pending = f /\ r.failure = s.failure /\ r.fenced = s.fenced
      /\ r.boot = s.boot /\ r.gen = s.gen
  BY <1>3 DEF StateType
<1>6. Valid(r)
  BY <1>3, <1>5 DEF Valid
<1>7. SetPending(s, f) = r
  BY DEF SetPending
<1> QED BY <1>4, <1>5, <1>6, <1>7 DEF f

\* What a document and a health file map to is a content, and the epoch they
\* name is one.
LEMMA MappedType ==
    ASSUME NEW p \in Provider, NEW d \in Document, NEW h \in Health \union {Nothing}
    PROVE  Mapped(p, d, h) \in Contents /\ SourceEpoch(p, d, h) \in Epochs \union {Nothing}
<1>1. Content[d][p] \in Contents /\ "unavailable" \in Contents /\ "degraded" \in Contents
  BY DEF Contents
<1>2. Session[d] \in Epochs /\ (h # Nothing => HealthEpoch[h] \in Epochs)
  BY DEF Epochs
<1> QED BY <1>1, <1>2 DEF Mapped, SourceEpoch

\* The providers left to do.
Todos == {<<>>, <<"ibkr">>, Order}

LEMMA TodoType ==
    ASSUME NEW todo \in Todos, todo # <<>>
    PROVE  Head(todo) \in Provider /\ Tail(todo) \in Todos
<1>1. Head(<<"ibkr">>) = "ibkr" /\ Tail(<<"ibkr">>) = <<>>
  OBVIOUS
<1>2. Head(Order) = "schwab" /\ Tail(Order) = <<"ibkr">>
  BY DEF Order
<1> QED BY <1>1, <1>2 DEF Todos, Provider

\* An empty book, and what applying a frame makes of one.
LEMMA BookTyped ==
    ASSUME NEW book \in BookType, NEW f \in FrameType, NEW aged
    PROVE  EmptyBook(Nothing) \in BookType /\ Applied(book, aged, f) \in BookType
<1>1. f.provider \in Provider
  BY DEF FrameType
<1> QED BY <1>1 DEF EmptyBook, Applied, BookType

-----------------------------------------------------------------------------
(* The environment, Core and the connection *)

\* A fault is counted.
LEMMA FaultType ==
    ASSUME TypeOK, Fault
    PROVE  spent' \in [changes : Nat, faults : Nat, frames : Nat]
BY DEF TypeOK, Fault

LEMMA Inits == Init => BridgeInv
<1> SUFFICES ASSUME Init PROVE BridgeInv
  OBVIOUS
<1>1. state \in StateType
  BY DEF Init, NewState, StateType
<1>2. bridge \in BridgeType /\ bridge.pc = "down"
  BY DEF Init, Stopped, BridgeType
<1>3. core \in [up : BOOLEAN, run : Nat, book : BookType]
  BY DEF Init, EmptyBook, BookType
<1>4. spent \in [changes : Nat, faults : Nat, frames : Nat]
  BY DEF Init
<1>5. StateValid
  BY DEF Init, NewState, StateValid, Valid
<1>6. LoopOK
  BY <1>2 DEF LoopOK
<1>7. TypeOK
  BY <1>1, <1>2, <1>3, <1>4 DEF Init, TypeOK
<1> QED BY <1>5, <1>6, <1>7 DEF BridgeInv

\* Steps that touch neither the bridge nor its state.
LEMMA SameBridge ==
    ASSUME BridgeInv, UNCHANGED <<state, bridge>>, TypeOK'
    PROVE  BridgeInv'
BY DEF BridgeInv, LoopOK, StateValid

LEMMA SourceChangesKeeps == BridgeInv /\ SourceChanges => BridgeInv'
<1> SUFFICES ASSUME BridgeInv, SourceChanges PROVE BridgeInv'
  OBVIOUS
<1>1. spent' \in [changes : Nat, faults : Nat, frames : Nat]
  BY DEF BridgeInv, TypeOK, SourceChanges
<1>2. source' \in Document \union Reason /\ health' \in Health \union {Nothing}
  BY DEF BridgeInv, TypeOK, SourceChanges
<1>3. TypeOK'
  BY <1>1, <1>2 DEF BridgeInv, TypeOK, SourceChanges
<1> QED BY <1>3, SameBridge DEF SourceChanges

LEMMA ProcessKeeps == BridgeInv /\ Process => BridgeInv'
<1> SUFFICES ASSUME BridgeInv, Process PROVE BridgeInv'
  OBVIOUS
<1> DEFINE Acks == Answers \union {Nothing}
<1>1. PICK m \in wire : wire' = wire \ {m} /\ (Refuse(m) \/ AnswerKnown(m) \/ Apply(m))
  BY DEF Process
<1>2. m.frame \in FrameType
  BY DEF BridgeInv, TypeOK
<1>3. \A ack \in Acks : Answer(m, ack) => reply' \in Acks
  BY DEF Answer, BridgeInv, TypeOK
<1>4. \A ack \in {"busy", "rejected", "duplicate_ingress", "collision", "applied", "duplicate",
                  "stale"} : ack \in Acks
  BY DEF Answers, AcceptedAcks
<1>5. \A aged : Disposition(core.book, aged, m.frame, Nothing)
                \in {"duplicate", "collision", "applied", "stale"}
  BY DEF Disposition
<1>6. core.book \in BookType
  BY DEF BridgeInv, TypeOK
<1> DEFINE Types == /\ reply' \in Acks
                    /\ core' \in [up : BOOLEAN, run : Nat, book : BookType]
                    /\ recorded' \subseteq FrameType
                    /\ spent' \in [changes : Nat, faults : Nat, frames : Nat]
<1>7. ASSUME Refuse(m) PROVE Types
  <2>1. reply' \in Acks
    BY <1>3, <1>4, <1>7 DEF Refuse
  <2> QED BY <2>1, <1>7, FaultType DEF Refuse, BridgeInv, TypeOK
<1>8. ASSUME AnswerKnown(m) PROVE Types
  <2>1. reply' \in Acks
    BY <1>3, <1>4, <1>8 DEF AnswerKnown
  <2> QED BY <2>1, <1>8 DEF AnswerKnown, BridgeInv, TypeOK
<1>9. ASSUME Apply(m) PROVE Types
  <2>1. PICK aged \in {{}, core.book.seen} :
          LET d == Disposition(core.book, aged, m.frame, Nothing) IN
          /\ core' = IF d = "applied"
                     THEN [core EXCEPT !.book = Applied(core.book, aged, m.frame)]
                     ELSE core
          /\ \/ d = "collision" /\ Answer(m, d) /\ UNCHANGED <<recorded, spent>>
             \/ d # "collision" /\ Answer(m, d) /\ recorded' = recorded \union {m.frame}
                /\ UNCHANGED spent
             \/ d # "collision" /\ Fault /\ Answer(m, "rejected") /\ UNCHANGED recorded
    BY <1>9 DEF Apply
  <2> DEFINE b == Applied(core.book, aged, m.frame)
  <2>2. b \in BookType
    BY <1>2, <1>6, BookTyped
  <2> HIDE DEF b
  <2>3. core \in [up : BOOLEAN, run : Nat, book : BookType]
    BY DEF BridgeInv, TypeOK
  <2>4. [core EXCEPT !.book = b] \in [up : BOOLEAN, run : Nat, book : BookType]
    BY <2>2, <2>3
  <2>5. core' \in [up : BOOLEAN, run : Nat, book : BookType]
    BY <2>1, <2>3, <2>4 DEF b
  <2>6. reply' \in Acks
    BY <2>1, <1>3, <1>4, <1>5
  <2>7. spent' \in [changes : Nat, faults : Nat, frames : Nat] /\ recorded' \subseteq FrameType
    BY <2>1, <1>2, FaultType DEF BridgeInv, TypeOK
  <2> QED BY <2>5, <2>6, <2>7
<1>10. Types
  BY <1>1, <1>7, <1>8, <1>9
<1>11. TypeOK'
  BY <1>1, <1>10 DEF Process, BridgeInv, TypeOK
<1> QED BY <1>11, SameBridge DEF Process

LEMMA CoreStartKeeps == BridgeInv /\ CoreStart => BridgeInv'
<1> SUFFICES ASSUME BridgeInv, CoreStart PROVE BridgeInv'
  OBVIOUS
<1>1. core.run + 1 \in Nat /\ EmptyBook(Nothing) \in BookType
  BY DEF BridgeInv, TypeOK, EmptyBook, BookType
<1>2. TypeOK'
  BY <1>1 DEF BridgeInv, TypeOK, CoreStart
<1> QED BY <1>2, SameBridge DEF CoreStart

LEMMA CoreCrashKeeps == BridgeInv /\ CoreCrash => BridgeInv'
<1> SUFFICES ASSUME BridgeInv, CoreCrash PROVE BridgeInv'
  OBVIOUS
<1> DEFINE conn == IF bridge.conn = "open" THEN "broken" ELSE bridge.conn
<1>1. bridge \in BridgeType
  BY DEF BridgeInv, TypeOK
<1>2. conn \in {"none", "open", "broken"}
  BY <1>1 DEF BridgeType
<1>3. bridge' = [bridge EXCEPT !.conn = conn]
  BY DEF CoreCrash
<1> HIDE DEF conn
<1>4. bridge' \in BridgeType /\ bridge'.pc = bridge.pc /\ bridge'.after = bridge.after
      /\ bridge'.reading = bridge.reading
  BY <1>1, <1>2, <1>3 DEF BridgeType
<1>5. EmptyBook(Nothing) \in BookType
  BY DEF EmptyBook, BookType
<1>6. core' \in [up : BOOLEAN, run : Nat, book : BookType]
  BY <1>5 DEF BridgeInv, TypeOK, CoreCrash
<1>7. TypeOK'
  BY <1>4, <1>6 DEF BridgeInv, TypeOK, CoreCrash
<1>8. LoopOK' /\ StateValid'
  BY <1>4 DEF BridgeInv, LoopOK, StateValid, CoreCrash
<1> QED BY <1>7, <1>8 DEF BridgeInv

-----------------------------------------------------------------------------
(* Steps of the bridge.  Each lemma about an action has the same three       *)
(* parts: the new state, the new process, and the conjuncts they disturb.    *)

\* The parts of TypeOK that the bridge's own steps leave alone.
Context ==
    /\ source \in Document \union Reason
    /\ health \in Health \union {Nothing}
    /\ core \in [up : BOOLEAN, run : Nat, book : BookType]
    /\ recorded \subseteq FrameType
    /\ wire \subseteq [late : BOOLEAN, frame : FrameType]
    /\ reply \in Answers \union {Nothing}
    /\ acked \subseteq Provider
    /\ spent \in [changes : Nat, faults : Nat, frames : Nat]

\* Ways to rest.
LEMMA RestTypes ==
    ASSUME NEW b \in BridgeType
    PROVE  /\ Disconnected(b) \in BridgeType /\ Disconnected(b).pc = "tick"
           /\ Halted \in BridgeType /\ Halted.pc = "down"
           /\ [Stopped EXCEPT !.pc = "tick"] \in BridgeType
           /\ [Stopped EXCEPT !.pc = "tick"].pc = "tick"
<1>1. Disconnected(b) \in BridgeType /\ Disconnected(b).pc = "tick"
  BY DEF Disconnected, BridgeType
<1>2. Halted \in BridgeType /\ Halted.pc = "down"
  BY DEF Halted, Stopped, BridgeType
<1>3. [Stopped EXCEPT !.pc = "tick"] \in BridgeType /\ [Stopped EXCEPT !.pc = "tick"].pc = "tick"
  BY DEF Stopped, BridgeType
<1> QED BY <1>1, <1>2, <1>3

\* A step to rest keeps the invariant when the state stays valid.
LEMMA ToRest ==
    ASSUME Context', state' \in StateType, Valid(state)', bridge' \in BridgeType,
           bridge'.pc \in {"down", "tick"}
    PROVE  BridgeInv'
<1>1. LoopOK'
  BY DEF LoopOK
<1> QED BY <1>1 DEF BridgeInv, TypeOK, Context, StateValid

LEMMA AbandonedType ==
    ASSUME wire \subseteq [late : BOOLEAN, frame : FrameType]
    PROVE  Abandoned \subseteq [late : BOOLEAN, frame : FrameType]
BY DEF Abandoned

LEMMA BootKeeps == BridgeInv /\ Boot => BridgeInv'
<1> SUFFICES ASSUME BridgeInv, Boot PROVE BridgeInv'
  OBVIOUS
<1>1. state' \in StateType /\ Valid(state)'
  BY BeginBootKeeps DEF Boot, BridgeInv, TypeOK, StateValid, Valid
<1>2. bridge' \in BridgeType /\ bridge'.pc = "tick"
  BY RestTypes DEF Boot, BridgeInv, TypeOK
<1>3. Context'
  BY DEF Boot, BridgeInv, TypeOK, Context
<1> QED BY <1>1, <1>2, <1>3, ToRest

LEMMA ConnectKeeps == BridgeInv /\ Connect => BridgeInv'
<1> SUFFICES ASSUME BridgeInv, Connect PROVE BridgeInv'
  OBVIOUS
<1>1. state' \in StateType /\ Valid(state)'
  BY ResetKeeps DEF Connect, BridgeInv, TypeOK, StateValid, Valid
<1>2. bridge \in BridgeType /\ bridge.pc = "tick"
  BY DEF Connect, BridgeInv, TypeOK
<1>3. bridge' \in BridgeType /\ bridge'.pc = "tick"
  BY <1>2 DEF Connect, BridgeType
<1>4. Context'
  BY DEF Connect, BridgeInv, TypeOK, Context
<1> QED BY <1>1, <1>3, <1>4, ToRest

\* Steps back to rest that leave the state alone.
LEMMA ToRestSame ==
    ASSUME BridgeInv, UNCHANGED state, Context', bridge' \in BridgeType,
           bridge'.pc \in {"down", "tick"}
    PROVE  BridgeInv'
<1>1. state' \in StateType /\ Valid(state)'
  BY DEF BridgeInv, TypeOK, StateValid, Valid
<1> QED BY <1>1, ToRest

LEMMA ConnectFailsKeeps == BridgeInv /\ ConnectFails => BridgeInv'
<1> SUFFICES ASSUME BridgeInv, ConnectFails PROVE BridgeInv'
  OBVIOUS
<1>1. bridge \in BridgeType /\ bridge.pc = "tick"
  BY DEF ConnectFails, BridgeInv, TypeOK
<1>2. bridge' \in BridgeType /\ bridge'.pc = "tick"
  BY <1>1 DEF ConnectFails, BridgeType
<1>3. Context'
  BY DEF ConnectFails, BridgeInv, TypeOK, Context
<1> QED BY <1>2, <1>3, ToRestSame DEF ConnectFails

LEMMA CrashKeeps == BridgeInv /\ Crash => BridgeInv'
<1> SUFFICES ASSUME BridgeInv, Crash PROVE BridgeInv'
  OBVIOUS
<1>1. bridge' \in BridgeType /\ bridge'.pc = "down"
  BY RestTypes DEF Crash, BridgeInv, TypeOK
<1>2. Context'
  BY AbandonedType DEF Crash, BridgeInv, TypeOK, Context
<1> QED BY <1>1, <1>2, ToRestSame DEF Crash

LEMMA LaneFailureKeeps == BridgeInv /\ LaneFailure => BridgeInv'
<1> SUFFICES ASSUME BridgeInv, LaneFailure PROVE BridgeInv'
  OBVIOUS
<1>1. bridge' \in BridgeType /\ bridge'.pc = "tick"
  BY RestTypes DEF LaneFailure, BridgeInv, TypeOK
<1>2. Context'
  BY FaultType DEF LaneFailure, BridgeInv, TypeOK, Context
<1> QED BY <1>1, <1>2, ToRestSame DEF LaneFailure

LEMMA SendFailsKeeps == BridgeInv /\ SendFails => BridgeInv'
<1> SUFFICES ASSUME BridgeInv, SendFails PROVE BridgeInv'
  OBVIOUS
<1>1. bridge' \in BridgeType /\ bridge'.pc = "tick"
  BY RestTypes DEF SendFails, BridgeInv, TypeOK
<1>2. Context'
  BY FaultType DEF SendFails, BridgeInv, TypeOK, Context
<1> QED BY <1>1, <1>2, ToRestSame DEF SendFails

LEMMA AnswerLostKeeps == BridgeInv /\ AnswerLost => BridgeInv'
<1> SUFFICES ASSUME BridgeInv, AnswerLost PROVE BridgeInv'
  OBVIOUS
<1>1. bridge' \in BridgeType /\ bridge'.pc = "tick"
  BY RestTypes DEF AnswerLost, BridgeInv, TypeOK
<1>2. Context'
  BY FaultType, AbandonedType DEF AnswerLost, BridgeInv, TypeOK, Context
<1> QED BY <1>1, <1>2, ToRestSame DEF AnswerLost

LEMMA RetryPendingKeeps == BridgeInv /\ RetryPending => BridgeInv'
<1> SUFFICES ASSUME BridgeInv, RetryPending PROVE BridgeInv'
  OBVIOUS
<1>1. bridge \in BridgeType
  BY DEF BridgeInv, TypeOK
<1>2. bridge' \in BridgeType /\ bridge'.pc = "send" /\ bridge'.after = "tick"
  BY <1>1 DEF RetryPending, BridgeType
<1>3. LoopOK'
  BY <1>2 DEF LoopOK
<1> QED BY <1>2, <1>3 DEF RetryPending, BridgeInv, TypeOK, StateValid, Valid

LEMMA ReadSourceKeeps == BridgeInv /\ ReadSource => BridgeInv'
<1> SUFFICES ASSUME BridgeInv, ReadSource PROVE BridgeInv'
  OBVIOUS
<1>1. bridge \in BridgeType /\ bridge.pc = "tick" /\ state \in StateType /\ Valid(state)
      /\ state.pending = Nothing
  BY DEF ReadSource, BridgeInv, TypeOK, StateValid
<1>2. Context'
  BY DEF ReadSource, BridgeInv, TypeOK, Context
<1>3. CASE source \in Reason /\ state' = BeginSourceFailure(state, source)
           /\ bridge' = [bridge EXCEPT !.pc = "fence", !.reading = source, !.todo = Order,
                                       !.phase = "degraded"]
  <2>1. state' \in StateType /\ Valid(state)' /\ state'.pending = Nothing /\ state'.failure = source
    BY <1>1, <1>3, FailureKeeps DEF Valid
  <2>2. bridge' \in BridgeType /\ bridge'.pc = "fence" /\ bridge'.reading = source
    BY <1>1, <1>3 DEF BridgeType
  <2>3. LoopOK'
    BY <1>3, <2>1, <2>2 DEF LoopOK
  <2> QED BY <1>2, <2>1, <2>2, <2>3 DEF BridgeInv, TypeOK, Context, StateValid
<1>4. CASE UNCHANGED state /\ bridge' = [bridge EXCEPT !.phase = "ready"]
  <2>1. bridge' \in BridgeType /\ bridge'.pc = "tick"
    BY <1>1, <1>4 DEF BridgeType
  <2> QED BY <1>2, <1>4, <2>1, ToRestSame
<1>5. CASE UNCHANGED state /\ bridge' = Halted
  <2>1. bridge' \in BridgeType /\ bridge'.pc = "down"
    BY <1>1, <1>5, RestTypes
  <2> QED BY <1>2, <1>5, <2>1, ToRestSame
<1>6. CASE UNCHANGED state /\ source \in Document
           /\ bridge' = [bridge EXCEPT !.pc = "health", !.reading = source]
  <2>1. bridge' \in BridgeType /\ bridge'.pc = "health" /\ bridge'.reading = source
    BY <1>1, <1>6 DEF BridgeType
  <2>2. LoopOK'
    BY <1>1, <1>6, <2>1 DEF LoopOK
  <2>3. state' \in StateType /\ Valid(state)'
    BY <1>1, <1>6 DEF Valid
  <2> QED BY <1>2, <2>1, <2>2, <2>3 DEF BridgeInv, TypeOK, Context, StateValid
<1> QED BY <1>3, <1>4, <1>5, <1>6 DEF ReadSource

LEMMA ReadHealthKeeps == BridgeInv /\ ReadHealth => BridgeInv'
<1> SUFFICES ASSUME BridgeInv, ReadHealth PROVE BridgeInv'
  OBVIOUS
<1> DEFINE phase == IF bridge.resync THEN "socket_sync_fence" ELSE "snapshot_sync"
<1>1. bridge \in BridgeType /\ health \in Health \union {Nothing}
  BY DEF BridgeInv, TypeOK
<1>2. phase \in {"socket_sync_fence", "snapshot_sync"}
  OBVIOUS
<1>3. bridge' = [bridge EXCEPT !.pc = "sync", !.health = health, !.todo = Order, !.phase = phase]
  BY DEF ReadHealth
<1> HIDE DEF phase
<1>4. bridge' \in BridgeType /\ bridge'.pc = "sync" /\ bridge'.reading = bridge.reading
  BY <1>1, <1>2, <1>3 DEF BridgeType
<1>5. LoopOK'
  BY <1>4 DEF LoopOK, ReadHealth, BridgeInv
<1> QED BY <1>4, <1>5 DEF ReadHealth, BridgeInv, TypeOK, StateValid, Valid

\* A provider that needs no frame is dropped from the list.
LEMMA SkipKeeps ==
    ASSUME BridgeInv, bridge.pc \in {"sync", "fence"}, bridge.todo # <<>>,
           bridge' = [bridge EXCEPT !.todo = Tail(bridge.todo)],
           UNCHANGED <<state, source, health, core, recorded, wire, reply, acked, spent>>
    PROVE  BridgeInv'
<1>1. bridge \in BridgeType /\ bridge.todo \in Todos
  BY DEF BridgeInv, TypeOK, BridgeType, Todos
<1> DEFINE rest == Tail(bridge.todo)
<1>2. rest \in Todos
  BY <1>1, TodoType
<1> HIDE DEF rest
<1>3. bridge' = [bridge EXCEPT !.todo = rest]
  BY DEF rest
<1>4. bridge' \in BridgeType /\ bridge'.pc = bridge.pc /\ bridge'.reading = bridge.reading
      /\ bridge'.after = bridge.after
  BY <1>1, <1>2, <1>3 DEF BridgeType, Todos
<1>5. LoopOK'
  BY <1>4 DEF LoopOK, BridgeInv
<1> QED BY <1>4, <1>5 DEF BridgeInv, TypeOK, StateValid, Valid

\* A frame is composed and becomes durable with its cursor.
LEMMA ComposeKeeps ==
    ASSUME BridgeInv, bridge.pc \in {"sync", "fence"}, bridge.todo # <<>>,
           NEW s \in StateType, NEW content \in Contents,
           s.failure = state.failure, s.fenced = state.fenced,
           s.boot > 0 => \A q \in Provider : s.gen[q] > 0,
           NEW purpose \in {"snapshot", "source_failure"}, NEW after \in {"sync", "fence"},
           bridge.pc = "sync" => purpose = "snapshot" /\ after = "sync",
           bridge.pc = "fence" => purpose = "source_failure" /\ after = "fence"
                                  /\ Head(bridge.todo) \notin state.fenced,
           Compose(s, Frame(s, Head(bridge.todo), bridge.reading, content, purpose), after),
           UNCHANGED <<source, health, core, recorded, wire, reply, acked>>
    PROVE  BridgeInv'
<1>1. bridge \in BridgeType /\ bridge.todo \in Todos
  BY DEF BridgeInv, TypeOK, BridgeType, Todos
<1> DEFINE p == Head(bridge.todo)
           rest == Tail(bridge.todo)
<1>2. p \in Provider /\ rest \in Todos
  BY <1>1, TodoType
<1>3. bridge.reading \in Document \union Reason
  BY DEF BridgeInv, LoopOK
<1>4. purpose = "source_failure" => s.failure = bridge.reading /\ p \notin s.fenced
  BY DEF BridgeInv, LoopOK
<1>5. /\ state' = SetPending(s, Frame(s, p, bridge.reading, content, purpose))
      /\ bridge' = [bridge EXCEPT !.pc = "send", !.todo = rest, !.after = after]
      /\ spent' = [spent EXCEPT !.frames = spent.frames + 1]
  BY DEF Compose
<1> HIDE DEF p, rest
<1>6. /\ state' \in StateType /\ Valid(state)' /\ state'.pending # Nothing
      /\ state'.failure = state.failure
  BY <1>2, <1>3, <1>4, <1>5, PendingKeeps DEF BridgeInv, Valid
<1>7. /\ bridge' \in BridgeType /\ bridge'.pc = "send" /\ bridge'.after = after
      /\ bridge'.reading = bridge.reading
  BY <1>1, <1>2, <1>5 DEF BridgeType, Todos
<1>8. LoopOK'
  BY <1>6, <1>7 DEF LoopOK, BridgeInv
<1>9. spent' \in [changes : Nat, faults : Nat, frames : Nat]
  BY <1>5 DEF BridgeInv, TypeOK
<1> QED BY <1>6, <1>7, <1>8, <1>9 DEF BridgeInv, TypeOK, StateValid

LEMMA SyncProviderKeeps == BridgeInv /\ SyncProvider => BridgeInv'
<1> SUFFICES ASSUME BridgeInv, SyncProvider PROVE BridgeInv'
  OBVIOUS
<1> DEFINE p == Head(bridge.todo)
           epoch == SourceEpoch(p, bridge.reading, bridge.health)
           content == Mapped(p, bridge.reading, bridge.health)
           next == NextCursor(state, p, epoch)
<1>1. bridge.pc = "sync" /\ bridge.todo # <<>> /\ bridge.reading \in Document
  BY DEF SyncProvider, BridgeInv, LoopOK
<1>2. bridge.todo \in Todos /\ bridge.health \in Health \union {Nothing}
  BY DEF BridgeInv, TypeOK, BridgeType, Todos
<1>3. p \in Provider
  BY <1>1, <1>2, TodoType
<1>4. content \in Contents /\ epoch \in Epochs \union {Nothing}
  BY <1>1, <1>2, <1>3, MappedType
<1>5. \/ Skippable(p, epoch, content) /\ bridge' = [bridge EXCEPT !.todo = Tail(bridge.todo)]
         /\ UNCHANGED <<state, spent>>
      \/ Compose(next, Frame(next, p, bridge.reading, content, "snapshot"), "sync")
  BY DEF SyncProvider
<1>6. UNCHANGED <<source, health, core, recorded, wire, reply, acked>>
  BY DEF SyncProvider
<1>7. state \in StateType /\ (state.boot > 0 => \A q \in Provider : state.gen[q] > 0)
  BY DEF BridgeInv, TypeOK, StateValid, Valid
<1> HIDE DEF epoch, content
<1>8. /\ next \in StateType /\ next.failure = state.failure /\ next.fenced = state.fenced
      /\ next.boot = state.boot /\ \A q \in Provider : next.gen[q] >= state.gen[q]
  BY <1>3, <1>4, <1>7, NextCursorKeeps
<1> HIDE DEF next
<1>9. next.boot > 0 => \A q \in Provider : next.gen[q] > 0
  BY <1>7, <1>8 DEF StateType
<1>10. CASE bridge' = [bridge EXCEPT !.todo = Tail(bridge.todo)] /\ UNCHANGED <<state, spent>>
  BY <1>1, <1>6, <1>10, SkipKeeps
<1>11. CASE Compose(next, Frame(next, p, bridge.reading, content, "snapshot"), "sync")
  BY <1>1, <1>4, <1>6, <1>8, <1>9, <1>11, ComposeKeeps
<1> QED BY <1>5, <1>10, <1>11

LEMMA FenceProviderKeeps == BridgeInv /\ FenceProvider => BridgeInv'
<1> SUFFICES ASSUME BridgeInv, FenceProvider PROVE BridgeInv'
  OBVIOUS
<1> DEFINE p == Head(bridge.todo)
           next == NextCursor(state, p, Nothing)
<1>1. bridge.pc = "fence" /\ bridge.todo # <<>>
  BY DEF FenceProvider
<1>2. bridge.todo \in Todos
  BY DEF BridgeInv, TypeOK, BridgeType, Todos
<1>3. p \in Provider
  BY <1>1, <1>2, TodoType
<1>4. \/ bridge' = [bridge EXCEPT !.todo = Tail(bridge.todo)] /\ UNCHANGED <<state, spent>>
      \/ /\ p \notin state.fenced
         /\ Compose(next, Frame(next, p, bridge.reading, "unavailable", "source_failure"), "fence")
  BY DEF FenceProvider
<1>5. UNCHANGED <<source, health, core, recorded, wire, reply, acked>>
  BY DEF FenceProvider
<1>6. state \in StateType /\ (state.boot > 0 => \A q \in Provider : state.gen[q] > 0)
  BY DEF BridgeInv, TypeOK, StateValid, Valid
<1>7. /\ next \in StateType /\ next.failure = state.failure /\ next.fenced = state.fenced
      /\ next.boot = state.boot /\ \A q \in Provider : next.gen[q] >= state.gen[q]
  BY <1>3, <1>6, NextCursorKeeps
<1> HIDE DEF next
<1>8. next.boot > 0 => \A q \in Provider : next.gen[q] > 0
  BY <1>6, <1>7 DEF StateType
<1>9. "unavailable" \in Contents
  BY DEF Contents
<1>10. CASE bridge' = [bridge EXCEPT !.todo = Tail(bridge.todo)] /\ UNCHANGED <<state, spent>>
  BY <1>1, <1>5, <1>10, SkipKeeps
<1>11. CASE /\ p \notin state.fenced
            /\ Compose(next, Frame(next, p, bridge.reading, "unavailable", "source_failure"),
                       "fence")
  BY <1>1, <1>5, <1>7, <1>8, <1>9, <1>11, ComposeKeeps
<1> QED BY <1>4, <1>10, <1>11

LEMMA CompleteDocumentKeeps == BridgeInv /\ CompleteDocument => BridgeInv'
<1> SUFFICES ASSUME BridgeInv, CompleteDocument PROVE BridgeInv'
  OBVIOUS
<1>1. state \in StateType /\ Valid(state) /\ state.pending = Nothing /\ bridge \in BridgeType
      /\ bridge.reading \in Document
  BY DEF CompleteDocument, BridgeInv, TypeOK, StateValid, LoopOK
<1>2. state' \in StateType /\ Valid(state)'
  BY <1>1, CompleteKeeps DEF CompleteDocument, Valid
<1>3. bridge' \in BridgeType /\ bridge'.pc = "tick"
  BY <1>1 DEF CompleteDocument, BridgeType
<1>4. Context'
  BY DEF CompleteDocument, BridgeInv, TypeOK, Context
<1> QED BY <1>2, <1>3, <1>4, ToRest

LEMMA FenceCompleteKeeps == BridgeInv /\ FenceComplete => BridgeInv'
<1> SUFFICES ASSUME BridgeInv, FenceComplete PROVE BridgeInv'
  OBVIOUS
<1>1. bridge \in BridgeType
  BY DEF BridgeInv, TypeOK
<1>2. bridge' \in BridgeType /\ bridge'.pc = "tick"
  BY <1>1 DEF FenceComplete, BridgeType
<1>3. Context'
  BY DEF FenceComplete, BridgeInv, TypeOK, Context
<1> QED BY <1>2, <1>3, ToRestSame DEF FenceComplete

LEMMA SendKeeps == BridgeInv /\ Send => BridgeInv'
<1> SUFFICES ASSUME BridgeInv, Send PROVE BridgeInv'
  OBVIOUS
<1>1. bridge \in BridgeType /\ bridge.pc = "send" /\ state.pending \in FrameType
  BY DEF Send, BridgeInv, TypeOK, StateType
<1>2. bridge' \in BridgeType /\ bridge'.pc = "await" /\ bridge'.after = bridge.after
      /\ bridge'.reading = bridge.reading
  BY <1>1 DEF Send, BridgeType
<1>3. LoopOK'
  BY <1>1, <1>2 DEF LoopOK, Send, BridgeInv
<1> DEFINE m == [late |-> FALSE, frame |-> state.pending]
<1>4. m \in [late : BOOLEAN, frame : FrameType]
  BY <1>1
<1>5. wire' = wire \union {m}
  BY DEF Send
<1> HIDE DEF m
<1>6. wire' \subseteq [late : BOOLEAN, frame : FrameType]
  BY <1>4, <1>5 DEF BridgeInv, TypeOK
<1> QED BY <1>1, <1>2, <1>3, <1>6 DEF Send, BridgeInv, TypeOK, StateValid, Valid

LEMMA AcceptedKeeps == BridgeInv /\ Accepted => BridgeInv'
<1> SUFFICES ASSUME BridgeInv, Accepted PROVE BridgeInv'
  OBVIOUS
<1>1. state \in StateType /\ Valid(state) /\ state.pending # Nothing /\ bridge \in BridgeType
      /\ bridge.pc = "await"
  BY DEF Accepted, BridgeInv, TypeOK, StateValid
<1>2. state' \in StateType /\ Valid(state)' /\ state'.pending = Nothing
      /\ state'.failure = state.failure
  BY <1>1, AcknowledgeKeeps DEF Accepted, Valid
<1>3. bridge.after \in {"tick", "sync", "fence"}
  BY <1>1 DEF BridgeType
<1>4. bridge' \in BridgeType /\ bridge'.pc = bridge.after /\ bridge'.reading = bridge.reading
  BY <1>1, <1>3 DEF Accepted, BridgeType
<1>5. LoopOK'
  BY <1>1, <1>2, <1>3, <1>4 DEF LoopOK, BridgeInv
<1>6. state.pending.provider \in Provider
  BY <1>1 DEF StateType, FrameType
<1>7. Context'
  BY <1>6 DEF Accepted, BridgeInv, TypeOK, Context
<1> QED BY <1>2, <1>3, <1>4, <1>5, <1>7 DEF BridgeInv, TypeOK, Context, StateValid

LEMMA NotAcceptedKeeps == BridgeInv /\ NotAccepted => BridgeInv'
<1> SUFFICES ASSUME BridgeInv, NotAccepted PROVE BridgeInv'
  OBVIOUS
<1>1. state \in StateType /\ Valid(state) /\ bridge \in BridgeType
  BY DEF BridgeInv, TypeOK, StateValid
<1> DEFINE n == state.rejected + 1
           r == [state EXCEPT !.rejected = n]
<1>2. n \in Nat
  BY <1>1 DEF StateType
<1>3. state' = r \/ state' = state
  BY DEF NotAccepted
<1> HIDE DEF n
<1>4. r \in StateType /\ r.pending = state.pending /\ r.failure = state.failure
      /\ r.fenced = state.fenced /\ r.boot = state.boot /\ r.gen = state.gen
  BY <1>1, <1>2 DEF StateType
<1> HIDE DEF r
<1>5. state' \in StateType /\ Valid(state)'
  BY <1>1, <1>3, <1>4 DEF Valid
<1>6. bridge' \in BridgeType /\ bridge'.pc \in {"down", "tick"}
  BY <1>1, RestTypes DEF NotAccepted
<1>7. Context'
  BY DEF NotAccepted, BridgeInv, TypeOK, Context
<1> QED BY <1>5, <1>6, <1>7, ToRest

-----------------------------------------------------------------------------
(* The theorems *)

LEMMA BridgeInductive == BridgeInv /\ [Next]_vars => BridgeInv'
<1> SUFFICES ASSUME BridgeInv, [Next]_vars PROVE BridgeInv'
  OBVIOUS
<1>1. CASE Tick
  BY <1>1, ConnectKeeps, ConnectFailsKeeps, RetryPendingKeeps, ReadSourceKeeps, ReadHealthKeeps
  DEF Tick
<1>2. CASE Mirror
  BY <1>2, SyncProviderKeeps, CompleteDocumentKeeps, FenceProviderKeeps, FenceCompleteKeeps
  DEF Mirror
<1>3. CASE Exchange
  BY <1>3, SendKeeps, SendFailsKeeps, AnswerLostKeeps, AcceptedKeeps, NotAcceptedKeeps
  DEF Exchange
<1>4. CASE SourceChanges \/ Boot \/ LaneFailure \/ Crash
  BY <1>4, SourceChangesKeeps, BootKeeps, LaneFailureKeeps, CrashKeeps
<1>5. CASE Process \/ CoreStart \/ CoreCrash
  BY <1>5, ProcessKeeps, CoreStartKeeps, CoreCrashKeeps
<1>6. CASE UNCHANGED vars
  BY <1>6 DEF vars, BridgeInv, TypeOK, LoopOK, StateValid, Valid
<1> QED BY <1>1, <1>2, <1>3, <1>4, <1>5, <1>6 DEF Next, BridgeStep

LEMMA BridgeInvariant == Spec => []BridgeInv
BY Inits, BridgeInductive, PTL DEF Spec

\* Bridge, Core, socket and files keep their types, and the bridge sends or
\* awaits only what it has stored as pending.
THEOREM TypeCorrect == Spec => []TypeOK
<1>1. BridgeInv => TypeOK
  BY DEF BridgeInv
<1> QED BY <1>1, BridgeInvariant, PTL

\* BridgeState::validate accepts every state the bridge persists, whatever
\* crashes, lost answers and source failures came before: a start of the
\* bridge never fails on its own state file.
THEOREM StateAlwaysValid == Spec => []StateValid
<1>1. BridgeInv => StateValid
  BY DEF BridgeInv
<1> QED BY <1>1, BridgeInvariant, PTL

-----------------------------------------------------------------------------
(* The invariant behind the mirror *)

\* Every frame that is still somewhere.
Known ==
    {m.frame : m \in wire} \union recorded \union core.book.seen
    \union {core.book.cursor[p] : p \in {q \in Provider : core.book.cursor[q] # Nothing}}
    \union ({state.pending} \ {Nothing})

\* Frames are told apart by their provider, generation and sequence; none is
\* ahead of the durable cursor, or of the pending frame of its provider.
Numbered ==
    /\ \A f \in Known :
         \/ f.gen < state.gen[f.provider]
         \/ f.gen = state.gen[f.provider] /\ f.seq <= state.seq[f.provider]
    /\ \A f, g \in Known : f.provider = g.provider /\ f.gen = g.gen /\ f.seq = g.seq => f = g
    /\ state.pending # Nothing =>
         \A f \in Known : f.provider = state.pending.provider => ~Older(state.pending, f)

\* The book's cursor is the greatest of what the book remembers and of what was
\* recorded; while the book is empty, of what it may still receive only frames that
\* are not older than any recorded one are left.
Cursors ==
    LET cursor == core.book.cursor IN
    /\ \A p \in Provider : cursor[p] # Nothing => cursor[p].provider = p
    /\ \A f \in core.book.seen : cursor[f.provider] # Nothing /\ ~Older(cursor[f.provider], f)
    /\ \A f \in recorded :
         IF cursor[f.provider] # Nothing
         THEN ~Older(cursor[f.provider], f)
         ELSE \A m \in wire : m.frame.provider = f.provider => ~Older(m.frame, f)
    /\ ~core.up => core.book = EmptyBook(Nothing)

\* The loop of which a step is under way, frames that are sent for it included.
Looping(loop) == bridge.pc = loop \/ (bridge.pc \in {"send", "await"} /\ bridge.after = loop)

\* One connection at a time: only the last frame sent on it is not late, and
\* its answer is the last thing the connection carries.
Connection ==
    /\ bridge.conn = "none" => bridge.resync /\ bridge.pc \in {"tick", "down"}
    /\ bridge.conn = "broken" => wire = {} /\ core.book = EmptyBook(Nothing)
    /\ bridge.pc = "down" => bridge.conn = "none"
    /\ Looping("tick") /\ state.pending # Nothing => bridge.resync
    /\ \A m \in wire : ~m.late => bridge.pc = "await" /\ m.frame = state.pending /\ reply = Nothing
    /\ reply # Nothing => bridge.pc = "await"
    /\ reply \in AcceptedAcks => state.pending \in recorded

\* A frame composed on this connection is new to Core, and an answer that accepts it
\* finds it in the book as long as Core lives.
NewFrame ==
    /\ bridge.pc = "send" /\ bridge.after # "tick" =>
         state.pending \notin recorded /\ \A m \in wire : m.frame # state.pending
    /\ bridge.pc = "await" /\ bridge.after # "tick" =>
         /\ \A m \in wire : m.frame = state.pending => ~m.late
         /\ reply = Nothing => state.pending \notin recorded
         /\ reply \in AcceptedAcks /\ bridge.conn = "open" =>
              core.book.cursor[state.pending.provider] # Nothing

\* The providers that the loop has not settled yet.
InFlight == IF bridge.pc \in {"send", "await"} THEN {state.pending.provider} ELSE {}
Left == IF bridge.todo = <<>> THEN {} ELSE IF bridge.todo = <<"ibkr">> THEN {"ibkr"} ELSE Provider
Settled == Provider \ (Left \union InFlight)

\* The book shows what the bridge last had acknowledged, and nothing that is still
\* on its way can change that.
Shown(p) ==
    LET c == core.book.cursor[p] IN
    /\ c # Nothing /\ c.content = state.hash[p]
    /\ \A m \in wire : m.frame.provider = p => ~Older(c, m.frame)

\* Nothing live stands in the book for a fenced provider or can still replace what
\* stands there, although the book may have been lost since the fence was recorded.
Dark(p) ==
    LET c == core.book.cursor[p] IN
    /\ c # Nothing => ~Live(c.content)
    /\ \A m \in wire : m.frame.provider = p /\ (c = Nothing \/ Older(c, m.frame))
                       => ~Live(m.frame.content)

\* The pending frame carries what its loop composed it for.
Composed ==
    /\ bridge.pc \in {"send", "await"} /\ bridge.after = "sync" =>
         state.pending.content = Mapped(state.pending.provider, bridge.reading, bridge.health)
    /\ bridge.pc \in {"send", "await"} /\ bridge.after = "fence" =>
         state.pending.purpose = "source_failure"
    /\ state.pending # Nothing /\ state.pending.purpose = "source_failure" =>
         state.pending.content = "unavailable"

\* Both loops settle one provider after the other, on this connection.
Synchronising ==
    Looping("sync") => \A p \in Settled :
      /\ p \in acked /\ state.hash[p] = Mapped(p, bridge.reading, bridge.health)
      /\ SamePeer => Shown(p)

Synchronised ==
    ~bridge.resync =>
      /\ acked = Provider
      /\ state.failure = Nothing /\ SamePeer => \A p \in Provider \ InFlight : Shown(p)
      /\ bridge.pc \in {"tick", "health"} /\ state.failure = Nothing =>
           \A p \in Provider : state.hash[p] = Mapped(p, state.doneSource, bridge.health)

ReadyIsIdle ==
    bridge.phase = "ready" =>
      bridge.pc \in {"tick", "health"} /\ ~bridge.resync /\ state.failure = Nothing

Fencing ==
    /\ state.fenced \subseteq acked
    /\ Looping("fence") => Settled \subseteq state.fenced
    /\ Looping("tick") /\ state.pending # Nothing /\ bridge.conn # "none" => state.fenced = {}
    /\ bridge.pc = "tick" /\ ~bridge.resync /\ state.failure # Nothing => state.fenced = Provider
    /\ (Looping("tick") \/ Looping("fence")) /\ bridge.conn # "none" =>
         \A p \in state.fenced : Dark(p)

MirrorInv ==
    /\ BridgeInv /\ NeverStale /\ Numbered /\ Cursors /\ Connection /\ NewFrame /\ Composed
    /\ Synchronising /\ Synchronised /\ ReadyIsIdle /\ Fencing

-----------------------------------------------------------------------------
(* Frames *)

LEMMA FrameFields ==
    ASSUME NEW f \in FrameType
    PROVE  f.provider \in Provider /\ f.gen \in Nat /\ f.seq \in Nat /\ f # Nothing
BY NothingAssumption DEF FrameType

LEMMA KnownTyped ==
    ASSUME TypeOK
    PROVE  Known \subseteq FrameType
<1>1. core.book \in BookType /\ state \in StateType
  BY DEF TypeOK
<1>2. core.book.seen \subseteq FrameType
      /\ \A p \in Provider : core.book.cursor[p] \in FrameType \union {Nothing}
  BY <1>1 DEF BookType
<1>3. state.pending \in FrameType \union {Nothing}
  BY <1>1 DEF StateType
<1>4. recorded \subseteq FrameType /\ \A m \in wire : m.frame \in FrameType
  BY DEF TypeOK
<1> QED BY <1>2, <1>3, <1>4 DEF Known

\* The cursor order is total.
LEMMA OlderOrder ==
    ASSUME NEW f \in FrameType, NEW g \in FrameType, NEW h \in FrameType
    PROVE  /\ Older(f, g) /\ Older(g, h) => Older(f, h)
           /\ Older(f, g) => ~Older(g, f)
           /\ ~Older(f, g) /\ ~Older(g, h) => ~Older(f, h)
           /\ ~Older(f, g) /\ ~Older(g, f) => f.gen = g.gen /\ f.seq = g.seq
           /\ ~Older(f, f)
<1>1. f.gen \in Nat /\ f.seq \in Nat /\ g.gen \in Nat /\ g.seq \in Nat /\ h.gen \in Nat /\ h.seq \in Nat
  BY FrameFields
<1> QED BY <1>1 DEF Older

\* What the book and the wire hold are known frames.
LEMMA KnownParts ==
    /\ \A m \in wire : m.frame \in Known
    /\ recorded \subseteq Known /\ core.book.seen \subseteq Known
    /\ \A p \in Provider : core.book.cursor[p] # Nothing => core.book.cursor[p] \in Known
    /\ state.pending # Nothing => state.pending \in Known
BY DEF Known

\* A frame that stands where the pending one may is the pending one.
LEMMA PendingIsLast ==
    ASSUME TypeOK, Numbered, state.pending # Nothing, NEW f \in Known,
           f.provider = state.pending.provider, ~Older(f, state.pending)
    PROVE  f = state.pending
<1>1. f \in FrameType /\ state.pending \in FrameType /\ state.pending \in Known
  BY KnownTyped, KnownParts
<1>2. ~Older(state.pending, f)
  BY DEF Numbered
<1>3. f.gen = state.pending.gen /\ f.seq = state.pending.seq
  BY <1>1, <1>2, OlderOrder
<1> QED BY <1>1, <1>3 DEF Numbered

-----------------------------------------------------------------------------
(* What is kept of the past *)

\* The durable cursor does not go back.
Forward ==
    \A p \in Provider : \/ state.gen[p] < state'.gen[p]
                        \/ state.gen[p] = state'.gen[p] /\ state.seq[p] <= state'.seq[p]

LEMMA NumbersStay ==
    ASSUME BridgeInv, Numbered, Forward, Known' \subseteq Known, TypeOK',
           state'.pending \in {state.pending, Nothing}
    PROVE  Numbered'
<1>1. /\ \A p \in Provider : state.gen[p] \in Nat /\ state.seq[p] \in Nat
      /\ \A p \in Provider : state'.gen[p] \in Nat /\ state'.seq[p] \in Nat
  BY DEF BridgeInv, TypeOK, StateType
<1>2. ASSUME NEW f \in Known'
      PROVE  \/ f.gen < state'.gen[f.provider]
             \/ f.gen = state'.gen[f.provider] /\ f.seq <= state'.seq[f.provider]
  <2>1. f \in FrameType /\ f \in Known
    BY KnownTyped DEF BridgeInv
  <2>2. f.provider \in Provider /\ f.gen \in Nat /\ f.seq \in Nat
    BY <2>1, FrameFields
  <2>3. \/ f.gen < state.gen[f.provider]
        \/ f.gen = state.gen[f.provider] /\ f.seq <= state.seq[f.provider]
    BY <2>1 DEF Numbered
  <2> DEFINE p == f.provider
  <2>4. \/ state.gen[p] < state'.gen[p]
        \/ state.gen[p] = state'.gen[p] /\ state.seq[p] <= state'.seq[p]
    BY <2>2 DEF Forward
  <2>5. /\ state.gen[p] \in Nat /\ state.seq[p] \in Nat
        /\ state'.gen[p] \in Nat /\ state'.seq[p] \in Nat
    BY <1>1, <2>2
  <2> QED BY <2>2, <2>3, <2>4, <2>5
<1>3. \A f, g \in Known' : f.provider = g.provider /\ f.gen = g.gen /\ f.seq = g.seq => f = g
  BY DEF Numbered
<1>4. state'.pending # Nothing =>
        \A f \in Known' : f.provider = state'.pending.provider => ~Older(state'.pending, f)
  BY DEF Numbered
<1> QED BY <1>2, <1>3, <1>4 DEF Numbered, Older

\* Fewer frames on their way to the same book.
LEMMA CursorsStay ==
    ASSUME Cursors, core'.book = core.book, core'.up \/ ~core.up, UNCHANGED recorded,
           \A m \in wire' : \E n \in wire : n.frame = m.frame
    PROVE  Cursors'
<1>1. \A p \in Provider : core'.book.cursor[p] # Nothing => core'.book.cursor[p].provider = p
  BY DEF Cursors
<1>2. \A f \in core'.book.seen :
        core'.book.cursor[f.provider] # Nothing /\ ~Older(core'.book.cursor[f.provider], f)
  BY DEF Cursors
<1>3. ASSUME NEW f \in recorded'
      PROVE  IF core'.book.cursor[f.provider] # Nothing
             THEN ~Older(core'.book.cursor[f.provider], f)
             ELSE \A m \in wire' : m.frame.provider = f.provider => ~Older(m.frame, f)
  BY DEF Cursors
<1>4. ~core'.up => core'.book = EmptyBook(Nothing)
  BY DEF Cursors
<1> QED BY <1>1, <1>2, <1>3, <1>4 DEF Cursors, Older, EmptyBook

LEMMA KnownShrinks ==
    ASSUME core'.book = core.book, UNCHANGED recorded,
           \A m \in wire' : \E n \in wire : n.frame = m.frame,
           state'.pending \in {state.pending, Nothing}
    PROVE  Known' \subseteq Known
<1>1. {m.frame : m \in wire'} \subseteq {m.frame : m \in wire}
  OBVIOUS
<1>2. {state'.pending} \ {Nothing} \subseteq {state.pending} \ {Nothing}
  OBVIOUS
<1> QED BY <1>1, <1>2 DEF Known

\* Steps of the bridge that send and compose nothing.
LEMMA PastStays ==
    ASSUME MirrorInv, BridgeInv', Forward, core'.book = core.book, core'.up \/ ~core.up,
           UNCHANGED recorded, \A m \in wire' : \E n \in wire : n.frame = m.frame,
           state'.pending \in {state.pending, Nothing}
    PROVE  Numbered' /\ Cursors'
<1>1. Known' \subseteq Known
  BY KnownShrinks
<1>2. Numbered'
  BY <1>1, NumbersStay DEF MirrorInv, BridgeInv
<1>3. Cursors'
  BY CursorsStay DEF MirrorInv
<1> QED BY <1>2, <1>3

LEMMA SameForward ==
    ASSUME BridgeInv, state'.gen = state.gen, state'.seq = state.seq
    PROVE  Forward
<1>1. \A p \in Provider : state.seq[p] \in Nat
  BY DEF BridgeInv, TypeOK, StateType
<1> QED BY <1>1 DEF Forward

\* The bridge gives its connection up or has none.
LEMMA NotConnected ==
    ASSUME MirrorInv, BridgeInv', Forward, UNCHANGED <<core, recorded, acked>>,
           \A m \in wire' : m.late /\ \E n \in wire : n.frame = m.frame,
           reply' = Nothing, state'.pending = state.pending, state'.fenced \subseteq state.fenced,
           bridge'.conn = "none", bridge'.resync, bridge'.pc \in {"tick", "down"},
           bridge'.phase # "ready"
    PROVE  MirrorInv'
<1>1. Numbered' /\ Cursors'
  BY PastStays DEF MirrorInv, Cursors
<1>2. NeverStale'
  BY NothingAssumption DEF NeverStale, Answers
<1>3. Connection'
  BY NothingAssumption DEF Connection, Looping, Answers
<1>4. NewFrame' /\ Synchronising' /\ Synchronised' /\ ReadyIsIdle'
  BY DEF NewFrame, Synchronising, Synchronised, ReadyIsIdle, Looping
<1>5. Composed'
  BY DEF Composed, MirrorInv
<1>6. Fencing'
  BY DEF Fencing, MirrorInv, Looping
<1> QED BY <1>1, <1>2, <1>3, <1>4, <1>5, <1>6 DEF MirrorInv

\* While the bridge rests, only late frames are on the wire and no answer waits.
LEMMA Resting ==
    ASSUME MirrorInv, bridge.pc # "await"
    PROVE  reply = Nothing /\ \A m \in wire : m.late
<1>1. wire \subseteq [late : BOOLEAN, frame : FrameType]
  BY DEF MirrorInv, BridgeInv, TypeOK
<1> QED BY <1>1 DEF MirrorInv, Connection

LEMMA AbandonedLate ==
    /\ \A m \in Abandoned : \E n \in wire : n.frame = m.frame
    /\ TypeOK => \A m \in Abandoned : m.late
<1>1. ASSUME NEW m \in Abandoned, TypeOK PROVE m.late
  <2>1. PICK n \in wire : m = [n EXCEPT !.late = TRUE]
    BY DEF Abandoned
  <2>2. n \in [late : BOOLEAN, frame : FrameType]
    BY <1>1 DEF TypeOK
  <2> QED BY <2>1, <2>2
<1>2. ASSUME NEW m \in Abandoned PROVE \E n \in wire : n.frame = m.frame
  <2>1. PICK n \in wire : m = [n EXCEPT !.late = TRUE]
    BY DEF Abandoned
  <2>2. m.frame = n.frame
    BY <2>1
  <2> QED BY <2>2
<1> QED BY <1>1, <1>2

LEMMA RestFields ==
    ASSUME NEW b \in BridgeType
    PROVE  /\ Disconnected(b).conn = "none" /\ Disconnected(b).resync
           /\ Disconnected(b).phase = "degraded" /\ Disconnected(b).pc = "tick"
           /\ Halted.conn = "none" /\ Halted.resync /\ Halted.phase = "halted" /\ Halted.pc = "down"
<1>1. /\ Disconnected(b).conn = "none" /\ Disconnected(b).resync
      /\ Disconnected(b).phase = "degraded" /\ Disconnected(b).pc = "tick"
  BY DEF Disconnected, BridgeType
<1>2. Halted.conn = "none" /\ Halted.resync /\ Halted.phase = "halted" /\ Halted.pc = "down"
  BY DEF Halted, Stopped
<1> QED BY <1>1, <1>2

LEMMA BootMirrors == MirrorInv /\ Boot => MirrorInv'
<1> SUFFICES ASSUME MirrorInv, Boot PROVE MirrorInv'
  OBVIOUS
<1>1. BridgeInv'
  BY BootKeeps DEF MirrorInv
<1>2. bridge.pc = "down" /\ UNCHANGED <<core, recorded, wire, reply, acked>>
      /\ state' = BeginBoot(state) /\ state \in StateType
  BY DEF Boot, MirrorInv, BridgeInv, TypeOK
<1>3. /\ state'.pending = state.pending /\ state'.fenced = {}
      /\ state'.gen = [p \in Provider |-> state.gen[p] + 1]
  BY <1>2 DEF BeginBoot, StateType
<1>4. Forward
  <2>1. \A p \in Provider : state.gen[p] \in Nat
    BY <1>2 DEF StateType
  <2> QED BY <1>3, <2>1 DEF Forward
<1>5. bridge'.conn = "none" /\ bridge'.resync /\ bridge'.pc = "tick" /\ bridge'.phase = "boot"
  BY DEF Boot, Stopped
<1>6. reply' = Nothing /\ \A m \in wire' : m.late /\ \E n \in wire : n.frame = m.frame
  BY <1>2, Resting
<1> QED BY <1>1, <1>2, <1>3, <1>4, <1>5, <1>6, NotConnected

\* The bridge drops the connection, or stops, with its state as it was.
LEMMA DropMirrors ==
    ASSUME MirrorInv, BridgeInv', bridge' = Disconnected(bridge) \/ bridge' = Halted,
           UNCHANGED <<core, recorded, acked>>, reply' = Nothing,
           wire' = Abandoned \/ (wire' = wire /\ \A m \in wire : m.late),
           state'.gen = state.gen, state'.seq = state.seq,
           state'.pending = state.pending, state'.fenced = state.fenced
    PROVE  MirrorInv'
<1>1. bridge \in BridgeType
  BY DEF MirrorInv, BridgeInv, TypeOK
<1>2. /\ bridge'.conn = "none" /\ bridge'.resync /\ bridge'.pc \in {"tick", "down"}
      /\ bridge'.phase # "ready"
  BY <1>1, RestFields
<1>3. \A m \in wire' : m.late /\ \E n \in wire : n.frame = m.frame
  BY AbandonedLate DEF MirrorInv, BridgeInv
<1>4. Forward
  BY SameForward DEF MirrorInv
<1> QED BY <1>2, <1>3, <1>4, NotConnected

LEMMA DropsMirror ==
    MirrorInv /\ (Crash \/ LaneFailure \/ SendFails \/ AnswerLost \/ NotAccepted) => MirrorInv'
<1> SUFFICES ASSUME MirrorInv, Crash \/ LaneFailure \/ SendFails \/ AnswerLost \/ NotAccepted
             PROVE  MirrorInv'
  OBVIOUS
<1>1. BridgeInv'
  BY CrashKeeps, LaneFailureKeeps, SendFailsKeeps, AnswerLostKeeps, NotAcceptedKeeps DEF MirrorInv
<1>2. CASE Crash
  BY <1>1, <1>2, DropMirrors DEF Crash
<1>3. CASE LaneFailure
  <2>1. reply = Nothing /\ \A m \in wire : m.late
    BY <1>3, Resting DEF LaneFailure
  <2> QED BY <1>1, <1>3, <2>1, DropMirrors DEF LaneFailure
<1>4. CASE SendFails
  <2>1. reply = Nothing /\ \A m \in wire : m.late
    BY <1>4, Resting DEF SendFails
  <2> QED BY <1>1, <1>4, <2>1, DropMirrors DEF SendFails
<1>5. CASE AnswerLost
  BY <1>1, <1>5, DropMirrors DEF AnswerLost
<1>6. CASE NotAccepted
  <2>1. state.rejected + 1 \in Nat /\ state \in StateType
    BY DEF MirrorInv, BridgeInv, TypeOK, StateType
  <2>2. /\ state'.gen = state.gen /\ state'.seq = state.seq
        /\ state'.pending = state.pending /\ state'.fenced = state.fenced
    BY <1>6, <2>1 DEF NotAccepted, StateType
  <2>3. \A m \in wire : m.late
    <3>1. reply # Nothing
      BY <1>6, NothingAssumption DEF NotAccepted, Answers
    <3>2. wire \subseteq [late : BOOLEAN, frame : FrameType]
      BY DEF MirrorInv, BridgeInv, TypeOK
    <3> QED BY <3>1, <3>2 DEF MirrorInv, Connection
  <2>4. bridge' = Disconnected(bridge) \/ bridge' = Halted
    BY <1>6 DEF NotAccepted
  <2> QED BY <1>1, <1>6, <2>2, <2>3, <2>4, DropMirrors DEF NotAccepted
<1> QED BY <1>2, <1>3, <1>4, <1>5, <1>6

LEMMA ConnectFailsMirrors == MirrorInv /\ ConnectFails => MirrorInv'
<1> SUFFICES ASSUME MirrorInv, ConnectFails PROVE MirrorInv'
  OBVIOUS
<1>1. BridgeInv'
  BY ConnectFailsKeeps DEF MirrorInv
<1>2. bridge \in BridgeType /\ bridge.pc = "tick" /\ bridge.conn = "none" /\ bridge.resync
  BY DEF MirrorInv, BridgeInv, TypeOK, ConnectFails, Connection
<1>3. bridge'.conn = "none" /\ bridge'.resync /\ bridge'.pc = "tick" /\ bridge'.phase = "degraded"
  BY <1>2 DEF ConnectFails, BridgeType
<1>4. UNCHANGED <<core, recorded, acked, wire, reply, state>>
  BY DEF ConnectFails
<1>5. Forward
  BY <1>4, SameForward DEF MirrorInv
<1>6. reply' = Nothing /\ \A m \in wire' : m.late /\ \E n \in wire : n.frame = m.frame
  BY <1>2, <1>4, Resting
<1> QED BY <1>1, <1>3, <1>4, <1>5, <1>6, NotConnected

\* Between two frames the wire carries nothing of this connection.
LEMMA QuietConnection ==
    ASSUME MirrorInv, BridgeInv', UNCHANGED <<core, recorded, wire, reply>>, bridge.pc # "await",
           bridge'.pc # "await", bridge'.conn # "none", bridge'.conn # "broken" \/ bridge.conn = "broken",
           bridge'.pc # "down", state'.pending = state.pending,
           (bridge'.pc = "tick" \/ (bridge'.pc = "send" /\ bridge'.after = "tick"))
             /\ state.pending # Nothing => bridge'.resync
    PROVE  NeverStale' /\ Connection'
<1>1. reply' = Nothing /\ \A m \in wire' : m.late
  BY Resting
<1>2. NeverStale'
  BY <1>1 DEF NeverStale, MirrorInv
<1>3. bridge'.conn = "broken" => wire' = {} /\ core'.book = EmptyBook(Nothing)
  BY DEF MirrorInv, Connection
<1>4. Nothing \notin AcceptedAcks
  BY NothingAssumption DEF Answers
<1> QED BY <1>1, <1>2, <1>3, <1>4 DEF Connection, Looping, EmptyBook

LEMMA ConnectMirrors == MirrorInv /\ Connect => MirrorInv'
<1> SUFFICES ASSUME MirrorInv, Connect PROVE MirrorInv'
  OBVIOUS
<1>1. BridgeInv'
  BY ConnectKeeps DEF MirrorInv
<1>2. bridge \in BridgeType /\ state \in StateType /\ bridge.pc = "tick"
  BY DEF MirrorInv, BridgeInv, TypeOK, Connect
<1>3. bridge'.conn = "open" /\ bridge'.resync /\ bridge'.pc = "tick"
      /\ bridge'.phase = "socket_sync_fence"
  BY <1>2 DEF Connect, BridgeType
<1>4. /\ state'.gen = state.gen /\ state'.seq = state.seq /\ state'.pending = state.pending
      /\ state'.fenced = {}
  BY <1>2 DEF Connect, ResetProgress, StateType
<1>5. UNCHANGED <<core, recorded, wire, reply>> /\ acked' = {}
  BY DEF Connect
<1>6. Forward
  BY <1>4, SameForward DEF MirrorInv
<1>7. Numbered' /\ Cursors'
  BY <1>1, <1>4, <1>5, <1>6, PastStays DEF MirrorInv
<1>8. NeverStale' /\ Connection'
  BY <1>1, <1>2, <1>3, <1>4, <1>5, QuietConnection
<1>9. NewFrame' /\ Synchronising' /\ Synchronised' /\ ReadyIsIdle'
  BY <1>3 DEF NewFrame, Synchronising, Synchronised, ReadyIsIdle, Looping
<1>10. Composed'
  BY <1>3, <1>4 DEF Composed, MirrorInv
<1>11. Fencing'
  BY <1>3, <1>4, <1>5 DEF Fencing, Looping
<1> QED BY <1>1, <1>7, <1>8, <1>9, <1>10, <1>11 DEF MirrorInv

\* What the book shows depends on the book, the wire and the acknowledged hashes.
LEMMA ShownStays ==
    ASSUME NEW p, core'.book = core.book, \A m \in wire' : \E n \in wire : n.frame = m.frame,
           state'.hash[p] = state.hash[p]
    PROVE  Shown(p) => Shown(p)'
BY DEF Shown, Older

LEMMA DarkStays ==
    ASSUME NEW p, core'.book = core.book, \A m \in wire' : \E n \in wire : n.frame = m.frame
    PROVE  Dark(p) => Dark(p)'
BY DEF Dark, Older, Live

-----------------------------------------------------------------------------
(* The steps of a tick *)

LEMMA RetryMirrors == MirrorInv /\ RetryPending => MirrorInv'
<1> SUFFICES ASSUME MirrorInv, RetryPending PROVE MirrorInv'
  OBVIOUS
<1>1. BridgeInv'
  BY RetryPendingKeeps DEF MirrorInv
<1>2. bridge \in BridgeType /\ bridge.pc = "tick" /\ bridge.conn # "none" /\ state.pending # Nothing
  BY DEF MirrorInv, BridgeInv, TypeOK, RetryPending
<1>3. /\ bridge'.conn = bridge.conn /\ bridge'.resync = bridge.resync /\ bridge'.pc = "send"
      /\ bridge'.phase = bridge.phase /\ bridge'.after = "tick"
  BY <1>2 DEF RetryPending, BridgeType
<1>4. UNCHANGED <<state, core, recorded, wire, reply, acked>>
  BY DEF RetryPending
<1>5. bridge.resync /\ state.fenced = {}
  BY <1>2 DEF MirrorInv, Connection, Looping, Fencing
<1>6. Forward
  BY <1>4, SameForward DEF MirrorInv
<1>7. Numbered' /\ Cursors'
  BY <1>1, <1>4, <1>6, PastStays DEF MirrorInv, Cursors
<1>8. NeverStale' /\ Connection'
  BY <1>1, <1>2, <1>3, <1>4, <1>5, QuietConnection
<1>9. NewFrame' /\ Synchronising' /\ Synchronised'
  BY <1>3, <1>5 DEF NewFrame, Synchronising, Synchronised, Looping
<1>10. ReadyIsIdle'
  BY <1>3, <1>5 DEF ReadyIsIdle, MirrorInv
<1>11. Composed'
  BY <1>3, <1>4 DEF Composed, MirrorInv
<1>12. Fencing'
  BY <1>3, <1>4, <1>5 DEF Fencing, Looping
<1> QED BY <1>1, <1>7, <1>8, <1>9, <1>10, <1>11, <1>12 DEF MirrorInv

\* The start of the fence loop.
LEMMA FailureMirrors ==
    ASSUME MirrorInv, BridgeInv', bridge.pc = "tick", bridge.conn # "none", state.pending = Nothing,
           source \in Reason, state' = BeginSourceFailure(state, source),
           bridge' = [bridge EXCEPT !.pc = "fence", !.reading = source, !.todo = Order,
                                    !.phase = "degraded"],
           UNCHANGED <<core, recorded, wire, reply, acked>>
    PROVE  MirrorInv'
<1>1. bridge \in BridgeType /\ state \in StateType
  BY DEF MirrorInv, BridgeInv, TypeOK
<1>2. /\ bridge'.conn = bridge.conn /\ bridge'.resync = bridge.resync /\ bridge'.pc = "fence"
      /\ bridge'.phase = "degraded" /\ bridge'.todo = Order
  BY <1>1 DEF BridgeType
<1>3. /\ state'.gen = state.gen /\ state'.seq = state.seq /\ state'.pending = Nothing
      /\ state'.fenced \subseteq state.fenced /\ state'.failure = source /\ state'.hash = state.hash
  BY <1>1 DEF BeginSourceFailure, StateType
<1>4. source # Nothing
  BY BridgeAssumption
<1>5. Forward
  BY <1>3, SameForward DEF MirrorInv
<1>6. Numbered' /\ Cursors'
  BY <1>3, <1>5, PastStays DEF MirrorInv, Cursors
<1>7. NeverStale' /\ Connection'
  BY <1>2, <1>3, QuietConnection
<1>8. NewFrame' /\ Synchronising' /\ ReadyIsIdle' /\ Composed'
  BY <1>2, <1>3 DEF NewFrame, Synchronising, ReadyIsIdle, Looping, Composed
<1>9. Synchronised'
  BY <1>2, <1>3, <1>4 DEF Synchronised, MirrorInv
<1>10. Fencing'
  <2>1. Left' = Provider
    BY <1>2 DEF Left, Order
  <2>2. Settled' = {}
    BY <2>1 DEF Settled
  <2>3. \A p \in state.fenced : Dark(p)
    BY DEF MirrorInv, Fencing, Looping
  <2>4. \A p \in state'.fenced : Dark(p)'
    BY <1>3, <2>3, DarkStays
  <2>5. state'.fenced \subseteq acked'
    BY <1>3 DEF MirrorInv, Fencing
  <2> QED BY <1>2, <1>3, <2>2, <2>4, <2>5 DEF Fencing, Looping
<1> QED BY <1>6, <1>7, <1>8, <1>9, <1>10 DEF MirrorInv

\* A tick that finds nothing to do, or turns to a document.
LEMMA LookMirrors ==
    ASSUME MirrorInv, BridgeInv', bridge.pc = "tick", bridge.conn # "none", state.pending = Nothing,
           bridge'.conn = bridge.conn, bridge'.resync = bridge.resync,
           bridge'.health = bridge.health,
           bridge'.pc \in {"tick", "health"},
           bridge'.phase = bridge.phase
             \/ (bridge'.phase = "ready" /\ ~bridge.resync /\ state.failure = Nothing),
           UNCHANGED <<state, core, recorded, wire, reply, acked>>
    PROVE  MirrorInv'
<1>1. Forward
  BY SameForward DEF MirrorInv
<1>2. Numbered' /\ Cursors'
  BY <1>1, PastStays DEF MirrorInv, Cursors
<1>3. NeverStale' /\ Connection'
  BY QuietConnection
<1>4. NewFrame' /\ Synchronising' /\ Composed'
  BY DEF NewFrame, Synchronising, Looping, Composed
<1>5. ReadyIsIdle'
  BY DEF ReadyIsIdle, MirrorInv
<1>6. Synchronised'
  <2> SUFFICES ASSUME ~bridge.resync
               PROVE  /\ acked = Provider
                      /\ state.failure = Nothing /\ SamePeer => \A p \in Provider : Shown(p)'
                      /\ state.failure = Nothing =>
                           \A p \in Provider : state.hash[p] = Mapped(p, state.doneSource, bridge.health)
    BY DEF Synchronised, SamePeer, Mapped
  <2>1. /\ acked = Provider
        /\ state.failure = Nothing /\ SamePeer => \A p \in Provider : Shown(p)
        /\ state.failure = Nothing =>
             \A p \in Provider : state.hash[p] = Mapped(p, state.doneSource, bridge.health)
    BY DEF MirrorInv, Synchronised, InFlight
  <2> QED BY <2>1, ShownStays
<1>7. Fencing'
  <2>1. bridge'.pc = "tick" => \A p \in state'.fenced : Dark(p)'
    BY DarkStays DEF MirrorInv, Fencing, Looping
  <2> QED BY <2>1 DEF MirrorInv, Fencing, Looping
<1> QED BY <1>2, <1>3, <1>4, <1>5, <1>6, <1>7 DEF MirrorInv

LEMMA ReadSourceMirrors == MirrorInv /\ ReadSource => MirrorInv'
<1> SUFFICES ASSUME MirrorInv, ReadSource PROVE MirrorInv'
  OBVIOUS
<1>1. BridgeInv'
  BY ReadSourceKeeps DEF MirrorInv
<1>2. /\ bridge \in BridgeType /\ bridge.pc = "tick" /\ bridge.conn # "none"
      /\ state.pending = Nothing /\ UNCHANGED <<core, recorded, wire, reply, acked>>
  BY DEF MirrorInv, BridgeInv, TypeOK, ReadSource
<1>3. CASE source \in Reason /\ state' = BeginSourceFailure(state, source)
           /\ bridge' = [bridge EXCEPT !.pc = "fence", !.reading = source, !.todo = Order,
                                       !.phase = "degraded"]
  BY <1>1, <1>2, <1>3, FailureMirrors
<1>4. CASE UpToDate(source) /\ UNCHANGED state /\ bridge' = [bridge EXCEPT !.phase = "ready"]
  <2>1. /\ bridge'.conn = bridge.conn /\ bridge'.resync = bridge.resync
        /\ bridge'.health = bridge.health /\ bridge'.pc = "tick" /\ bridge'.phase = "ready"
    BY <1>2, <1>4 DEF BridgeType
  <2> QED BY <1>1, <1>2, <1>4, <2>1, LookMirrors DEF UpToDate
<1>5. CASE UNCHANGED state /\ bridge' = Halted
  <2>1. reply = Nothing /\ \A m \in wire : m.late
    BY <1>2, Resting
  <2> QED BY <1>1, <1>2, <1>5, <2>1, DropMirrors
<1>6. CASE UNCHANGED state /\ bridge' = [bridge EXCEPT !.pc = "health", !.reading = source]
  <2>1. /\ bridge'.conn = bridge.conn /\ bridge'.resync = bridge.resync
        /\ bridge'.health = bridge.health /\ bridge'.pc = "health" /\ bridge'.phase = bridge.phase
    BY <1>2, <1>6 DEF BridgeType
  <2> QED BY <1>1, <1>2, <1>6, <2>1, LookMirrors
<1> QED BY <1>3, <1>4, <1>5, <1>6 DEF ReadSource

LEMMA ReadHealthMirrors == MirrorInv /\ ReadHealth => MirrorInv'
<1> SUFFICES ASSUME MirrorInv, ReadHealth PROVE MirrorInv'
  OBVIOUS
<1>1. BridgeInv'
  BY ReadHealthKeeps DEF MirrorInv
<1>2. bridge \in BridgeType /\ bridge.pc = "health" /\ state.pending = Nothing
  BY DEF MirrorInv, BridgeInv, TypeOK, LoopOK, ReadHealth
<1> DEFINE ph == IF bridge.resync THEN "socket_sync_fence" ELSE "snapshot_sync"
<1>3. ph # "ready"
  OBVIOUS
<1>4. bridge' = [bridge EXCEPT !.pc = "sync", !.health = health, !.todo = Order, !.phase = ph]
  BY DEF ReadHealth
<1> HIDE DEF ph
<1>5. /\ bridge'.conn = bridge.conn /\ bridge'.resync = bridge.resync /\ bridge'.pc = "sync"
      /\ bridge'.phase # "ready" /\ bridge'.todo = Order
  BY <1>2, <1>3, <1>4 DEF BridgeType
<1>6. UNCHANGED <<state, core, recorded, wire, reply, acked>> /\ bridge.conn # "none"
  BY <1>2 DEF ReadHealth, MirrorInv, Connection
<1>7. Forward
  BY <1>6, SameForward DEF MirrorInv
<1>8. Numbered' /\ Cursors'
  BY <1>1, <1>6, <1>7, PastStays DEF MirrorInv, Cursors
<1>9. NeverStale' /\ Connection'
  BY <1>1, <1>2, <1>5, <1>6, QuietConnection
<1>10. NewFrame' /\ Composed' /\ ReadyIsIdle'
  BY <1>2, <1>5, <1>6 DEF NewFrame, Composed, ReadyIsIdle
<1>11. Synchronising'
  <2>1. Left' = Provider
    BY <1>5 DEF Left, Order
  <2> QED BY <2>1 DEF Synchronising, Settled
<1>12. Synchronised'
  <2>1. ~bridge.resync =>
          /\ acked = Provider
          /\ state.failure = Nothing /\ SamePeer => \A p \in Provider : Shown(p)
    BY <1>2 DEF MirrorInv, Synchronised, InFlight
  <2>2. \A p \in Provider : Shown(p) => Shown(p)'
    BY <1>6, ShownStays
  <2> QED BY <1>5, <1>6, <2>1, <2>2 DEF Synchronised, SamePeer
<1>13. Fencing'
  BY <1>5, <1>6 DEF MirrorInv, Fencing, Looping
<1> QED BY <1>1, <1>8, <1>9, <1>10, <1>11, <1>12, <1>13 DEF MirrorInv

-----------------------------------------------------------------------------
(* The steps of the two loops *)

LEMMA NextLeft ==
    ASSUME BridgeInv, bridge.todo # <<>>, bridge'.todo = Tail(bridge.todo)
    PROVE  Left = Left' \union {Head(bridge.todo)} /\ Head(bridge.todo) \in Provider
<1>1. bridge.todo = <<"ibkr">> \/ bridge.todo = Order
  BY DEF BridgeInv, TypeOK, BridgeType
<1>2. CASE bridge.todo = <<"ibkr">>
  <2>1. Head(bridge.todo) = "ibkr" /\ bridge'.todo = <<>>
    BY <1>2
  <2>2. Left = {"ibkr"} /\ Left' = {}
    BY <1>2, <2>1 DEF Left
  <2> QED BY <2>1, <2>2 DEF Provider
<1>3. CASE bridge.todo = Order
  <2>1. Head(bridge.todo) = "schwab" /\ bridge'.todo = <<"ibkr">>
    BY <1>3 DEF Order
  <2>2. bridge.todo # <<>> /\ bridge.todo # <<"ibkr">> /\ <<"ibkr">> # <<>>
    BY <1>3 DEF Order
  <2>3. Left = Provider /\ Left' = {"ibkr"}
    BY <2>1, <2>2 DEF Left
  <2> QED BY <2>1, <2>3 DEF Provider
<1> QED BY <1>1, <1>2, <1>3

\* A provider that needs no frame has been settled on this connection.
LEMMA SkipMirrors ==
    ASSUME MirrorInv, BridgeInv', bridge.pc \in {"sync", "fence"}, bridge.todo # <<>>,
           bridge' = [bridge EXCEPT !.todo = Tail(bridge.todo)],
           UNCHANGED <<state, core, recorded, wire, reply, acked>>,
           bridge.pc = "sync" =>
             LET p == Head(bridge.todo) IN
             ~bridge.resync /\ state.failure = Nothing
             /\ state.hash[p] = Mapped(p, bridge.reading, bridge.health),
           bridge.pc = "fence" => Head(bridge.todo) \in state.fenced
    PROVE  MirrorInv'
<1> DEFINE p == Head(bridge.todo)
<1>1. bridge \in BridgeType /\ state.pending = Nothing
  BY DEF MirrorInv, BridgeInv, TypeOK, LoopOK
<1>2. /\ bridge'.conn = bridge.conn /\ bridge'.resync = bridge.resync /\ bridge'.pc = bridge.pc
      /\ bridge'.phase = bridge.phase /\ bridge'.todo = Tail(bridge.todo)
      /\ bridge'.reading = bridge.reading /\ bridge'.health = bridge.health
  BY <1>1 DEF BridgeType
<1>3. Left = Left' \union {p} /\ p \in Provider
  BY <1>2, NextLeft DEF MirrorInv
<1>4. Settled' \subseteq Settled \union {p} /\ InFlight = {} /\ InFlight' = {}
  BY <1>2, <1>3 DEF Settled, InFlight
<1>5. bridge.conn # "none"
  BY DEF MirrorInv, Connection
<1>6. Forward
  BY SameForward DEF MirrorInv
<1>7. Numbered' /\ Cursors'
  BY <1>6, PastStays DEF MirrorInv, Cursors
<1>8. NeverStale' /\ Connection'
  BY <1>1, <1>2, <1>5, QuietConnection
<1>9. NewFrame' /\ Composed' /\ ReadyIsIdle'
  BY <1>1, <1>2 DEF NewFrame, Composed, ReadyIsIdle, MirrorInv
<1> HIDE DEF p
<1>10. \A q \in Provider : Shown(q) => Shown(q)'
  BY ShownStays
<1>11. \A q \in Provider : Dark(q) => Dark(q)'
  BY DarkStays
<1>12. ~bridge.resync =>
         /\ acked = Provider
         /\ state.failure = Nothing /\ SamePeer => \A q \in Provider : Shown(q)
  BY <1>4 DEF MirrorInv, Synchronised
<1>13. Synchronised'
  BY <1>2, <1>4, <1>10, <1>12 DEF Synchronised, SamePeer
<1>14. Synchronising'
  <2> SUFFICES ASSUME bridge.pc = "sync", NEW q \in Settled'
               PROVE  /\ q \in acked /\ state.hash[q] = Mapped(q, bridge.reading, bridge.health)
                      /\ SamePeer => Shown(q)'
    BY <1>2 DEF Synchronising, Looping, SamePeer, Mapped
  <2>1. q \in Provider
    BY DEF Settled
  <2>2. CASE q \in Settled
    <3>1. /\ q \in acked /\ state.hash[q] = Mapped(q, bridge.reading, bridge.health)
          /\ SamePeer => Shown(q)
      BY <2>2 DEF MirrorInv, Synchronising, Looping
    <3> QED BY <1>10, <2>1, <3>1
  <2>3. CASE q = p
    BY <1>10, <1>12, <2>1, <2>3 DEF p
  <2> QED BY <1>4, <2>2, <2>3
<1>15. Fencing'
  <2>1. bridge.pc = "fence" => Settled' \subseteq state.fenced
    BY <1>4 DEF MirrorInv, Fencing, Looping, p
  <2>2. bridge.pc = "fence" => \A q \in state.fenced : Dark(q)'
    <3>1. state.fenced \subseteq Provider
      BY DEF MirrorInv, BridgeInv, TypeOK, StateType
    <3> QED BY <1>5, <1>11, <3>1 DEF MirrorInv, Fencing, Looping
  <2> QED BY <1>2, <2>1, <2>2 DEF MirrorInv, Fencing, Looping
<1> QED BY <1>7, <1>8, <1>9, <1>13, <1>14, <1>15 DEF MirrorInv

\* The cursor of a new frame is ahead of every known one.
LEMMA NewCursor ==
    ASSUME TypeOK, Numbered, NEW p \in Provider, NEW epoch \in Epochs \union {Nothing},
           NEW fp, NEW content, NEW purpose
    PROVE  LET s == NextCursor(state, p, epoch)
               f == Frame(s, p, fp, content, purpose)
           IN  /\ \A q \in Provider : \/ state.gen[q] < s.gen[q]
                                      \/ state.gen[q] = s.gen[q] /\ state.seq[q] <= s.seq[q]
               /\ \A g \in Known : g.provider = p => Older(g, f)
               /\ f.provider = p /\ f.gen = s.gen[p] /\ f.seq = s.seq[p]
               /\ f.content = content /\ f.purpose = purpose
               /\ s.hash = state.hash
<1> DEFINE s == NextCursor(state, p, epoch)
           f == Frame(s, p, fp, content, purpose)
<1>1. state \in StateType
  BY DEF TypeOK
<1>2. \A q \in Provider : state.gen[q] \in Nat /\ state.seq[q] \in Nat
  BY <1>1 DEF StateType
<1>3. /\ s.hash = state.hash
      /\ \A q \in Provider : q # p => s.gen[q] = state.gen[q] /\ s.seq[q] = state.seq[q]
      /\ \/ s.gen[p] = state.gen[p] + 1
         \/ s.gen[p] = state.gen[p] /\ s.seq[p] = state.seq[p] + 1
  <2>1. CASE EpochChanged(state, p, epoch)
    BY <1>1, <2>1 DEF NextCursor, StateType
  <2>2. CASE ~EpochChanged(state, p, epoch)
    BY <1>1, <2>2 DEF NextCursor, StateType
  <2> QED BY <2>1, <2>2
<1> HIDE DEF s
<1>4. /\ f.provider = p /\ f.gen = s.gen[p] /\ f.seq = s.seq[p]
      /\ f.content = content /\ f.purpose = purpose
  BY DEF Frame
<1>5. ASSUME NEW q \in Provider
      PROVE  \/ state.gen[q] < s.gen[q]
             \/ state.gen[q] = s.gen[q] /\ state.seq[q] <= s.seq[q]
  <2>1. CASE q = p
    BY <1>2, <1>3, <2>1
  <2>2. CASE q # p
    BY <1>2, <1>3, <2>2
  <2> QED BY <2>1, <2>2
<1>6. ASSUME NEW g \in Known, g.provider = p PROVE Older(g, f)
  <2>1. g.gen \in Nat /\ g.seq \in Nat
    BY KnownTyped, FrameFields
  <2>2. g.gen < state.gen[p] \/ (g.gen = state.gen[p] /\ g.seq <= state.seq[p])
    BY <1>6 DEF Numbered
  <2>3. g.gen < s.gen[p] \/ (g.gen = s.gen[p] /\ g.seq < s.seq[p])
    BY <1>2, <1>3, <2>1, <2>2
  <2> QED BY <1>4, <2>3 DEF Older
<1> QED BY <1>3, <1>4, <1>5, <1>6 DEF s

\* A frame is composed: it is the last of its provider, and new to Core.
LEMMA ComposeMirrors ==
    ASSUME MirrorInv, BridgeInv', bridge.pc \in {"sync", "fence"}, bridge.todo # <<>>,
           NEW epoch \in Epochs \union {Nothing}, NEW content, NEW purpose,
           bridge.pc = "sync" => purpose = "snapshot"
             /\ content = Mapped(Head(bridge.todo), bridge.reading, bridge.health),
           bridge.pc = "fence" => purpose = "source_failure" /\ content = "unavailable",
           LET s == NextCursor(state, Head(bridge.todo), epoch) IN
           Compose(s, Frame(s, Head(bridge.todo), bridge.reading, content, purpose), bridge.pc),
           UNCHANGED <<core, recorded, wire, reply, acked>>
    PROVE  MirrorInv'
<1> DEFINE p == Head(bridge.todo)
           s == NextCursor(state, p, epoch)
           f == Frame(s, p, bridge.reading, content, purpose)
<1>1. bridge \in BridgeType /\ state.pending = Nothing /\ state \in StateType
  BY DEF MirrorInv, BridgeInv, TypeOK, LoopOK
<1>2. state' = SetPending(s, f)
      /\ bridge' = [bridge EXCEPT !.pc = "send", !.todo = Tail(bridge.todo), !.after = bridge.pc]
  BY DEF Compose
<1>3. /\ bridge'.conn = bridge.conn /\ bridge'.resync = bridge.resync /\ bridge'.pc = "send"
      /\ bridge'.phase = bridge.phase /\ bridge'.todo = Tail(bridge.todo)
      /\ bridge'.after = bridge.pc
      /\ bridge'.reading = bridge.reading /\ bridge'.health = bridge.health
  BY <1>1, <1>2 DEF BridgeType
<1>4. Left = Left' \union {p} /\ p \in Provider
  BY <1>3, NextLeft DEF MirrorInv
<1>5. /\ \A q \in Provider : \/ state.gen[q] < s.gen[q]
                             \/ state.gen[q] = s.gen[q] /\ state.seq[q] <= s.seq[q]
      /\ \A g \in Known : g.provider = p => Older(g, f)
      /\ f.provider = p /\ f.gen = s.gen[p] /\ f.seq = s.seq[p]
      /\ f.content = content /\ f.purpose = purpose
      /\ s.hash = state.hash
  BY <1>4, NewCursor DEF MirrorInv, BridgeInv
<1>6. s \in StateType /\ s.failure = state.failure /\ s.fenced = state.fenced
  BY <1>1, <1>4, NextCursorKeeps
<1> HIDE DEF s, f, p
<1>7. /\ state'.pending = f /\ state'.gen = s.gen /\ state'.seq = s.seq
      /\ state'.hash = state.hash /\ state'.failure = state.failure /\ state'.fenced = state.fenced
  BY <1>2, <1>5, <1>6 DEF SetPending, StateType
<1>8. f # Nothing /\ f \in FrameType
  BY <1>3, <1>7 DEF BridgeInv, TypeOK, StateType
<1>9. f \notin Known
  BY <1>5, <1>8, OlderOrder
<1>10. Known' = Known \union {f}
  BY <1>1, <1>7, <1>8 DEF Known
<1>11. Numbered'
  <2>1. Forward
    BY <1>5, <1>7 DEF Forward
  <2>2. /\ \A q \in Provider : state.gen[q] \in Nat /\ state.seq[q] \in Nat
        /\ \A q \in Provider : s.gen[q] \in Nat /\ s.seq[q] \in Nat
    BY <1>1, <1>6 DEF StateType
  <2>3. ASSUME NEW g \in Known
        PROVE  \/ g.gen < s.gen[g.provider]
               \/ g.gen = s.gen[g.provider] /\ g.seq <= s.seq[g.provider]
    <3>1. g.provider \in Provider /\ g.gen \in Nat /\ g.seq \in Nat
      BY KnownTyped, FrameFields DEF MirrorInv, BridgeInv
    <3>2. \/ g.gen < state.gen[g.provider]
          \/ g.gen = state.gen[g.provider] /\ g.seq <= state.seq[g.provider]
      BY DEF MirrorInv, Numbered
    <3> DEFINE q == g.provider
    <3>3. \/ state.gen[q] < s.gen[q]
          \/ state.gen[q] = s.gen[q] /\ state.seq[q] <= s.seq[q]
      BY <1>5, <3>1
    <3>4. state.gen[q] \in Nat /\ state.seq[q] \in Nat /\ s.gen[q] \in Nat /\ s.seq[q] \in Nat
      BY <2>2, <3>1
    <3> QED BY <3>1, <3>2, <3>3, <3>4
  <2>4. f.gen = s.gen[f.provider] /\ f.seq <= s.seq[f.provider]
    BY <1>4, <1>5, <2>2
  <2>5. ASSUME NEW g \in Known, g.provider = f.provider
        PROVE  Older(g, f) /\ ~Older(f, g) /\ ~(g.gen = f.gen /\ g.seq = f.seq)
    <3>1. Older(g, f)
      BY <1>5, <2>5
    <3>2. g \in FrameType
      BY KnownTyped DEF MirrorInv, BridgeInv
    <3>3. g.gen \in Nat /\ g.seq \in Nat /\ f.gen \in Nat /\ f.seq \in Nat
      BY <1>8, <3>2, FrameFields
    <3> QED BY <3>1, <3>3 DEF Older
  <2>6. \A g, h \in Known' : g.provider = h.provider /\ g.gen = h.gen /\ g.seq = h.seq => g = h
    BY <1>10, <2>5 DEF MirrorInv, Numbered
  <2>7. \A g \in Known' : g.provider = f.provider => ~Older(f, g)
    BY <1>8, <1>10, <2>5, OlderOrder
  <2> QED BY <1>7, <1>10, <2>3, <2>4, <2>6, <2>7 DEF Numbered, Older
<1>12. Cursors'
  BY CursorsStay DEF MirrorInv
<1>13. reply = Nothing /\ \A m \in wire : m.late
  BY Resting
<1>14. NeverStale' /\ Connection'
  <2>1. NeverStale'
    BY DEF NeverStale, MirrorInv
  <2>2. bridge.conn = "broken" => wire = {} /\ core.book = EmptyBook(Nothing)
    BY DEF MirrorInv, Connection
  <2>3. Nothing \notin AcceptedAcks /\ bridge.conn # "none"
    BY NothingAssumption DEF Answers, MirrorInv, Connection
  <2> QED BY <1>3, <1>13, <2>1, <2>2, <2>3 DEF Connection, Looping, EmptyBook
<1>15. NewFrame'
  BY <1>3, <1>7, <1>9, KnownParts DEF NewFrame
<1>16. Composed'
  BY <1>3, <1>5, <1>7 DEF Composed, Mapped, p
<1>17. ReadyIsIdle'
  BY <1>3 DEF ReadyIsIdle, MirrorInv
<1>18. Settled' = Settled /\ InFlight' = {p} /\ InFlight = {}
  BY <1>3, <1>4, <1>5, <1>7 DEF Settled, InFlight
<1>19. \A q \in Provider : Shown(q) => Shown(q)'
  BY <1>7, ShownStays
<1>20. \A q \in Provider : Dark(q) => Dark(q)'
  BY DarkStays
<1>21. Synchronising'
  <2> SUFFICES ASSUME bridge.pc = "sync", NEW q \in Settled
               PROVE  /\ q \in acked /\ state.hash[q] = Mapped(q, bridge.reading, bridge.health)
                      /\ SamePeer => Shown(q)'
    BY <1>3, <1>7, <1>18 DEF Synchronising, Looping, SamePeer, Mapped
  <2>1. q \in Provider
    BY DEF Settled
  <2>2. /\ q \in acked /\ state.hash[q] = Mapped(q, bridge.reading, bridge.health)
        /\ SamePeer => Shown(q)
    BY DEF MirrorInv, Synchronising, Looping
  <2> QED BY <1>19, <2>1, <2>2
<1>22. Synchronised'
  BY <1>3, <1>7, <1>18, <1>19 DEF Synchronised, SamePeer, MirrorInv
<1>23. Fencing'
  <2>1. bridge.pc = "fence" => \A q \in state.fenced : Dark(q)'
    <3>1. state.fenced \subseteq Provider
      BY <1>1 DEF StateType
    <3> QED BY <1>20, <3>1 DEF MirrorInv, Fencing, Looping, Connection
  <2> QED BY <1>3, <1>7, <1>18, <2>1 DEF MirrorInv, Fencing, Looping
<1> QED BY <1>11, <1>12, <1>14, <1>15, <1>16, <1>17, <1>21, <1>22, <1>23 DEF MirrorInv

LEMMA SyncMirrors == MirrorInv /\ SyncProvider => MirrorInv'
<1> SUFFICES ASSUME MirrorInv, SyncProvider PROVE MirrorInv'
  OBVIOUS
<1> DEFINE p == Head(bridge.todo)
           epoch == SourceEpoch(p, bridge.reading, bridge.health)
           content == Mapped(p, bridge.reading, bridge.health)
<1>1. BridgeInv'
  BY SyncProviderKeeps DEF MirrorInv
<1>2. /\ bridge.pc = "sync" /\ bridge.todo # <<>> /\ bridge.reading \in Document
      /\ bridge.todo \in Todos /\ bridge.health \in Health \union {Nothing}
  BY DEF SyncProvider, MirrorInv, BridgeInv, LoopOK, TypeOK, BridgeType, Todos
<1>3. epoch \in Epochs \union {Nothing}
  BY <1>2, TodoType, MappedType
<1>4. UNCHANGED <<core, recorded, wire, reply, acked>>
  BY DEF SyncProvider
<1>5. CASE Skippable(p, epoch, content) /\ bridge' = [bridge EXCEPT !.todo = Tail(bridge.todo)]
           /\ UNCHANGED state
  <2>1. ~bridge.resync /\ state.failure = Nothing /\ state.hash[p] = content
    BY <1>5 DEF Skippable
  <2> QED BY <1>1, <1>2, <1>4, <1>5, <2>1, SkipMirrors
<1>6. CASE LET s == NextCursor(state, p, epoch) IN
           Compose(s, Frame(s, p, bridge.reading, content, "snapshot"), "sync")
  <2> HIDE DEF epoch
  <2> QED BY <1>1, <1>2, <1>3, <1>4, <1>6, ComposeMirrors
<1> QED BY <1>5, <1>6 DEF SyncProvider

LEMMA FenceMirrors == MirrorInv /\ FenceProvider => MirrorInv'
<1> SUFFICES ASSUME MirrorInv, FenceProvider PROVE MirrorInv'
  OBVIOUS
<1> DEFINE p == Head(bridge.todo)
<1>1. BridgeInv'
  BY FenceProviderKeeps DEF MirrorInv
<1>2. bridge.pc = "fence" /\ bridge.todo # <<>> /\ UNCHANGED <<core, recorded, wire, reply, acked>>
  BY DEF FenceProvider
<1>3. CASE p \in state.fenced /\ bridge' = [bridge EXCEPT !.todo = Tail(bridge.todo)]
           /\ UNCHANGED state
  BY <1>1, <1>2, <1>3, SkipMirrors
<1>4. CASE LET s == NextCursor(state, p, Nothing) IN
           Compose(s, Frame(s, p, bridge.reading, "unavailable", "source_failure"), "fence")
  BY <1>1, <1>2, <1>4, ComposeMirrors
<1> QED BY <1>3, <1>4 DEF FenceProvider

LEMMA CompleteMirrors == MirrorInv /\ CompleteDocument => MirrorInv'
<1> SUFFICES ASSUME MirrorInv, CompleteDocument PROVE MirrorInv'
  OBVIOUS
<1>1. BridgeInv'
  BY CompleteDocumentKeeps DEF MirrorInv
<1>2. /\ bridge \in BridgeType /\ state \in StateType /\ bridge.pc = "sync" /\ bridge.todo = <<>>
      /\ state.pending = Nothing /\ bridge.conn # "none"
      /\ UNCHANGED <<core, recorded, wire, reply, acked>>
  BY DEF CompleteDocument, MirrorInv, BridgeInv, TypeOK, LoopOK, Connection
<1>3. /\ bridge'.conn = bridge.conn /\ ~bridge'.resync /\ bridge'.pc = "tick"
      /\ bridge'.phase = "ready" /\ bridge'.health = bridge.health
  BY <1>2 DEF CompleteDocument, BridgeType
<1>4. /\ state'.gen = state.gen /\ state'.seq = state.seq /\ state'.pending = Nothing
      /\ state'.hash = state.hash /\ state'.failure = Nothing /\ state'.fenced = {}
      /\ state'.doneSource = bridge.reading
  BY <1>2 DEF CompleteDocument, CompleteSource, StateType
<1>5. Settled = Provider
  BY <1>2 DEF Settled, Left, InFlight
<1>6. \A p \in Provider :
        /\ p \in acked /\ state.hash[p] = Mapped(p, bridge.reading, bridge.health)
        /\ SamePeer => Shown(p)
  BY <1>2, <1>5 DEF MirrorInv, Synchronising, Looping
<1>7. Forward
  BY <1>4, SameForward DEF MirrorInv
<1>8. Numbered' /\ Cursors'
  BY <1>1, <1>2, <1>4, <1>7, PastStays DEF MirrorInv, Cursors
<1>9. NeverStale' /\ Connection'
  BY <1>1, <1>2, <1>3, <1>4, QuietConnection
<1>10. NewFrame' /\ Synchronising' /\ Composed' /\ ReadyIsIdle' /\ Fencing'
  BY <1>3, <1>4 DEF NewFrame, Synchronising, Composed, ReadyIsIdle, Fencing, Looping
<1>11. Synchronised'
  <2>1. acked = Provider
    BY <1>6 DEF MirrorInv, BridgeInv, TypeOK
  <2>2. \A p \in Provider : Shown(p) => Shown(p)'
    BY <1>2, <1>4, ShownStays
  <2>3. SamePeer => \A p \in Provider : Shown(p)'
    BY <1>6, <2>2
  <2>4. \A p \in Provider : state'.hash[p] = Mapped(p, state'.doneSource, bridge'.health)
    BY <1>3, <1>4, <1>6
  <2> QED BY <1>2, <1>3, <2>1, <2>3, <2>4 DEF Synchronised, SamePeer, Mapped
<1> QED BY <1>1, <1>8, <1>9, <1>10, <1>11 DEF MirrorInv

LEMMA FenceCompleteMirrors == MirrorInv /\ FenceComplete => MirrorInv'
<1> SUFFICES ASSUME MirrorInv, FenceComplete PROVE MirrorInv'
  OBVIOUS
<1>1. BridgeInv'
  BY FenceCompleteKeeps DEF MirrorInv
<1>2. /\ bridge \in BridgeType /\ bridge.pc = "fence" /\ bridge.todo = <<>>
      /\ state.pending = Nothing /\ bridge.conn # "none"
      /\ UNCHANGED <<state, core, recorded, wire, reply, acked>>
  BY DEF FenceComplete, MirrorInv, BridgeInv, TypeOK, LoopOK, Connection
<1>3. /\ bridge'.conn = bridge.conn /\ bridge'.pc = "tick" /\ bridge'.phase = bridge.phase
  BY <1>2 DEF FenceComplete, BridgeType
<1>4. state.failure # Nothing
  BY <1>2, BridgeAssumption DEF MirrorInv, BridgeInv, LoopOK
<1>5. Settled = Provider
  BY <1>2 DEF Settled, Left, InFlight
<1>6. state.fenced = Provider /\ acked = Provider
  BY <1>2, <1>5 DEF MirrorInv, Fencing, Looping, BridgeInv, TypeOK, StateType
<1>7. Forward
  BY <1>2, SameForward DEF MirrorInv
<1>8. Numbered' /\ Cursors'
  BY <1>1, <1>2, <1>7, PastStays DEF MirrorInv, Cursors
<1>9. NeverStale' /\ Connection'
  BY <1>1, <1>2, <1>3, QuietConnection
<1>10. NewFrame' /\ Synchronising' /\ Composed'
  BY <1>2, <1>3 DEF NewFrame, Synchronising, Composed, Looping
<1>11. ReadyIsIdle' /\ Synchronised'
  BY <1>2, <1>3, <1>4, <1>6 DEF ReadyIsIdle, Synchronised, MirrorInv
<1>12. Fencing'
  <2>1. \A p \in state.fenced : Dark(p)
    BY <1>2 DEF MirrorInv, Fencing, Looping
  <2>2. \A p \in state'.fenced : Dark(p)'
    BY <1>2, <2>1, DarkStays
  <2> QED BY <1>2, <1>3, <1>6, <2>2 DEF Fencing, Looping
<1> QED BY <1>1, <1>8, <1>9, <1>10, <1>11, <1>12 DEF MirrorInv

-----------------------------------------------------------------------------
(* A frame and its answer *)

LEMMA SendMirrors == MirrorInv /\ Send => MirrorInv'
<1> SUFFICES ASSUME MirrorInv, Send PROVE MirrorInv'
  OBVIOUS
<1> DEFINE n == [late |-> FALSE, frame |-> state.pending]
           p == state.pending.provider
<1>1. BridgeInv'
  BY SendKeeps DEF MirrorInv
<1>2. /\ bridge \in BridgeType /\ bridge.pc = "send" /\ bridge.conn = "open"
      /\ state.pending # Nothing /\ state.pending \in FrameType
      /\ UNCHANGED <<state, core, recorded, reply, acked>>
  BY DEF Send, SamePeer, MirrorInv, BridgeInv, TypeOK, StateType
<1>3. wire' = wire \union {n} /\ n.frame = state.pending /\ ~n.late
  BY DEF Send
<1>4. /\ bridge'.conn = "open" /\ bridge'.pc = "await" /\ bridge'.phase = bridge.phase
      /\ bridge'.resync = bridge.resync /\ bridge'.after = bridge.after
      /\ bridge'.reading = bridge.reading /\ bridge'.health = bridge.health
      /\ bridge'.todo = bridge.todo
  BY <1>2 DEF Send, BridgeType
<1>5. reply = Nothing /\ \A m \in wire : m.late
  BY <1>2, Resting
<1> HIDE DEF n
<1>6. Known' = Known
  <2>1. {m.frame : m \in wire'} = {m.frame : m \in wire} \union {state.pending}
    BY <1>3
  <2> QED BY <1>2, <2>1 DEF Known
<1>7. Numbered'
  BY <1>2, <1>6 DEF MirrorInv, Numbered
<1>8. Cursors'
  <2>1. ASSUME NEW f \in recorded, core.book.cursor[f.provider] = Nothing,
               NEW m \in wire', m.frame.provider = f.provider
        PROVE  ~Older(m.frame, f)
    <3>1. CASE m \in wire
      BY <2>1, <3>1 DEF MirrorInv, Cursors
    <3>2. CASE m = n
      BY <1>2, <1>3, <2>1, <3>2, KnownParts DEF MirrorInv, Numbered
    <3> QED BY <1>3, <3>1, <3>2
  <2> QED BY <1>2, <2>1 DEF MirrorInv, Cursors
<1>9. NeverStale'
  BY <1>2 DEF MirrorInv, NeverStale
<1>10. Connection'
  <2>1. Nothing \notin AcceptedAcks
    BY NothingAssumption DEF Answers
  <2> QED BY <1>2, <1>3, <1>4, <1>5, <2>1 DEF MirrorInv, Connection, Looping
<1>11. NewFrame'
  <2>1. Nothing \notin AcceptedAcks
    BY NothingAssumption DEF Answers
  <2> QED BY <1>2, <1>3, <1>4, <1>5, <2>1 DEF MirrorInv, NewFrame
<1>12. Composed' /\ ReadyIsIdle'
  BY <1>2, <1>4 DEF MirrorInv, Composed, ReadyIsIdle, Mapped
<1>13. InFlight = {p} /\ InFlight' = {p} /\ Settled' = Settled
  BY <1>2, <1>4 DEF Settled, InFlight, Left
<1>14. ASSUME NEW q \in Provider, q # p PROVE (Shown(q) => Shown(q)') /\ (Dark(q) => Dark(q)')
  <2>1. \A m \in wire' : m.frame.provider = q => m \in wire
    BY <1>3, <1>14
  <2>2. Shown(q) => Shown(q)'
    BY <1>2, <2>1 DEF Shown, Older
  <2>3. Dark(q) => Dark(q)'
    BY <1>2, <2>1 DEF Dark, Older, Live
  <2> QED BY <2>2, <2>3
<1> HIDE DEF p
<1>15. Synchronising'
  <2> SUFFICES ASSUME bridge.after = "sync", NEW q \in Settled
               PROVE  /\ q \in acked /\ state.hash[q] = Mapped(q, bridge.reading, bridge.health)
                      /\ Shown(q)'
    BY <1>2, <1>4, <1>13 DEF Synchronising, Looping, SamePeer, Mapped
  <2>1. q \in Provider /\ q # p
    BY <1>13 DEF Settled
  <2>2. /\ q \in acked /\ state.hash[q] = Mapped(q, bridge.reading, bridge.health)
        /\ Shown(q)
    BY <1>2 DEF MirrorInv, Synchronising, Looping, SamePeer
  <2> QED BY <1>14, <2>1, <2>2
<1>16. Synchronised'
  <2>1. ~bridge.resync => acked = Provider
          /\ (state.failure = Nothing => \A q \in Provider \ {p} : Shown(q))
    BY <1>2, <1>13 DEF MirrorInv, Synchronised, SamePeer
  <2> QED BY <1>2, <1>4, <1>13, <1>14, <2>1 DEF Synchronised
<1>17. Fencing'
  <2>1. bridge.after \in {"tick", "fence"} => p \notin state.fenced
    <3>1. CASE bridge.after = "tick"
      BY <1>2, <3>1 DEF MirrorInv, Fencing, Looping
    <3>2. CASE bridge.after = "fence"
      BY <1>2, <3>2 DEF MirrorInv, Composed, BridgeInv, StateValid, Valid, p
    <3> QED BY <3>1, <3>2
  <2>2. state.fenced \subseteq Provider
    BY DEF MirrorInv, BridgeInv, TypeOK, StateType
  <2>3. bridge.after \in {"tick", "fence"} => \A q \in state.fenced : Dark(q)'
    BY <1>2, <1>14, <2>1, <2>2 DEF MirrorInv, Fencing, Looping
  <2> QED BY <1>2, <1>4, <1>13, <2>3 DEF MirrorInv, Fencing, Looping
<1> QED BY <1>1, <1>7, <1>8, <1>9, <1>10, <1>11, <1>12, <1>15, <1>16, <1>17 DEF MirrorInv

\* An accepted frame is the book's last of its provider, unless the book was lost.
LEMMA AcceptedFrame ==
    ASSUME MirrorInv, bridge.pc = "await", reply \in AcceptedAcks
    PROVE  LET f == state.pending
               c == core.book.cursor[f.provider]
           IN  /\ f # Nothing /\ f \in FrameType /\ f.provider \in Provider
               /\ c # Nothing => c = f
               /\ \A m \in wire : m.frame.provider = f.provider => ~Older(f, m.frame)
               /\ c = Nothing => \A m \in wire : m.frame.provider = f.provider => m.frame = f
<1> DEFINE f == state.pending
           c == core.book.cursor[f.provider]
<1>1. f # Nothing /\ f \in FrameType /\ f.provider \in Provider /\ f \in recorded
  BY FrameFields DEF MirrorInv, BridgeInv, TypeOK, StateType, Connection
<1>2. TypeOK /\ Numbered
  BY DEF MirrorInv, BridgeInv
<1>3. c # Nothing => c = f
  <2> SUFFICES ASSUME c # Nothing PROVE c = f
    OBVIOUS
  <2>1. c.provider = f.provider /\ ~Older(c, f) /\ c \in Known
    BY <1>1, KnownParts DEF MirrorInv, Cursors
  <2> QED BY <1>1, <1>2, <2>1, PendingIsLast
<1>4. \A m \in wire : m.frame.provider = f.provider => ~Older(f, m.frame)
  BY <1>1, <1>2, KnownParts DEF Numbered
<1>5. c = Nothing => \A m \in wire : m.frame.provider = f.provider => m.frame = f
  <2> SUFFICES ASSUME c = Nothing, NEW m \in wire, m.frame.provider = f.provider
               PROVE  m.frame = f
    OBVIOUS
  <2>1. ~Older(m.frame, f) /\ m.frame \in Known
    BY <1>1, KnownParts DEF MirrorInv, Cursors
  <2> QED BY <1>1, <1>2, <2>1, PendingIsLast
<1> QED BY <1>1, <1>3, <1>4, <1>5

LEMMA AcceptedMirrors == MirrorInv /\ Accepted => MirrorInv'
<1> SUFFICES ASSUME MirrorInv, Accepted PROVE MirrorInv'
  OBVIOUS
<1> DEFINE f == state.pending
<1>0. PICK p : p = f.provider
  OBVIOUS
<1> DEFINE c == core.book.cursor[p]
<1>1. BridgeInv'
  BY AcceptedKeeps DEF MirrorInv
<1>2. /\ bridge \in BridgeType /\ state \in StateType /\ bridge.pc = "await"
      /\ reply \in AcceptedAcks /\ state' = Acknowledge(state) /\ acked' = acked \union {p}
      /\ reply' = Nothing /\ UNCHANGED <<core, recorded, wire>>
  BY <1>0 DEF Accepted, MirrorInv, BridgeInv, TypeOK
<1>3. /\ f # Nothing /\ f \in FrameType /\ p \in Provider
      /\ c # Nothing => c = f
      /\ \A m \in wire : m.frame.provider = p => ~Older(f, m.frame)
      /\ c = Nothing => \A m \in wire : m.frame.provider = p => m.frame = f
  BY <1>0, <1>2, AcceptedFrame
<1>4. bridge.after \in {"tick", "sync", "fence"} /\ bridge.conn # "none"
  BY <1>2 DEF BridgeType, MirrorInv, Connection
<1>5. /\ bridge'.conn = bridge.conn /\ bridge'.pc = bridge.after /\ bridge'.phase = bridge.phase
      /\ bridge'.resync = bridge.resync /\ bridge'.reading = bridge.reading
      /\ bridge'.health = bridge.health /\ bridge'.todo = bridge.todo
  BY <1>2 DEF Accepted, BridgeType
<1>6. /\ state'.gen = state.gen /\ state'.seq = state.seq /\ state'.pending = Nothing
      /\ state'.hash = [state.hash EXCEPT ![p] = f.content] /\ state'.failure = state.failure
      /\ state'.fenced = IF f.purpose = "source_failure" THEN state.fenced \union {p} ELSE state.fenced
  BY <1>0, <1>2 DEF Acknowledge, StateType
<1>7. \A q \in Provider : state'.hash[q] = IF q = p THEN f.content ELSE state.hash[q]
  BY <1>2, <1>3, <1>6 DEF StateType
<1>8. Forward
  BY <1>6, SameForward DEF MirrorInv
<1>9. Numbered' /\ Cursors'
  BY <1>1, <1>2, <1>6, <1>8, PastStays DEF MirrorInv, Cursors
<1>10. \A m \in wire : m.late
  <2>1. reply # Nothing
    BY <1>2, NothingAssumption DEF Answers
  <2>2. wire \subseteq [late : BOOLEAN, frame : FrameType]
    BY DEF MirrorInv, BridgeInv, TypeOK
  <2> QED BY <2>1, <2>2 DEF MirrorInv, Connection
<1>11. NeverStale' /\ Connection'
  <2>1. Nothing \notin AcceptedAcks \union {"stale", "collision"}
    BY NothingAssumption DEF Answers
  <2>2. bridge.conn = "broken" => wire = {} /\ core.book = EmptyBook(Nothing)
    BY DEF MirrorInv, Connection
  <2>3. Connection'
    BY <1>2, <1>4, <1>5, <1>6, <1>10, <2>1, <2>2 DEF Connection, Looping, EmptyBook
  <2> QED BY <1>2, <2>1, <2>3 DEF NeverStale
<1>12. NewFrame' /\ Composed' /\ ReadyIsIdle'
  BY <1>2, <1>4, <1>5, <1>6 DEF NewFrame, Composed, ReadyIsIdle, MirrorInv
<1>13. InFlight = {p} /\ InFlight' = {} /\ Settled' \subseteq Settled \union {p}
  BY <1>0, <1>2, <1>4, <1>5 DEF Settled, InFlight, Left
<1>14. ASSUME NEW q \in Provider, q # p PROVE Shown(q) => Shown(q)'
  <2>1. state'.hash[q] = state.hash[q]
    BY <1>7, <1>14
  <2> QED BY <1>2, <2>1, ShownStays
<1>15. bridge.after = "sync" /\ SamePeer => Shown(p)'
  <2> SUFFICES ASSUME bridge.after = "sync", SamePeer PROVE Shown(p)'
    OBVIOUS
  <2>1. c # Nothing
    BY <1>0, <1>2 DEF MirrorInv, NewFrame, SamePeer
  <2>2. state'.hash[p] = f.content
    BY <1>3, <1>7
  <2> QED BY <1>2, <1>3, <2>1, <2>2 DEF Shown, Older
<1>16. Synchronising'
  <2> SUFFICES ASSUME bridge.after = "sync", NEW q \in Settled'
               PROVE  /\ q \in acked' /\ state'.hash[q] = Mapped(q, bridge.reading, bridge.health)
                      /\ SamePeer => Shown(q)'
    BY <1>2, <1>4, <1>5 DEF Synchronising, Looping, SamePeer, Mapped
  <2>1. q \in Provider
    BY DEF Settled
  <2>2. CASE q = p
    <3>1. f.content = Mapped(p, bridge.reading, bridge.health)
      BY <1>0, <1>2 DEF MirrorInv, Composed
    <3> QED BY <1>2, <1>7, <1>15, <2>1, <2>2, <3>1
  <2>3. CASE q # p
    <3>1. q \in Settled
      BY <1>13, <2>3
    <3>2. /\ q \in acked /\ state.hash[q] = Mapped(q, bridge.reading, bridge.health)
          /\ SamePeer => Shown(q)
      BY <1>2, <3>1 DEF MirrorInv, Synchronising, Looping
    <3> QED BY <1>2, <1>7, <1>14, <2>1, <2>3, <3>2
  <2> QED BY <2>2, <2>3
<1>17. bridge.after = "tick" => bridge.resync
  BY <1>2, <1>3 DEF MirrorInv, Connection, Looping
<1>18. bridge.after = "fence" => state.failure # Nothing /\ f.purpose = "source_failure"
  BY <1>2, BridgeAssumption DEF MirrorInv, BridgeInv, LoopOK, Composed
<1>19. Synchronised'
  <2> SUFFICES ASSUME ~bridge.resync
               PROVE  /\ acked' = Provider
                      /\ state.failure = Nothing /\ SamePeer => \A q \in Provider : Shown(q)'
    BY <1>4, <1>5, <1>6, <1>17, <1>18 DEF Synchronised, SamePeer
  <2>1. /\ acked = Provider
        /\ state.failure = Nothing /\ SamePeer => \A q \in Provider \ {p} : Shown(q)
    BY <1>13 DEF MirrorInv, Synchronised
  <2>2. state.failure = Nothing => bridge.after = "sync"
    BY <1>4, <1>17, <1>18
  <2> QED BY <1>2, <1>3, <1>14, <1>15, <2>1, <2>2
<1>20. Fencing'
  <2>1. state'.fenced \subseteq acked'
    BY <1>2, <1>6 DEF MirrorInv, Fencing
  <2>2. bridge.after = "fence" => Settled' \subseteq state'.fenced
    BY <1>2, <1>6, <1>13, <1>18 DEF MirrorInv, Fencing, Looping
  <2>3. ASSUME bridge.after \in {"tick", "fence"}, NEW q \in state'.fenced PROVE Dark(q)'
    <3>1. CASE q \in state.fenced
      <4>1. Dark(q)
        BY <1>2, <1>4, <2>3, <3>1 DEF MirrorInv, Fencing, Looping
      <4> QED BY <1>2, <4>1, DarkStays
    <3>2. CASE q \notin state.fenced
      <4>1. q = p /\ f.purpose = "source_failure"
        BY <1>6, <3>2
      <4>2. f.content = "unavailable"
        BY <1>3, <4>1 DEF MirrorInv, Composed
      <4>3. ~Live(f.content)
        BY <4>2 DEF Live
      <4>4. Dark(p)
        BY <1>3, <4>3 DEF Dark
      <4> QED BY <1>2, <4>1, <4>4, DarkStays
    <3> QED BY <3>1, <3>2
  <2> QED BY <1>4, <1>5, <1>6, <1>17, <2>1, <2>2, <2>3 DEF Fencing, Looping
<1> QED BY <1>1, <1>9, <1>11, <1>12, <1>16, <1>19, <1>20 DEF MirrorInv

-----------------------------------------------------------------------------
(* Core *)

LEMMA SameBatch ==
    ASSUME NEW f, NEW g, BatchId(f) = BatchId(g)
    PROVE  f.provider = g.provider /\ f.gen = g.gen /\ f.seq = g.seq
BY DEF BatchId

\* What an answer of the book says of its cursor.
LEMMA DispositionSays ==
    ASSUME NEW book, NEW aged, NEW f
    PROVE  LET d == Disposition(book, aged, f, Nothing)
               c == book.cursor[f.provider]
           IN  /\ d \in {"applied", "duplicate", "stale", "collision"}
               /\ d = "applied" => c = Nothing \/ Older(c, f)
               /\ d = "duplicate" => f \in book.seen \/ (c # Nothing /\ f = c)
               /\ d = "stale" => c # Nothing /\ Older(f, c)
               /\ d = "collision" =>
                    \/ \E g \in book.seen : g # f /\ BatchId(g) = BatchId(f)
                    \/ c # Nothing /\ ~Older(f, c) /\ ~Older(c, f) /\ f # c
<1> DEFINE c == book.cursor[f.provider]
           known == {g \in book.seen \ aged : BatchId(g) = BatchId(f)}
<1>1. CASE known # {}
  <2>1. Disposition(book, aged, f, Nothing) = IF f \in known THEN "duplicate" ELSE "collision"
    BY <1>1 DEF Disposition
  <2>2. PICK g \in known : TRUE
    BY <1>1
  <2> QED BY <2>1, <2>2
<1>2. CASE known = {} /\ c = Nothing
  <2>1. Disposition(book, aged, f, Nothing) = "applied"
    BY <1>2 DEF Disposition
  <2> QED BY <1>2, <2>1
<1>3. CASE known = {} /\ c # Nothing
  <2>1. CASE Older(f, c) /\ Older(c, f)
    <3>1. Disposition(book, aged, f, Nothing) \in {"stale", "applied"}
      BY <1>3, <2>1 DEF Disposition
    <3> QED BY <1>3, <2>1, <3>1
  <2>2. CASE Older(f, c) /\ ~Older(c, f)
    <3>1. Disposition(book, aged, f, Nothing) = "stale"
      BY <1>3, <2>2 DEF Disposition
    <3> QED BY <1>3, <2>2, <3>1
  <2>3. CASE ~Older(f, c) /\ Older(c, f)
    <3>1. Disposition(book, aged, f, Nothing) = "applied"
      BY <1>3, <2>3 DEF Disposition
    <3> QED BY <1>3, <2>3, <3>1
  <2>4. CASE ~Older(f, c) /\ ~Older(c, f)
    <3>1. Disposition(book, aged, f, Nothing) = IF f = c THEN "duplicate" ELSE "collision"
      BY <1>3, <2>4 DEF Disposition
    <3> QED BY <1>3, <2>4, <3>1
  <2> QED BY <2>1, <2>2, <2>3, <2>4
<1> QED BY <1>1, <1>2, <1>3

\* The pending frame is neither stale nor does it collide.
LEMMA PendingWelcome ==
    ASSUME MirrorInv, state.pending # Nothing, NEW aged
    PROVE  /\ Disposition(core.book, aged, state.pending, Nothing) \in {"applied", "duplicate"}
           /\ KnownIngress(state.pending) # {} => state.pending \in recorded
<1> DEFINE f == state.pending
           c == core.book.cursor[f.provider]
           d == Disposition(core.book, aged, f, Nothing)
<1>1. TypeOK /\ Numbered /\ f \in FrameType /\ f \in Known
  BY KnownParts DEF MirrorInv, BridgeInv, TypeOK, StateType
<1>2. \A g \in Known : BatchId(g) = BatchId(f) => g = f
  BY <1>1, SameBatch DEF Numbered
<1>3. c # Nothing => c \in Known /\ c.provider = f.provider /\ ~Older(f, c)
  BY <1>1, KnownParts, FrameFields DEF MirrorInv, Cursors, Numbered
<1>4. d # "stale"
  BY <1>3, DispositionSays
<1>5. d # "collision"
  <2>1. ~\E g \in core.book.seen : g # f /\ BatchId(g) = BatchId(f)
    BY <1>2, KnownParts
  <2>2. ~(c # Nothing /\ ~Older(f, c) /\ ~Older(c, f) /\ f # c)
    BY <1>1, <1>3, PendingIsLast
  <2> QED BY <2>1, <2>2, DispositionSays
<1>6. KnownIngress(f) # {} => f \in recorded
  BY <1>2, KnownParts DEF KnownIngress
<1> QED BY <1>4, <1>5, <1>6, DispositionSays

\* What processing a frame does to the book, the ledger and the connection.
Processed(m, ack) ==
    LET f == m.frame
        p == f.provider
    IN  /\ reply' = IF m.late THEN reply ELSE ack
        /\ core'.up = core.up
        /\ recorded' = recorded \/ recorded' = recorded \union {f}
        /\ \/ core'.book = core.book
           \/ /\ core'.book.cursor = [core.book.cursor EXCEPT ![p] = f]
              /\ core'.book.seen \subseteq core.book.seen \union {f}
              /\ core.book.cursor[p] = Nothing \/ Older(core.book.cursor[p], f)
        /\ f \in recorded' /\ f \notin recorded =>
             core'.book.cursor[p] # Nothing /\ ~Older(core'.book.cursor[p], f)
        /\ ~m.late /\ ack \in AcceptedAcks => f \in recorded'
        /\ ~m.late => ack \notin {"stale", "collision"}

LEMMA ProcessEffect ==
    ASSUME MirrorInv, NEW m \in wire, Refuse(m) \/ AnswerKnown(m) \/ Apply(m)
    PROVE  \E ack \in Answers : Processed(m, ack)
<1> DEFINE f == m.frame
           p == f.provider
           c == core.book.cursor[p]
<1>1. m.late \in BOOLEAN /\ f \in FrameType /\ p \in Provider
  BY FrameFields DEF MirrorInv, BridgeInv, TypeOK
<1>2. ~m.late => f = state.pending /\ state.pending # Nothing
  BY <1>1, FrameFields DEF MirrorInv, Connection
<1>3. CASE Refuse(m)
  <2>1. PICK ack \in {"busy", "rejected"} : Answer(m, ack)
    BY <1>3 DEF Refuse
  <2>2. ack \in Answers /\ ack \notin AcceptedAcks /\ ack \notin {"stale", "collision"}
    BY DEF Answers, AcceptedAcks
  <2>3. UNCHANGED <<core, recorded>>
    BY <1>3 DEF Refuse
  <2> QED BY <2>1, <2>2, <2>3 DEF Answer, Processed
<1>4. CASE AnswerKnown(m)
  <2> DEFINE ack == IF f \in recorded THEN "duplicate_ingress" ELSE "collision"
  <2>1. Answer(m, ack) /\ UNCHANGED <<core, recorded>> /\ KnownIngress(f) # {}
    BY <1>4 DEF AnswerKnown
  <2>2. ack \in Answers /\ (ack \in AcceptedAcks => f \in recorded)
    BY DEF Answers, AcceptedAcks
  <2>3. ~m.late => ack \notin {"stale", "collision"}
    BY <1>2, <2>1, PendingWelcome
  <2> HIDE DEF ack
  <2> QED BY <2>1, <2>2, <2>3 DEF Answer, Processed
<1>5. CASE Apply(m)
  <2>1. PICK aged \in {{}, core.book.seen} :
          LET d == Disposition(core.book, aged, f, Nothing) IN
          /\ core' = IF d = "applied"
                     THEN [core EXCEPT !.book = Applied(core.book, aged, f)]
                     ELSE core
          /\ \/ d = "collision" /\ Answer(m, d) /\ UNCHANGED recorded
             \/ d # "collision" /\ Answer(m, d) /\ recorded' = recorded \union {f}
             \/ d # "collision" /\ Answer(m, "rejected") /\ UNCHANGED recorded
    BY <1>5 DEF Apply
  <2>2. PICK d : d = Disposition(core.book, aged, f, Nothing)
    OBVIOUS
  <2>3. /\ d \in {"applied", "duplicate", "stale", "collision"}
        /\ d = "applied" => c = Nothing \/ Older(c, f)
        /\ d = "duplicate" => f \in core.book.seen \/ (c # Nothing /\ f = c)
        /\ d = "stale" => c # Nothing /\ Older(f, c)
    BY <2>2, DispositionSays
  <2>4. ~m.late => d \in {"applied", "duplicate"}
    BY <1>2, <2>2, PendingWelcome
  <2>5. core \in [up : BOOLEAN, run : Nat, book : BookType] /\ core.book \in BookType
    BY DEF MirrorInv, BridgeInv, TypeOK
  <2>6. core'.up = core.up
    BY <2>1, <2>5
  <2>7. /\ d = "applied" => /\ core'.book.cursor = [core.book.cursor EXCEPT ![p] = f]
                            /\ core'.book.seen \subseteq core.book.seen \union {f}
        /\ d # "applied" => core'.book = core.book
    BY <2>1, <2>2, <2>5 DEF Applied
  <2>8. d # "collision" => core'.book.cursor[p] # Nothing /\ ~Older(core'.book.cursor[p], f)
    <3>1. CASE d = "applied"
      <4>1. core'.book.cursor[p] = f
        BY <1>1, <2>5, <2>7, <3>1 DEF BookType
      <4> QED BY <1>1, <4>1, FrameFields, OlderOrder
    <3>2. CASE d = "duplicate"
      BY <1>1, <2>3, <2>7, <3>2, OlderOrder DEF MirrorInv, Cursors
    <3>3. CASE d = "stale"
      <4>1. c \in FrameType
        BY <1>1, <2>3, <2>5, <3>3 DEF BookType
      <4> QED BY <1>1, <2>3, <2>7, <3>3, <4>1, OlderOrder
    <3> QED BY <2>3, <3>1, <3>2, <3>3
  <2>9. d \in Answers /\ "rejected" \in Answers /\ "rejected" \notin AcceptedAcks
        /\ (d \in AcceptedAcks => d \in {"applied", "duplicate"})
    BY <2>3 DEF Answers, AcceptedAcks
  <2> DEFINE Book == \/ core'.book = core.book
                     \/ /\ core'.book.cursor = [core.book.cursor EXCEPT ![p] = f]
                        /\ core'.book.seen \subseteq core.book.seen \union {f}
                        /\ c = Nothing \/ Older(c, f)
  <2>10. Book
    BY <2>3, <2>7
  <2> HIDE DEF Book
  <2>11. CASE d = "collision" /\ Answer(m, d) /\ UNCHANGED recorded
    <3>1. Processed(m, d)
      BY <2>4, <2>6, <2>9, <2>10, <2>11 DEF Processed, Answer, Book
    <3> QED BY <2>9, <3>1
  <2>12. CASE d # "collision" /\ Answer(m, d) /\ recorded' = recorded \union {f}
    <3>1. Processed(m, d)
      BY <2>4, <2>6, <2>8, <2>10, <2>12 DEF Processed, Answer, Book
    <3> QED BY <2>9, <3>1
  <2>13. CASE d # "collision" /\ Answer(m, "rejected") /\ UNCHANGED recorded
    <3>1. Processed(m, "rejected")
      BY <2>6, <2>9, <2>10, <2>13 DEF Processed, Answer, Book
    <3> QED BY <2>9, <3>1
  <2> QED BY <2>1, <2>2, <2>11, <2>12, <2>13
<1> QED BY <1>3, <1>4, <1>5

\* The loops depend on the book only through what it shows and hides.
LEMMA LoopsStay ==
    ASSUME MirrorInv, UNCHANGED <<state, bridge, acked>>,
           \A p \in Provider : (Shown(p) => Shown(p)') /\ (Dark(p) => Dark(p)')
    PROVE  Composed' /\ Synchronising' /\ Synchronised' /\ ReadyIsIdle' /\ Fencing'
<1>1. Composed' /\ ReadyIsIdle'
  BY DEF MirrorInv, Composed, ReadyIsIdle, Mapped
<1>2. Settled' = Settled /\ InFlight' = InFlight /\ Settled \subseteq Provider
  BY DEF Settled, InFlight, Left
<1>3. Synchronising'
  <2> SUFFICES ASSUME Looping("sync"), NEW p \in Settled
               PROVE  /\ p \in acked /\ state.hash[p] = Mapped(p, bridge.reading, bridge.health)
                      /\ SamePeer => Shown(p)'
    BY <1>2 DEF Synchronising, Looping, SamePeer, Mapped
  <2> QED BY <1>2 DEF MirrorInv, Synchronising
<1>4. Synchronised'
  <2> SUFFICES ASSUME ~bridge.resync
               PROVE  /\ acked = Provider
                      /\ state.failure = Nothing /\ SamePeer =>
                           \A p \in Provider \ InFlight : Shown(p)'
                      /\ bridge.pc \in {"tick", "health"} /\ state.failure = Nothing =>
                           \A p \in Provider : state.hash[p] = Mapped(p, state.doneSource, bridge.health)
    BY <1>2 DEF Synchronised, SamePeer, Mapped
  <2> QED BY DEF MirrorInv, Synchronised
<1>5. Fencing'
  <2>1. state.fenced \subseteq Provider
    BY DEF MirrorInv, BridgeInv, TypeOK, StateType
  <2>2. (Looping("tick") \/ Looping("fence")) /\ bridge.conn # "none" =>
          \A p \in state.fenced : Dark(p)'
    BY <2>1 DEF MirrorInv, Fencing
  <2> QED BY <1>2, <2>2 DEF MirrorInv, Fencing, Looping
<1> QED BY <1>1, <1>3, <1>4, <1>5

\* Steps that leave the book and both processes as they are.
LEMMA SameBookMirrors ==
    ASSUME MirrorInv, BridgeInv', core'.book = core.book, core'.up \/ ~core.up,
           UNCHANGED <<state, bridge, recorded, wire, reply, acked>>
    PROVE  MirrorInv'
<1>1. Forward
  BY SameForward DEF MirrorInv
<1>2. Numbered' /\ Cursors'
  BY <1>1, PastStays
<1>3. NeverStale' /\ Connection' /\ NewFrame'
  BY DEF MirrorInv, NeverStale, Connection, NewFrame, Looping, EmptyBook
<1>4. \A p \in Provider : (Shown(p) => Shown(p)') /\ (Dark(p) => Dark(p)')
  BY ShownStays, DarkStays
<1>5. Composed' /\ Synchronising' /\ Synchronised' /\ ReadyIsIdle' /\ Fencing'
  BY <1>4, LoopsStay
<1> QED BY <1>2, <1>3, <1>5 DEF MirrorInv

LEMMA SourceChangesMirrors == MirrorInv /\ SourceChanges => MirrorInv'
<1> SUFFICES ASSUME MirrorInv, SourceChanges PROVE MirrorInv'
  OBVIOUS
<1>1. BridgeInv'
  BY SourceChangesKeeps DEF MirrorInv
<1>2. core' = core /\ core.up \in BOOLEAN
  BY DEF SourceChanges, MirrorInv, BridgeInv, TypeOK
<1> QED BY <1>1, <1>2, SameBookMirrors DEF SourceChanges

\* A new Core starts with the empty book that the last one left.
LEMMA CoreStartMirrors == MirrorInv /\ CoreStart => MirrorInv'
<1> SUFFICES ASSUME MirrorInv, CoreStart PROVE MirrorInv'
  OBVIOUS
<1>1. BridgeInv'
  BY CoreStartKeeps DEF MirrorInv
<1>2. core'.book = core.book /\ ~core.up
  BY DEF CoreStart, MirrorInv, Cursors
<1> QED BY <1>1, <1>2, SameBookMirrors DEF CoreStart

\* A Core that dies takes its book and the frames it held with it.
LEMMA CoreCrashMirrors == MirrorInv /\ CoreCrash => MirrorInv'
<1> SUFFICES ASSUME MirrorInv, CoreCrash PROVE MirrorInv'
  OBVIOUS
<1>1. BridgeInv' /\ TypeOK
  BY CoreCrashKeeps DEF MirrorInv, BridgeInv
<1>2. /\ wire' = {} /\ UNCHANGED <<state, recorded, reply, acked>>
      /\ core'.book = EmptyBook(Nothing)
  BY <1>1 DEF CoreCrash, TypeOK
<1>3. core'.book.seen = {} /\ \A p \in Provider : core'.book.cursor[p] = Nothing
  BY <1>2 DEF EmptyBook
<1>4. bridge \in BridgeType
  BY <1>1 DEF TypeOK
<1>5. /\ bridge'.conn = IF bridge.conn = "open" THEN "broken" ELSE bridge.conn
      /\ bridge'.pc = bridge.pc /\ bridge'.resync = bridge.resync
      /\ bridge'.reading = bridge.reading /\ bridge'.health = bridge.health
      /\ bridge'.todo = bridge.todo /\ bridge'.after = bridge.after
      /\ bridge'.phase = bridge.phase
  BY <1>4 DEF CoreCrash, BridgeType
<1>6. bridge'.conn # "open" /\ (bridge'.conn = "none" <=> bridge.conn = "none")
  BY <1>5
<1>7. Numbered'
  <2>1. Known' \subseteq Known
    BY <1>2, <1>3 DEF Known
  <2>2. Forward
    BY <1>2, SameForward DEF MirrorInv
  <2> QED BY <1>1, <1>2, <2>1, <2>2, NumbersStay DEF MirrorInv, BridgeInv
<1>8. Cursors'
  <2>1. \A f \in recorded' : f.provider \in Provider
    BY <1>1, <1>2, FrameFields DEF TypeOK
  <2> QED BY <1>2, <1>3, <2>1 DEF Cursors, EmptyBook
<1>9. NeverStale' /\ Connection'
  BY <1>2, <1>5, <1>6 DEF MirrorInv, NeverStale, Connection, Looping, EmptyBook
<1>10. NewFrame' /\ Composed' /\ ReadyIsIdle'
  BY <1>2, <1>5, <1>6 DEF MirrorInv, NewFrame, Composed, ReadyIsIdle, Mapped
<1>11. Settled' = Settled
  BY <1>2, <1>5 DEF Settled, InFlight, Left
<1>12. Synchronising' /\ Synchronised'
  BY <1>2, <1>5, <1>6, <1>11 DEF MirrorInv, Synchronising, Synchronised, Looping, SamePeer, Mapped
<1>13. \A p \in Provider : Dark(p)'
  BY <1>2, <1>3 DEF Dark
<1>14. Fencing'
  <2>1. state.fenced \subseteq Provider
    BY <1>1 DEF TypeOK, StateType
  <2> QED BY <1>2, <1>5, <1>6, <1>11, <1>13, <2>1 DEF MirrorInv, Fencing, Looping
<1> QED BY <1>1, <1>7, <1>8, <1>9, <1>10, <1>12, <1>14 DEF MirrorInv

\* The book only moves forward, and the ledger follows it.
LEMMA ProcessedPast ==
    ASSUME MirrorInv, core.up, NEW m \in wire, NEW ack, Processed(m, ack), wire' = wire \ {m},
           state' = state, BridgeInv'
    PROVE  Numbered' /\ Cursors'
<1> DEFINE f == m.frame
           p == f.provider
           c == core.book.cursor[p]
           Moves == /\ core'.book.cursor = [core.book.cursor EXCEPT ![p] = f]
                    /\ core'.book.seen \subseteq core.book.seen \union {f}
                    /\ c = Nothing \/ Older(c, f)
<1>1. TypeOK /\ core.book \in BookType /\ f \in FrameType /\ p \in Provider /\ f \in Known
  BY KnownParts, FrameFields DEF MirrorInv, BridgeInv, TypeOK
<1>2. core'.book = core.book \/ Moves
  BY DEF Processed
<1>3. recorded' \subseteq recorded \union {f}
  BY DEF Processed
<1>4. Moves => \A q \in Provider : core'.book.cursor[q] = IF q = p THEN f ELSE core.book.cursor[q]
  BY <1>1 DEF BookType
<1>5. Known' \subseteq Known
  <2>1. {n.frame : n \in wire'} \subseteq {n.frame : n \in wire}
    OBVIOUS
  <2>2. core'.book.seen \subseteq core.book.seen \union {f}
    BY <1>2
  <2>3. \A q \in Provider : core'.book.cursor[q] = f \/ core'.book.cursor[q] = core.book.cursor[q]
    BY <1>2, <1>4
  <2>4. \A g \in Known' : g \in Known
    BY <1>1, <1>3, <2>1, <2>2, <2>3 DEF Known
  <2> QED BY <2>4
<1>6. Forward
  BY SameForward DEF MirrorInv
<1>7. Numbered'
  BY <1>5, <1>6, NumbersStay DEF MirrorInv, BridgeInv
<1>8. /\ \A q \in Provider : core.book.cursor[q] # Nothing => core.book.cursor[q].provider = q
      /\ \A g \in core.book.seen : core.book.cursor[g.provider] # Nothing
                                   /\ ~Older(core.book.cursor[g.provider], g)
      /\ \A g \in recorded :
           IF core.book.cursor[g.provider] # Nothing
           THEN ~Older(core.book.cursor[g.provider], g)
           ELSE \A n \in wire : n.frame.provider = g.provider => ~Older(n.frame, g)
  BY DEF MirrorInv, Cursors
\* What the old cursor of the provider has reached, its new one has reached.
<1>9. ASSUME Moves, c # Nothing, NEW g \in FrameType, ~Older(c, g) PROVE ~Older(f, g)
  <2>1. c \in FrameType
    BY <1>1, <1>9 DEF BookType
  <2>2. ~Older(f, c)
    BY <1>1, <1>9, <2>1, OlderOrder
  <2> QED BY <1>1, <1>9, <2>1, <2>2, OlderOrder
<1> HIDE DEF Moves
<1>10. Moves => core'.book.seen \subseteq core.book.seen \union {f}
  BY DEF Moves
<1>11. \A q \in Provider : core'.book.cursor[q] # Nothing => core'.book.cursor[q].provider = q
  BY <1>2, <1>4, <1>8
<1>12. ASSUME NEW g \in core'.book.seen
       PROVE  core'.book.cursor[g.provider] # Nothing /\ ~Older(core'.book.cursor[g.provider], g)
  <2>1. CASE core'.book = core.book
    BY <1>8, <2>1
  <2>2. CASE Moves
    <3>1. g \in FrameType /\ g.provider \in Provider
      <4>1. core.book.seen \subseteq FrameType
        BY <1>1 DEF BookType
      <4> QED BY <1>1, <1>10, <2>2, <4>1, FrameFields
    <3>2. CASE g = f
      BY <1>1, <1>4, <2>2, <3>2, FrameFields, OlderOrder
    <3>3. CASE g # f /\ g.provider = p
      <4>1. c # Nothing /\ ~Older(c, g)
        BY <1>8, <1>10, <2>2, <3>3
      <4> QED BY <1>1, <1>4, <1>9, <2>2, <3>1, <3>3, <4>1, FrameFields
    <3>4. CASE g # f /\ g.provider # p
      BY <1>4, <1>8, <1>10, <2>2, <3>1, <3>4
    <3> QED BY <3>2, <3>3, <3>4
  <2> QED BY <1>2, <2>1, <2>2
<1>13. ASSUME NEW g \in recorded'
       PROVE  IF core'.book.cursor[g.provider] # Nothing
              THEN ~Older(core'.book.cursor[g.provider], g)
              ELSE \A n \in wire' : n.frame.provider = g.provider => ~Older(n.frame, g)
  <2>1. CASE g \notin recorded
    <3>1. g = f
      BY <1>3, <2>1
    <3> QED BY <2>1, <3>1 DEF Processed
  <2>2. CASE g \in recorded /\ core'.book = core.book
    BY <1>8, <2>2
  <2>3. CASE g \in recorded /\ Moves
    <3>1. g \in FrameType /\ g.provider \in Provider
      BY <1>1, <2>3, FrameFields DEF TypeOK
    <3>2. CASE g.provider = p
      <4>1. ~Older(f, g)
        BY <1>8, <1>9, <2>3, <3>1, <3>2
      <4> QED BY <1>1, <1>4, <2>3, <3>2, <4>1, FrameFields
    <3>3. CASE g.provider # p
      BY <1>4, <1>8, <2>3, <3>1, <3>3
    <3> QED BY <3>2, <3>3
  <2> QED BY <1>2, <2>1, <2>2, <2>3
<1>14. core'.up
  BY DEF Processed
<1>15. Cursors'
  BY <1>11, <1>12, <1>13, <1>14 DEF Cursors, Older
<1> QED BY <1>7, <1>15

\* What the book shows it keeps, and what is dark stays dark.
LEMMA ProcessedShows ==
    ASSUME MirrorInv, NEW m \in wire, NEW ack, Processed(m, ack), wire' = wire \ {m},
           state' = state, NEW q \in Provider
    PROVE  (Shown(q) => Shown(q)') /\ (Dark(q) => Dark(q)')
<1> DEFINE f == m.frame
           p == f.provider
           c == core.book.cursor[p]
           Moves == /\ core'.book.cursor = [core.book.cursor EXCEPT ![p] = f]
                    /\ core'.book.seen \subseteq core.book.seen \union {f}
                    /\ c = Nothing \/ Older(c, f)
<1>1. TypeOK /\ core.book \in BookType /\ f \in FrameType /\ p \in Provider
  BY FrameFields DEF MirrorInv, BridgeInv, TypeOK
<1>2. core'.book = core.book \/ Moves
  BY DEF Processed
<1>3. Moves => core'.book.cursor[q] = IF q = p THEN f ELSE core.book.cursor[q]
  BY <1>1 DEF BookType
<1>4. CASE core'.book = core.book
  BY <1>4, ShownStays, DarkStays
<1>5. CASE Moves /\ q # p
  <2>1. core'.book.cursor[q] = core.book.cursor[q]
    BY <1>3, <1>5
  <2> QED BY <2>1 DEF Shown, Dark, Older, Live
<1>6. CASE Moves /\ q = p
  <2>1. ~Shown(q)
    BY <1>6 DEF Shown
  <2>2. ASSUME Dark(q) PROVE Dark(q)'
    <3>1. ~Live(f.content)
      BY <1>6, <2>2 DEF Dark
    <3>2. core'.book.cursor[q] = f /\ f # Nothing
      BY <1>1, <1>3, <1>6, FrameFields
    <3>3. ASSUME NEW n \in wire', n.frame.provider = q, Older(f, n.frame)
          PROVE  ~Live(n.frame.content)
      <4>1. n \in wire /\ n.frame \in FrameType
        BY <1>1 DEF TypeOK
      <4>2. c = Nothing \/ Older(c, n.frame)
        <5>1. c # Nothing => c \in FrameType
          BY <1>1 DEF BookType
        <5> QED BY <1>1, <1>6, <3>3, <4>1, <5>1, OlderOrder
      <4> QED BY <1>6, <2>2, <3>3, <4>1, <4>2 DEF Dark
    <3> QED BY <3>1, <3>2, <3>3 DEF Dark, Older, Live
  <2> QED BY <2>1, <2>2
<1> QED BY <1>2, <1>4, <1>5, <1>6

LEMMA ProcessMirrors == MirrorInv /\ Process => MirrorInv'
<1> SUFFICES ASSUME MirrorInv, Process PROVE MirrorInv'
  OBVIOUS
<1>1. BridgeInv' /\ TypeOK
  BY ProcessKeeps DEF MirrorInv, BridgeInv
<1>2. core.up /\ UNCHANGED <<state, bridge, acked>>
  BY DEF Process
<1>3. PICK m \in wire : wire' = wire \ {m} /\ (Refuse(m) \/ AnswerKnown(m) \/ Apply(m))
  BY DEF Process
<1>4. PICK ack \in Answers : Processed(m, ack)
  BY <1>3, ProcessEffect
<1> DEFINE f == m.frame
           p == f.provider
<1>5. Numbered' /\ Cursors'
  BY <1>1, <1>2, <1>3, <1>4, ProcessedPast
<1>6. \A q \in Provider : (Shown(q) => Shown(q)') /\ (Dark(q) => Dark(q)')
  BY <1>2, <1>3, <1>4, ProcessedShows
<1>7. Composed' /\ Synchronising' /\ Synchronised' /\ ReadyIsIdle' /\ Fencing'
  BY <1>2, <1>6, LoopsStay
<1>8. /\ m.late => reply' = reply
      /\ ~m.late => reply' = ack /\ ack \notin {"stale", "collision"}
      /\ ~m.late /\ ack \in AcceptedAcks => f \in recorded'
      /\ recorded \subseteq recorded' /\ recorded' \subseteq recorded \union {f}
  BY <1>4 DEF Processed
<1>9. NeverStale'
  BY <1>8 DEF MirrorInv, NeverStale
<1>10. m.late \in BOOLEAN /\ ack # Nothing /\ f \in FrameType /\ p \in Provider
  BY <1>1, NothingAssumption, FrameFields DEF TypeOK
<1>11. ~m.late => bridge.pc = "await" /\ f = state.pending /\ reply = Nothing
  BY DEF MirrorInv, Connection
\* A second frame of the present connection would be the same.
<1>12. ASSUME NEW n \in wire, ~n.late, ~m.late PROVE n = m
  <2>1. n.frame = m.frame /\ n.late = m.late
    BY <1>1, <1>11, <1>12 DEF MirrorInv, Connection, TypeOK
  <2>2. n \in [late : BOOLEAN, frame : FrameType] /\ m \in [late : BOOLEAN, frame : FrameType]
    BY <1>1 DEF TypeOK
  <2> QED BY <2>1, <2>2
<1>13. Connection'
  <2>1. bridge.conn # "broken"
    BY DEF MirrorInv, Connection
  <2>2. ASSUME NEW n \in wire', ~n.late
        PROVE  bridge.pc = "await" /\ n.frame = state.pending /\ reply' = Nothing
    <3>1. n \in wire /\ n # m
      BY <1>3
    <3>2. bridge.pc = "await" /\ n.frame = state.pending /\ reply = Nothing
      BY <2>2, <3>1 DEF MirrorInv, Connection
    <3>3. m.late
      BY <1>10, <1>12, <2>2, <3>1
    <3> QED BY <1>8, <3>2, <3>3
  <2>3. reply' # Nothing => bridge.pc = "await"
    BY <1>8, <1>10, <1>11 DEF MirrorInv, Connection
  <2>4. reply' \in AcceptedAcks => state.pending \in recorded'
    BY <1>8, <1>10, <1>11 DEF MirrorInv, Connection
  <2>5. (Looping("tick") /\ state.pending # Nothing => bridge.resync)
        /\ (bridge.conn = "none" => bridge.resync /\ bridge.pc \in {"tick", "down"})
        /\ (bridge.pc = "down" => bridge.conn = "none")
    BY DEF MirrorInv, Connection
  <2> QED BY <1>2, <2>1, <2>2, <2>3, <2>4, <2>5 DEF Connection, Looping, AcceptedAcks
<1>14. \A q \in Provider : core.book.cursor[q] # Nothing => core'.book.cursor[q] # Nothing
  <2>1. core.book \in BookType /\ f # Nothing
    BY <1>1, <1>10, FrameFields DEF TypeOK
  <2>2. ASSUME core'.book.cursor = [core.book.cursor EXCEPT ![p] = f]
        PROVE  \A q \in Provider : core'.book.cursor[q] = IF q = p THEN f ELSE core.book.cursor[q]
    BY <1>10, <2>1, <2>2 DEF BookType
  <2> QED BY <1>4, <2>1, <2>2 DEF Processed
<1>15. NewFrame'
  <2>1. ASSUME bridge.pc = "send", bridge.after # "tick"
        PROVE  state.pending \notin recorded' /\ \A n \in wire' : n.frame # state.pending
    BY <1>3, <1>8, <2>1 DEF MirrorInv, NewFrame
  <2>2. ASSUME bridge.pc = "await", bridge.after # "tick"
        PROVE  /\ \A n \in wire' : n.frame = state.pending => ~n.late
               /\ reply' = Nothing => state.pending \notin recorded'
               /\ reply' \in AcceptedAcks /\ bridge.conn = "open" =>
                    core'.book.cursor[state.pending.provider] # Nothing
    <3>1. /\ \A n \in wire : n.frame = state.pending => ~n.late
          /\ reply = Nothing => state.pending \notin recorded
          /\ reply \in AcceptedAcks /\ bridge.conn = "open" =>
               core.book.cursor[state.pending.provider] # Nothing
      BY <2>2 DEF MirrorInv, NewFrame
    <3>2. reply' = Nothing => state.pending \notin recorded'
      BY <1>8, <1>10, <3>1
    <3>3. ASSUME reply' \in AcceptedAcks, bridge.conn = "open"
          PROVE  core'.book.cursor[state.pending.provider] # Nothing
      <4>1. CASE m.late
        <5>1. state.pending.provider \in Provider
          BY <1>1, <2>2, FrameFields DEF TypeOK, StateType
        <5> QED BY <1>8, <1>14, <3>1, <3>3, <4>1, <5>1
      <4>2. CASE ~m.late
        <5>1. f = state.pending /\ f \in recorded' /\ f \notin recorded
          BY <1>8, <1>11, <3>1, <3>3, <4>2
        <5> QED BY <1>4, <5>1 DEF Processed
      <4> QED BY <1>10, <4>1, <4>2
    <3> QED BY <1>3, <3>1, <3>2, <3>3
  <2> QED BY <1>2, <2>1, <2>2 DEF NewFrame, AcceptedAcks
<1> QED BY <1>1, <1>5, <1>7, <1>9, <1>13, <1>15 DEF MirrorInv

-----------------------------------------------------------------------------
(* The mirror *)

LEMMA InitMirrors == Init => MirrorInv
<1> SUFFICES ASSUME Init PROVE MirrorInv
  OBVIOUS
<1>1. BridgeInv
  BY Inits
<1>2. /\ wire = {} /\ recorded = {} /\ reply = Nothing /\ acked = {}
      /\ state.pending = Nothing /\ state.fenced = {}
  BY DEF Init, NewState
<1>3. /\ core.book = EmptyBook(Nothing) /\ core.book.seen = {}
      /\ \A p \in Provider : core.book.cursor[p] = Nothing
  BY DEF Init, EmptyBook
<1>4. Known = {}
  BY <1>2, <1>3 DEF Known
<1>5. Numbered /\ Cursors
  BY <1>2, <1>3, <1>4 DEF Numbered, Cursors
<1>6. /\ bridge.pc = "down" /\ bridge.conn = "none" /\ bridge.resync /\ bridge.phase = "boot"
  BY DEF Init, Stopped
<1>7. NeverStale /\ Connection
  BY <1>2, <1>6, NothingAssumption DEF NeverStale, Connection, Looping, Answers
<1>8. NewFrame /\ Composed /\ Synchronising /\ Synchronised /\ ReadyIsIdle
  BY <1>2, <1>6 DEF NewFrame, Composed, Synchronising, Synchronised, ReadyIsIdle, Looping
<1>9. Fencing
  BY <1>2, <1>6 DEF Fencing, Looping
<1> QED BY <1>1, <1>5, <1>7, <1>8, <1>9 DEF MirrorInv

LEMMA MirrorStep == MirrorInv /\ [Next]_vars => MirrorInv'
<1> SUFFICES ASSUME MirrorInv, [Next]_vars PROVE MirrorInv'
  OBVIOUS
<1>1. CASE SourceChanges \/ CoreStart \/ CoreCrash \/ Process
  BY <1>1, SourceChangesMirrors, CoreStartMirrors, CoreCrashMirrors, ProcessMirrors
<1>2. CASE Boot \/ Tick
  BY <1>2, BootMirrors, ConnectMirrors, ConnectFailsMirrors, RetryMirrors, ReadSourceMirrors,
     ReadHealthMirrors DEF Tick
<1>3. CASE Mirror
  BY <1>3, SyncMirrors, CompleteMirrors, FenceMirrors, FenceCompleteMirrors DEF Mirror
<1>4. CASE Crash \/ LaneFailure \/ Exchange
  BY <1>4, DropsMirror, SendMirrors, AcceptedMirrors DEF Exchange
<1>5. CASE UNCHANGED vars
  <2>1. UNCHANGED <<state, bridge, core, recorded, wire, reply, acked>> /\ core.up \in BOOLEAN
    BY <1>5 DEF vars, MirrorInv, BridgeInv, TypeOK
  <2>2. BridgeInv'
    BY <1>5, BridgeInductive DEF MirrorInv
  <2> QED BY <2>1, <2>2, SameBookMirrors
<1> QED BY <1>1, <1>2, <1>3, <1>4, <1>5 DEF Next, BridgeStep

\* The inductive invariant behind the mirror: it holds in every behaviour of the
\* bridge, its Core and the files, whatever dies, is lost or arrives late.
THEOREM MirrorInvariant == Spec => []MirrorInv
<1> QED BY InitMirrors, MirrorStep, PTL DEF Spec

\* Core never answers the bridge that a frame is stale or collides
\* (BridgeRuntime::send_pending, QuoteBook::apply).
THEOREM NoStaleAnswer == Spec => []NeverStale
<1>1. MirrorInv => NeverStale
  BY DEF MirrorInv
<1> QED BY <1>1, MirrorInvariant, PTL

\* READY means that both providers were acknowledged on this connection and that
\* Core shows what the completed document maps to (handle_document).
THEOREM ReadyIsMirrored == Spec => []ReadyMirrors
<1>1. MirrorInv => ReadyMirrors
  <2> SUFFICES ASSUME MirrorInv, bridge.phase = "ready"
               PROVE  /\ acked = Provider
                      /\ SamePeer => \A p \in Provider :
                           /\ core.book.cursor[p] # Nothing
                           /\ core.book.cursor[p].content = Mapped(p, state.doneSource, bridge.health)
    BY DEF ReadyMirrors
  <2>1. bridge.pc \in {"tick", "health"} /\ ~bridge.resync /\ state.failure = Nothing
    BY DEF MirrorInv, ReadyIsIdle
  <2>2. InFlight = {}
    BY <2>1 DEF InFlight
  <2>3. /\ acked = Provider
        /\ SamePeer => \A p \in Provider : Shown(p)
        /\ \A p \in Provider : state.hash[p] = Mapped(p, state.doneSource, bridge.health)
    BY <2>1, <2>2 DEF MirrorInv, Synchronised
  <2> QED BY <2>3 DEF Shown
<1> QED BY <1>1, MirrorInvariant, PTL

\* No provider of a source that failed is live in Core's book between two ticks
\* (handle_source_failure).
THEOREM FenceStands == Spec => []FenceHolds
<1>1. MirrorInv => FenceHolds
  <2> SUFFICES ASSUME MirrorInv, state.failure # Nothing, bridge.pc = "tick", ~bridge.resync,
                      NEW p \in Provider
               PROVE  ~ShownLive(core.book, p, Nothing)
    BY DEF FenceHolds
  <2>1. bridge.conn # "none" /\ state.fenced = Provider
    BY DEF MirrorInv, Connection, Fencing
  <2>2. Dark(p)
    BY <2>1 DEF MirrorInv, Fencing, Looping
  <2> QED BY <2>2 DEF Dark, ShownLive
<1> QED BY <1>1, MirrorInvariant, PTL
=============================================================================
