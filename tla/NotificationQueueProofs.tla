---------------------- MODULE NotificationQueueProofs ----------------------
(***************************************************************************)
(* Theorems about NotificationQueue with TLAPS, for any events, rows and   *)
(* bounds: the types, what backs a status, and for every row that only the *)
(* worker delivers that it is sent once, remembered, and not begun anew    *)
(* after its cancellation.                                                 *)
(***************************************************************************)
EXTENDS NotificationQueue, TLAPS, FiniteSetTheorems, WellFoundedInduction

-----------------------------------------------------------------------------
(* The inductive invariant *)

RowType ==
    [status : {"absent", "pending", "processing", "delivered", "failed", "uncertain"},
     cancelled : BOOLEAN]

Stored ==
    /\ row \in [Row -> RowType]
    /\ attempts \in Seq(AttemptType)
    /\ fence \subseteq Event /\ accepted \subseteq Event
    /\ tasks \in [Task -> Nat]
    /\ producer \in [Event -> {"idle", "insert", "schedule"}]
    /\ canceller \in [Event -> [pc : {"idle", "mark"}, rows : SUBSET Row]]
    /\ lapsed \subseteq Event /\ received \subseteq DOMAIN attempts

\* Between two rows.
Resting == {"startup", "recover", "reschedule", "idle", "next"}

\* From begin_attempt's first read to its transaction, and from there to settle.
Reading == {"lapse", "count", "write"}
Trying == {"begun", "send", "settle"}

\* Where a consumer relies on what it has read.
Busy == Reading \union Trying \union {"recover"}

\* What consumer c may stand at, over the attempts a and the lapsed events l:
\* a job only handles the rows of its own event.
Sound(c, k, a, l) ==
    /\ k \in ConsumerType
    /\ c # Huey => /\ k.todo \subseteq RowsOf(c) /\ k.pc \notin {"startup", "reschedule"}
                   /\ k.pc \notin Resting => k.row \in RowsOf(c)
    /\ k.pc \notin Resting => k.row \in Row
    /\ k.pc = "lapse" => EventOf[k.row] \in l
    /\ k.pc = "write" => k.no > 0
    /\ k.pc = "settle" => k.result # "none"
    /\ k.pc \in Trying => k.id \in DOMAIN a /\ a[k.id].row = k.row
    /\ k.pc = "recover" => /\ c = Huey /\ k.row \notin Row
                           /\ k.found \subseteq DOMAIN a /\ k.started \subseteq k.found

Steady ==
    /\ consumer \in [Consumer -> ConsumerType]
    /\ \A c \in Consumer : Sound(c, consumer[c], attempts, lapsed)

\* The attempts of row r in the table a.
Of(a, r) == {i \in DOMAIN a : a[i].row = r}

\* StatusBacked of one row that stands at w.
Backed(r, w, a, l) ==
    /\ w.status = "delivered" => \E i \in Of(a, r) : a[i].outcome \in {"ok", "quiet"}
    /\ w.status = "uncertain" => \E i \in Of(a, r) : a[i].outcome = "unknown"
    /\ w.status = "failed" =>
         \/ w.cancelled \/ EventOf[r] \in l
         \/ \E i \in Of(a, r) : a[i].outcome \in {"refused", "permanent", "interrupted"}

\* What reached its recipient stays visible in the row, or in the open attempt
\* of a row in process.
Visible(r, w, a, got) ==
    /\ \A i \in got \intersect Of(a, r) :
         /\ a[i].started
         /\ \/ w.cancelled \/ w.status \in {"delivered", "uncertain"}
            \/ w.status = "processing" /\ a[i].open
    /\ \A i, j \in got \intersect Of(a, r) : i = j

\* A row that is not cancelled has at most one open attempt, while in process.
OneOpen(r, w, a) ==
    \/ w.cancelled
    \/ \A i, j \in Of(a, r) : a[i].open /\ a[j].open => w.status = "processing" /\ i = j

\* A cancelled row has at most one attempt that began after its cancellation.
OneLate(r, w, a) ==
    /\ \A i \in Of(a, r) : a[i].late => w.cancelled
    /\ \A i, j \in Of(a, r) : a[i].late /\ a[j].late => i = j

\* What the worker, which stands at k, knows of the row it is busy with: nothing was
\* sent before it sends, whatever cancellers have done to the row since it was read.
Knows(r, w, a, got, k) ==
    k.row = r =>
      /\ k.pc \in Reading =>
           /\ got \intersect Of(a, r) = {}
           /\ w.cancelled \/ w.status \notin Resolved
           /\ \A i \in Of(a, r) : ~a[i].late
      /\ k.pc \in {"begun", "send"} => got \intersect Of(a, r) = {}
      /\ k.pc \in Trying =>
           /\ k.id \in Of(a, r)
           /\ w.cancelled \/ (w.status = "processing" /\ a[k.id].open)
      /\ k.pc = "send" => a[k.id].started
      /\ k.pc = "settle" =>
           /\ k.result # "quiet" => a[k.id].started
           /\ \A i \in got \intersect Of(a, r) : i = k.id /\ k.result \in {"ok", "unknown"}

WorkerOK(r, w, a, got, k) ==
    Visible(r, w, a, got) /\ OneOpen(r, w, a) /\ OneLate(r, w, a) /\ Knows(r, w, a, got, k)

\* What recovery, which stands at k, has read of the attempts of a row of the
\* worker is still true: only a canceller can have touched the row.
Recalls(r, w, a, k) ==
    k.pc = "recover" =>
      \A i \in k.found \intersect Of(a, r) :
        /\ a[i].open
        /\ a[i].started <=> i \in k.started
        /\ w.cancelled \/ w.status = "processing"

QueueInv ==
    /\ Stored /\ Steady
    /\ \A r \in Row : Backed(r, row[r], attempts, lapsed)
    /\ \A r \in WorkerRow : /\ WorkerOK(r, row[r], attempts, received, consumer[Huey])
                            /\ Recalls(r, row[r], attempts, consumer[Huey])

-----------------------------------------------------------------------------
(* Numbers and tables *)

\* A non-empty set of numbers with an upper bound has a maximum.
LEMMA MaxOfBounded ==
    ASSUME NEW n \in Nat, NEW S \in SUBSET (0 .. n), S # {}
    PROVE  Max(S) \in S /\ \A x \in S : x <= Max(S)
<1> DEFINE T == {n - x : x \in S}
           R == {ss \in Nat \X Nat : ss[1] < ss[2]}
<1>1. \A x \in S : n - x \in Nat
  OBVIOUS
<1>2. T \subseteq Nat /\ T # {}
  BY <1>1
<1> HIDE DEF T
<1>3. IsWellFoundedOn(R, Nat)
  BY NatLessThanWellFounded DEF OpToRel
<1> HIDE DEF R
<1>4. \E t \in T : \A u \in T : ~(<<u, t>> \in R)
  BY <1>2, <1>3, WFMin
<1>5. PICK t \in T : \A u \in T : ~(<<u, t>> \in R)
  BY <1>4
<1>6. \A u \in T : t <= u
  <2>1. \A u \in Nat : u < t => <<u, t>> \in R
    BY <1>2 DEF R
  <2>2. \A u \in Nat : t \in Nat /\ (~(u < t) => t <= u)
    BY <1>2
  <2> QED BY <1>2, <1>5, <2>1, <2>2
<1> USE DEF T
<1>7. PICK m \in S : t = n - m
  OBVIOUS
<1>8. \A x \in S : m >= x
  <2> SUFFICES ASSUME NEW x \in S PROVE m >= x
    OBVIOUS
  <2>1. n - m <= n - x
    BY <1>6, <1>7
  <2> QED BY <2>1
<1>9. \E x \in S : \A y \in S : x >= y
  BY <1>8
<1>10. Max(S) \in S /\ \A y \in S : Max(S) >= y
  BY <1>9 DEF Max
<1> QED BY <1>10

LEMMA SeqFacts ==
    ASSUME NEW S, NEW s \in Seq(S)
    PROVE  /\ DOMAIN s = 1 .. Len(s) /\ Len(s) \in Nat
           /\ \A i \in DOMAIN s : s[i] \in S
OBVIOUS

LEMMA AppendFacts ==
    ASSUME NEW S, NEW s \in Seq(S), NEW x \in S
    PROVE  LET n == Len(s) + 1
               t == Append(s, x)
           IN  /\ t \in Seq(S) /\ n \in Nat /\ n \notin DOMAIN s /\ DOMAIN t = DOMAIN s \union {n}
               /\ t[n] = x /\ \A i \in DOMAIN s : t[i] = s[i]
OBVIOUS

LEMMA ReplaceFacts ==
    ASSUME NEW S, NEW s \in Seq(S), NEW i \in DOMAIN s, NEW x \in S
    PROVE  LET t == [s EXCEPT ![i] = x]
           IN  /\ t \in Seq(S) /\ DOMAIN t = DOMAIN s /\ t[i] = x
               /\ \A j \in DOMAIN s \ {i} : t[j] = s[j]
OBVIOUS

LEMMA MapFacts ==
    ASSUME NEW S, NEW s \in Seq(S), NEW t, t = [i \in DOMAIN s |-> t[i]], \A i \in DOMAIN s : t[i] \in S
    PROVE  t \in Seq(S) /\ DOMAIN t = DOMAIN s
OBVIOUS
\* SELECT max(attempt_no) + 1 is a positive number.
LEMMA NextNoPositive ==
    ASSUME Stored, NEW r
    PROVE  NextNo(r) \in Nat /\ NextNo(r) > 0
<1> DEFINE S == {0} \union {attempts[i].no : i \in AttemptsOf(r)}
<1>1. MaxDelivery \in Nat
  BY QueueAssumption
<1>2. \A i \in AttemptsOf(r) : attempts[i] \in AttemptType
  BY SeqFacts DEF Stored, AttemptsOf
<1>3. \A i \in AttemptsOf(r) : attempts[i].no \in 1 .. MaxDelivery
  BY <1>2 DEF AttemptType
<1>4. S \in SUBSET (0 .. MaxDelivery) /\ S # {}
  BY <1>1, <1>3
<1> HIDE DEF S
<1>5. Max(S) \in 0 .. MaxDelivery
  BY <1>1, <1>4, MaxOfBounded
<1>6. NextNo(r) = Max(S) + 1
  BY DEF NextNo, S
<1> QED BY <1>1, <1>5, <1>6

-----------------------------------------------------------------------------
(* One row of the worker *)

\* Nobody touches the attempts of the row; the row is stored or cancelled at most,
\* and the worker stands where it stood or is busy with another row.
LEMMA RowStays ==
    ASSUME NEW r, NEW w, NEW a, NEW got, NEW k, WorkerOK(r, w, a, got, k),
           NEW v, NEW b, NEW had, NEW n,
           \/ v = w \/ v = [status |-> "failed", cancelled |-> TRUE]
           \/ w = AbsentRow /\ v = PendingRow,
           Of(b, r) = Of(a, r), \A i \in Of(a, r) : b[i] = a[i],
           had \intersect Of(a, r) = got \intersect Of(a, r),
           n = k \/ n.row # r \/ n.pc \notin Busy
    PROVE  WorkerOK(r, v, b, had, n)
<1>1. /\ w = AbsentRow => w.status = "absent" /\ ~w.cancelled
      /\ v = PendingRow => v.status = "pending" /\ ~v.cancelled
      /\ v = [status |-> "failed", cancelled |-> TRUE] => v.cancelled
  BY DEF AbsentRow, PendingRow
<1>2. Visible(r, v, b, had)
  BY <1>1 DEF WorkerOK, Visible
<1>3. OneOpen(r, v, b)
  BY <1>1 DEF WorkerOK, OneOpen
<1>4. OneLate(r, v, b)
  BY <1>1 DEF WorkerOK, OneLate
<1>5. Knows(r, v, b, had, n)
  BY <1>1 DEF WorkerOK, Knows, Busy, Reading, Trying, Resolved
<1> QED BY <1>2, <1>3, <1>4, <1>5 DEF WorkerOK

\* begin_attempt finds the row due.
LEMMA RowDue ==
    ASSUME NEW r, NEW w, NEW a, NEW got, NEW k, WorkerOK(r, w, a, got, k),
           ~w.cancelled, w.status \notin Resolved, NEW n, n.pc \in Reading
    PROVE  WorkerOK(r, w, a, got, n)
<1>1. got \intersect Of(a, r) = {}
  BY DEF WorkerOK, Visible, Resolved
<1>2. \A i \in Of(a, r) : ~a[i].late
  BY DEF WorkerOK, OneLate
<1> QED BY <1>1, <1>2 DEF WorkerOK, Knows, Reading, Trying

LEMMA RowExpires ==
    ASSUME NEW r, NEW w \in RowType, NEW a, NEW got, NEW k, WorkerOK(r, w, a, got, k),
           k.row = r, k.pc \in Reading, NEW n, n.pc \notin Busy
    PROVE  WorkerOK(r, [w EXCEPT !.status = "failed"], a, got, n)
<1> DEFINE v == [w EXCEPT !.status = "failed"]
<1>1. v.cancelled = w.cancelled
  BY DEF RowType
<1>2. got \intersect Of(a, r) = {} /\ (w.cancelled \/ w.status # "processing")
  BY DEF WorkerOK, Knows, Resolved
<1>3. Visible(r, v, a, got)
  BY <1>2 DEF Visible
<1>4. OneOpen(r, v, a)
  BY <1>1, <1>2 DEF WorkerOK, OneOpen
<1>5. OneLate(r, v, a)
  BY <1>1 DEF WorkerOK, OneLate
<1>6. Knows(r, v, a, got, n)
  BY DEF Knows, Busy, Trying
<1> QED BY <1>3, <1>4, <1>5, <1>6 DEF WorkerOK

\* The transaction of begin_attempt adds attempt x at the end of the table.
LEMMA RowBegins ==
    ASSUME NEW r, NEW w \in RowType, NEW a, NEW got, NEW k, WorkerOK(r, w, a, got, k),
           k.row = r, k.pc \in Reading, NEW b, NEW x, x \notin DOMAIN a, x \notin got,
           DOMAIN b = DOMAIN a \union {x}, \A i \in DOMAIN a : b[i] = a[i],
           b[x].row = r, b[x].open, ~b[x].started, b[x].late = w.cancelled,
           NEW n, n.pc = "begun", n.id = x
    PROVE  WorkerOK(r, [w EXCEPT !.status = "processing"], b, got, n)
<1> DEFINE v == [w EXCEPT !.status = "processing"]
<1>1. v.cancelled = w.cancelled /\ v.status = "processing" /\ w.cancelled \in BOOLEAN
  BY DEF RowType
<1>2. Of(b, r) = Of(a, r) \union {x} /\ x \notin Of(a, r)
  BY DEF Of
<1>3. \A i \in Of(a, r) : b[i] = a[i]
  BY DEF Of
<1>4. /\ got \intersect Of(a, r) = {}
      /\ w.cancelled \/ w.status # "processing"
      /\ \A i \in Of(a, r) : ~a[i].late
  BY DEF WorkerOK, Knows, Resolved
<1>5. got \intersect Of(b, r) = {}
  BY <1>2, <1>4
<1> HIDE DEF v
<1>6. Visible(r, v, b, got)
  BY <1>5 DEF Visible
<1>7. OneOpen(r, v, b)
  <2>1. ASSUME ~w.cancelled, NEW i \in Of(a, r) PROVE ~a[i].open
    BY <1>4, <2>1 DEF WorkerOK, OneOpen
  <2> QED BY <1>1, <1>2, <1>3, <2>1 DEF OneOpen
<1>8. OneLate(r, v, b)
  BY <1>1, <1>2, <1>3, <1>4 DEF OneLate
<1>9. Knows(r, v, b, got, n)
  BY <1>1, <1>2, <1>5 DEF Knows, Reading, Trying
<1> QED BY <1>6, <1>7, <1>8, <1>9 DEF WorkerOK, v

LEMMA RowQuiet ==
    ASSUME NEW r, NEW w, NEW a, NEW got, NEW k, WorkerOK(r, w, a, got, k),
           k.row = r, k.pc = "begun", NEW n, n.pc = "settle", n.id = k.id, n.result = "quiet"
    PROVE  WorkerOK(r, w, a, got, n)
BY DEF WorkerOK, Knows, Reading, Trying

LEMMA RowStarts ==
    ASSUME NEW r, NEW w, NEW a, NEW got, NEW k, WorkerOK(r, w, a, got, k),
           k.row = r, k.pc = "begun", NEW b, DOMAIN b = DOMAIN a,
           \A i \in DOMAIN a : b[i].row = a[i].row /\ b[i].open = a[i].open /\ b[i].late = a[i].late,
           b[k.id].started, NEW n, n.pc = "send", n.id = k.id
    PROVE  WorkerOK(r, w, b, got, n)
<1>1. Of(b, r) = Of(a, r) /\ \A i \in Of(a, r) : b[i].open = a[i].open /\ b[i].late = a[i].late
  BY DEF Of
<1>2. got \intersect Of(a, r) = {} /\ k.id \in Of(a, r)
      /\ (w.cancelled \/ (w.status = "processing" /\ a[k.id].open))
  BY DEF WorkerOK, Knows, Trying
<1>3. Visible(r, w, b, got)
  BY <1>1, <1>2 DEF Visible
<1>4. OneOpen(r, w, b) /\ OneLate(r, w, b)
  BY <1>1 DEF WorkerOK, OneOpen, OneLate
<1>5. Knows(r, w, b, got, n)
  BY <1>1, <1>2 DEF Knows, Reading, Trying
<1> QED BY <1>3, <1>4, <1>5 DEF WorkerOK

LEMMA RowSends ==
    ASSUME NEW r, NEW w, NEW a, NEW got, NEW k, WorkerOK(r, w, a, got, k),
           k.row = r, k.pc = "send", NEW had, NEW n, n.pc = "settle", n.id = k.id,
           had = got \/ (had = got \union {k.id} /\ n.result \in {"ok", "unknown"})
    PROVE  WorkerOK(r, w, a, had, n)
<1>1. /\ got \intersect Of(a, r) = {} /\ k.id \in Of(a, r) /\ a[k.id].started
      /\ w.cancelled \/ (w.status = "processing" /\ a[k.id].open)
  BY DEF WorkerOK, Knows, Trying
<1>2. \A i \in had \intersect Of(a, r) : i = k.id /\ n.result \in {"ok", "unknown"}
  BY <1>1
<1>3. Visible(r, w, a, had)
  BY <1>1, <1>2 DEF Visible
<1>4. Knows(r, w, a, had, n)
  BY <1>1, <1>2 DEF Knows, Reading, Trying
<1> QED BY <1>3, <1>4 DEF WorkerOK

\* settle closes the attempt with the status of its result.
LEMMA RowSettles ==
    ASSUME NEW r, NEW w \in RowType, NEW a, NEW got, NEW k, WorkerOK(r, w, a, got, k),
           k.row = r, k.pc = "settle", NEW b, DOMAIN b = DOMAIN a,
           \A i \in DOMAIN a : b[i].row = a[i].row /\ b[i].started = a[i].started /\ b[i].late = a[i].late,
           \A i \in DOMAIN a \ {k.id} : b[i].open = a[i].open, ~b[k.id].open,
           NEW s, k.result = "ok" => s = "delivered", k.result = "unknown" => s = "uncertain",
           NEW n, n.pc \notin Busy
    PROVE  WorkerOK(r, [w EXCEPT !.status = s], b, got, n)
<1> DEFINE v == [w EXCEPT !.status = s]
<1>1. v.cancelled = w.cancelled /\ v.status = s
  BY DEF RowType
<1>2. /\ Of(b, r) = Of(a, r)
      /\ \A i \in Of(a, r) : b[i].started = a[i].started /\ b[i].late = a[i].late
      /\ \A i \in Of(a, r) \ {k.id} : b[i].open = a[i].open
  BY DEF Of
<1>3. /\ k.id \in Of(a, r) /\ (w.cancelled \/ a[k.id].open)
      /\ \A i \in got \intersect Of(a, r) : i = k.id /\ k.result \in {"ok", "unknown"}
  BY DEF WorkerOK, Knows, Trying
<1> HIDE DEF v
<1>4. Visible(r, v, b, got)
  BY <1>1, <1>2, <1>3 DEF WorkerOK, Visible
<1>5. OneOpen(r, v, b)
  <2>1. ASSUME ~w.cancelled, NEW i \in Of(b, r) PROVE ~b[i].open
    BY <1>2, <1>3, <2>1 DEF WorkerOK, OneOpen
  <2> QED BY <1>1, <2>1 DEF OneOpen
<1>6. OneLate(r, v, b)
  BY <1>1, <1>2 DEF WorkerOK, OneLate
<1>7. Knows(r, v, b, got, n)
  BY DEF Knows, Busy, Trying
<1> QED BY <1>4, <1>5, <1>6, <1>7 DEF WorkerOK, v

\* The recovery closes attempt x of a row in process.  When the transport of x
\* had started the row is uncertain, and what reached its recipient was started.
LEMMA RowRecovers ==
    ASSUME NEW r, NEW w \in RowType, NEW a, NEW got, NEW k, WorkerOK(r, w, a, got, k),
           w.cancelled \/ w.status = "processing", NEW x \in Of(a, r), a[x].open,
           NEW b, DOMAIN b = DOMAIN a,
           \A i \in DOMAIN a : b[i].row = a[i].row /\ b[i].started = a[i].started /\ b[i].late = a[i].late,
           \A i \in DOMAIN a : b[i].open => a[i].open, ~b[x].open,
           NEW s, s = "uncertain" \/ ~a[x].started,
           NEW n, n.pc \notin Busy
    PROVE  WorkerOK(r, [w EXCEPT !.status = s], b, got, n)
<1> DEFINE v == [w EXCEPT !.status = s]
<1>1. v.cancelled = w.cancelled /\ v.status = s
  BY DEF RowType
<1>2. /\ Of(b, r) = Of(a, r)
      /\ \A i \in Of(a, r) : b[i].started = a[i].started /\ b[i].late = a[i].late
  BY DEF Of
<1> HIDE DEF v
<1>3. ASSUME ~w.cancelled, NEW i \in Of(a, r), a[i].open PROVE i = x
  BY <1>3 DEF WorkerOK, OneOpen
<1>4. ASSUME ~w.cancelled, NEW i \in got \intersect Of(a, r) PROVE s = "uncertain"
  <2>1. a[i].started /\ a[i].open
    BY <1>4 DEF WorkerOK, Visible
  <2> QED BY <1>3, <1>4, <2>1
<1>5. Visible(r, v, b, got)
  BY <1>1, <1>2, <1>4 DEF WorkerOK, Visible
<1>6. OneOpen(r, v, b)
  <2>1. ASSUME ~w.cancelled, NEW i \in Of(b, r) PROVE ~b[i].open
    BY <1>2, <1>3, <2>1 DEF Of
  <2> QED BY <1>1, <2>1 DEF OneOpen
<1>7. OneLate(r, v, b)
  BY <1>1, <1>2 DEF WorkerOK, OneLate
<1>8. Knows(r, v, b, got, n)
  BY DEF Knows, Busy, Trying
<1> QED BY <1>5, <1>6, <1>7, <1>8 DEF WorkerOK, v

\* Nobody touches the attempts of the row, and recovery stands where it stood or
\* has no part in it.
LEMMA RecallStays ==
    ASSUME NEW r, NEW w, NEW a, NEW k, Recalls(r, w, a, k), NEW v, NEW b, NEW n,
           \/ v = w \/ v = [status |-> "failed", cancelled |-> TRUE]
           \/ w = AbsentRow /\ v = PendingRow,
           Of(b, r) = Of(a, r), \A i \in Of(a, r) : b[i] = a[i],
           n = k \/ n.pc # "recover"
    PROVE  Recalls(r, v, b, n)
<1>1. /\ w = AbsentRow => w.status = "absent" /\ ~w.cancelled
      /\ v = [status |-> "failed", cancelled |-> TRUE] => v.cancelled
  BY DEF AbsentRow
<1> QED BY <1>1 DEF Recalls

-----------------------------------------------------------------------------
(* Frames *)

\* A consumer is as sound as before when the table and the lapsed events grow.
LEMMA SoundStays ==
    ASSUME NEW c, NEW k, NEW a, NEW l, Sound(c, k, a, l), NEW b, NEW m, l \subseteq m,
           DOMAIN a \subseteq DOMAIN b, \A i \in DOMAIN a : b[i].row = a[i].row
    PROVE  Sound(c, k, b, m)
BY DEF Sound

LEMMA BackedStays ==
    ASSUME NEW r, NEW w, NEW a, NEW l, Backed(r, w, a, l), NEW b, NEW m, l \subseteq m,
           Of(a, r) \subseteq Of(b, r), \A i \in Of(a, r) : b[i].outcome = a[i].outcome
    PROVE  Backed(r, w, b, m)
BY DEF Backed

LEMMA ReadyType == Ready \in ConsumerType
BY QueueAssumption DEF Ready, ConsumerType

LEMMA ReadySound ==
    ASSUME NEW c \in Consumer, NEW a, NEW l
    PROVE  Sound(c, Ready, a, l) /\ Ready.pc \notin Busy
<1>1. Ready \in ConsumerType
  BY ReadyType
<1>2. Ready.pc = "idle" /\ Ready.todo = {}
  BY DEF Ready
<1> QED BY <1>1, <1>2 DEF Sound, Resting, Trying, Reading, Busy

\* Where a consumer goes when it is done with a row.
LEMMA DoneSound ==
    ASSUME QueueInv, NEW c \in Consumer, NEW a, NEW l
    PROVE  Sound(c, Done(c), a, l) /\ Done(c).pc \notin Busy
<1>1. PICK t : t = consumer[c].todo
  OBVIOUS
<1>2. consumer[c] \in ConsumerType /\ t \subseteq Row /\ (c # Huey => t \subseteq RowsOf(c))
  BY <1>1 DEF QueueInv, Steady, Sound, ConsumerType
<1> DEFINE k == [Ready EXCEPT !.pc = "next", !.todo = t]
<1>3. k \in ConsumerType /\ k.pc = "next" /\ k.todo = t
  BY <1>2, ReadyType DEF ConsumerType
<1>4. Sound(c, k, a, l) /\ k.pc \notin Busy
  <2> HIDE DEF k
  <2> QED BY <1>2, <1>3 DEF Sound, Resting, Trying, Reading, Busy
<1> QED BY <1>1, <1>4, ReadySound DEF Done

\* Steps that leave the attempts alone, store or cancel rows at most, and put no
\* consumer to work on a row.
LEMMA AsideKeeps ==
    ASSUME QueueInv, UNCHANGED <<attempts, received>>, Stored', lapsed \subseteq lapsed',
           consumer' \in [Consumer -> ConsumerType],
           \A r \in Row : \/ row'[r] = row[r]
                          \/ row'[r] = [status |-> "failed", cancelled |-> TRUE]
                          \/ row[r] = AbsentRow /\ row'[r] = PendingRow,
           \A c \in Consumer : \/ consumer'[c] = consumer[c]
                               \/ /\ Sound(c, consumer'[c], attempts', lapsed')
                                  /\ consumer'[c].pc \notin Busy
    PROVE  QueueInv'
<1>1. Huey \in Consumer
  BY DEF Consumer
<1>2. \A c \in Consumer : Sound(c, consumer'[c], attempts', lapsed')
  <2> SUFFICES ASSUME NEW c \in Consumer, consumer'[c] = consumer[c]
               PROVE  Sound(c, consumer'[c], attempts', lapsed')
    OBVIOUS
  <2>1. Sound(c, consumer[c], attempts, lapsed)
    BY DEF QueueInv, Steady
  <2> QED BY <2>1, SoundStays
<1>3. ASSUME NEW r \in Row PROVE Backed(r, row'[r], attempts', lapsed')
  <2>1. Backed(r, row[r], attempts, lapsed)
    BY DEF QueueInv
  <2>2. CASE row'[r] = row[r]
    BY <2>1, <2>2, BackedStays
  <2>3. CASE row'[r] = [status |-> "failed", cancelled |-> TRUE]
    BY <2>3 DEF Backed
  <2>4. CASE row'[r] = PendingRow
    BY <2>4 DEF Backed, PendingRow, AbsentRow
  <2> QED BY <2>2, <2>3, <2>4
<1>4. ASSUME NEW r \in WorkerRow
      PROVE  WorkerOK(r, row'[r], attempts', received', consumer'[Huey])
  <2>1. WorkerOK(r, row[r], attempts, received, consumer[Huey]) /\ r \in Row
    BY DEF QueueInv, WorkerRow
  <2>2. consumer'[Huey] = consumer[Huey] \/ consumer'[Huey].pc \notin Busy
    BY <1>1
  <2>3. PICK w, v, a, k, n, got : /\ w = row[r] /\ v = row'[r] /\ a = attempts
                                  /\ k = consumer[Huey] /\ n = consumer'[Huey] /\ got = received
    OBVIOUS
  <2>4. WorkerOK(r, v, a, got, n)
    BY <2>1, <2>2, <2>3, RowStays
  <2> QED BY <2>3, <2>4
<1>5. ASSUME NEW r \in WorkerRow PROVE Recalls(r, row'[r], attempts', consumer'[Huey])
  <2>1. Recalls(r, row[r], attempts, consumer[Huey]) /\ r \in Row
    BY DEF QueueInv, WorkerRow
  <2>2. consumer'[Huey] = consumer[Huey] \/ consumer'[Huey].pc # "recover"
    BY <1>1 DEF Busy
  <2>3. PICK w, v, a, k, n : /\ w = row[r] /\ v = row'[r] /\ a = attempts
                             /\ k = consumer[Huey] /\ n = consumer'[Huey]
    OBVIOUS
  <2>4. Recalls(r, v, a, n)
    BY <2>1, <2>2, <2>3, RecallStays
  <2> QED BY <2>3, <2>4
<1>6. Steady'
  BY <1>2 DEF Steady
<1> QED BY <1>3, <1>4, <1>5, <1>6 DEF QueueInv, WorkerRow

\* A step of consumer c with the row q it is busy with: q becomes w, the
\* consumer k, and the other rows keep their attempts.
LEMMA DeliverKeeps ==
    ASSUME QueueInv, NEW c \in Consumer, NEW q \in Row, NEW w \in RowType, NEW k,
           consumer[c].pc \notin Resting, consumer[c].row = q,
           row' = [row EXCEPT ![q] = w], consumer' = [consumer EXCEPT ![c] = k],
           attempts' \in Seq(AttemptType), DOMAIN attempts \subseteq DOMAIN attempts',
           \A i \in DOMAIN attempts : attempts'[i].row = attempts[i].row,
           \A i \in DOMAIN attempts' \ DOMAIN attempts : attempts'[i].row = q,
           \A i \in DOMAIN attempts : attempts[i].row # q => attempts'[i] = attempts[i],
           received' \subseteq DOMAIN attempts',
           \A i \in DOMAIN attempts : attempts[i].row # q => (i \in received' <=> i \in received),
           UNCHANGED <<fence, accepted, tasks, producer, canceller, lapsed>>,
           k.row = q \/ k.pc \notin Busy,
           Sound(c, k, attempts', lapsed), Backed(q, w, attempts', lapsed),
           c = Huey /\ q \in WorkerRow => WorkerOK(q, w, attempts', received', k)
    PROVE  QueueInv'
<1>1. Stored /\ Steady /\ Huey \in Consumer
  BY DEF QueueInv, Consumer
<1>2. \A r \in Row : row'[r] = IF r = q THEN w ELSE row[r]
  BY <1>1 DEF Stored
<1>3. \A d \in Consumer : consumer'[d] = IF d = c THEN k ELSE consumer[d]
  BY <1>1 DEF Steady
<1>4. k \in ConsumerType
  BY DEF Sound
<1>5. Stored'
  BY <1>1 DEF Stored
<1>6. Steady'
  <2>1. consumer' \in [Consumer -> ConsumerType]
    BY <1>1, <1>4 DEF Steady
  <2>2. ASSUME NEW d \in Consumer PROVE Sound(d, consumer'[d], attempts', lapsed')
    <3>1. Sound(d, consumer[d], attempts, lapsed)
      BY <1>1 DEF Steady
    <3>2. Sound(d, consumer[d], attempts', lapsed')
      BY <3>1, SoundStays
    <3> QED BY <1>3, <3>2
  <2> QED BY <2>1, <2>2 DEF Steady
<1>7. ASSUME NEW r \in Row, r # q
      PROVE  Of(attempts', r) = Of(attempts, r) /\ \A i \in Of(attempts, r) : attempts'[i] = attempts[i]
  BY <1>7 DEF Of
<1>8. ASSUME NEW r \in Row PROVE Backed(r, row'[r], attempts', lapsed')
  <2>1. CASE r = q
    BY <1>2, <2>1
  <2>2. CASE r # q
    <3>1. Backed(r, row[r], attempts, lapsed)
      BY DEF QueueInv
    <3>2. Backed(r, row[r], attempts', lapsed')
      BY <1>7, <2>2, <3>1, BackedStays
    <3> QED BY <1>2, <2>2, <3>2
  <2> QED BY <2>1, <2>2
<1>9. ASSUME NEW r \in WorkerRow
      PROVE  WorkerOK(r, row'[r], attempts', received', consumer'[Huey])
  <2>1. r \in Row /\ WorkerOK(r, row[r], attempts, received, consumer[Huey])
    BY DEF QueueInv, WorkerRow
  <2>2. CASE r = q
    <3>1. c = Huey
      <4> SUFFICES ASSUME c # Huey PROVE FALSE
        OBVIOUS
      <4>1. q \in RowsOf(c) /\ c \in Inline
        BY <1>1 DEF Steady, Sound, Consumer
      <4> QED BY <2>2, <4>1 DEF RowsOf, WorkerRow
    <3> QED BY <1>2, <1>3, <2>1, <2>2, <3>1
  <2>3. CASE r # q
    <3>1. consumer'[Huey] = consumer[Huey] \/ consumer'[Huey].row # r \/ consumer'[Huey].pc \notin Busy
      BY <1>1, <1>3, <2>3
    <3>2. received' \intersect Of(attempts, r) = received \intersect Of(attempts, r)
      BY <2>3 DEF Of
    <3>3. PICK v, a, b, h, n, got, had :
            /\ v = row[r] /\ a = attempts /\ b = attempts' /\ h = consumer[Huey]
            /\ n = consumer'[Huey] /\ got = received /\ had = received'
      OBVIOUS
    <3>4. Of(b, r) = Of(a, r) /\ \A i \in Of(a, r) : b[i] = a[i]
      BY <1>7, <2>1, <2>3, <3>3
    <3>5. WorkerOK(r, v, b, had, n)
      BY <2>1, <3>1, <3>2, <3>3, <3>4, RowStays
    <3> QED BY <1>2, <2>1, <2>3, <3>3, <3>5
  <2> QED BY <2>2, <2>3
<1>10. ASSUME NEW r \in WorkerRow PROVE Recalls(r, row'[r], attempts', consumer'[Huey])
  <2>1. r \in Row /\ Recalls(r, row[r], attempts, consumer[Huey])
    BY DEF QueueInv, WorkerRow
  <2>2. CASE c = Huey
    <3>1. consumer'[Huey] = k /\ k.pc # "recover"
      BY <1>3, <2>2 DEF Sound, Busy
    <3> QED BY <3>1 DEF Recalls
  <2>3. CASE c # Huey
    <3>1. q \in RowsOf(c) /\ c \in Inline
      BY <1>1, <2>3 DEF Steady, Sound, Consumer
    <3>2. r # q
      BY <3>1 DEF RowsOf, WorkerRow
    <3>3. PICK v, a, b, h : v = row[r] /\ a = attempts /\ b = attempts' /\ h = consumer[Huey]
      OBVIOUS
    <3>4. Of(b, r) = Of(a, r) /\ \A i \in Of(a, r) : b[i] = a[i]
      BY <1>7, <2>1, <3>2, <3>3
    <3>5. Recalls(r, v, b, h)
      BY <2>1, <3>3, <3>4, RecallStays
    <3> QED BY <1>1, <1>2, <1>3, <2>1, <2>3, <3>2, <3>3, <3>5
  <2> QED BY <2>2, <2>3
<1> QED BY <1>5, <1>6, <1>8, <1>9, <1>10 DEF QueueInv, WorkerRow

-----------------------------------------------------------------------------
(* Producers, cancellers and the consumers between two rows *)

\* Rows are stored or cancelled, and the consumers stay where they are.
LEMMA RowsMove ==
    ASSUME QueueInv, UNCHANGED <<attempts, received, consumer>>, Stored', lapsed \subseteq lapsed',
           \A r \in Row : \/ row'[r] = row[r]
                          \/ row'[r] = [status |-> "failed", cancelled |-> TRUE]
                          \/ row[r] = AbsentRow /\ row'[r] = PendingRow
    PROVE  QueueInv'
BY AsideKeeps DEF QueueInv, Steady

\* One consumer moves to k, where it is not busy with a row.
LEMMA ConsumerMoves ==
    ASSUME QueueInv, UNCHANGED <<row, attempts, received, lapsed>>, Stored',
           NEW c \in Consumer, NEW k, Becomes(c, k), Sound(c, k, attempts, lapsed), k.pc \notin Busy
    PROVE  QueueInv'
<1>1. consumer \in [Consumer -> ConsumerType] /\ k \in ConsumerType
  BY DEF QueueInv, Steady, Sound
<1>2. consumer' \in [Consumer -> ConsumerType]
      /\ \A d \in Consumer : consumer'[d] = IF d = c THEN k ELSE consumer[d]
  BY <1>1 DEF Becomes
<1>3. \A d \in Consumer : \/ consumer'[d] = consumer[d]
                          \/ /\ Sound(d, consumer'[d], attempts', lapsed')
                             /\ consumer'[d].pc \notin Busy
  BY <1>2
<1> QED BY <1>2, <1>3, AsideKeeps

LEMMA ProducerKeeps ==
    ASSUME QueueInv, NEW e \in Event,
           Lapse(e) \/ CheckFence(e) \/ InsertRows(e) \/ ProducerCrash(e)
    PROVE  QueueInv'
<1>1. Stored
  BY DEF QueueInv
<1>2. CASE Lapse(e)
  <2>1. Stored' /\ UNCHANGED <<row, attempts, received, consumer>> /\ lapsed \subseteq lapsed'
    BY <1>1, <1>2 DEF Lapse, Stored
  <2> QED BY <2>1, RowsMove
<1>3. CASE CheckFence(e)
  <2>1. Stored' /\ UNCHANGED <<row, attempts, received, consumer, lapsed>>
    BY <1>1, <1>3 DEF CheckFence, Stored
  <2> QED BY <2>1, RowsMove
<1>4. CASE InsertRows(e)
  <2>1. PendingRow \in RowType
    BY DEF PendingRow, AbsentRow, RowType
  <2>2. \A r \in Row : row'[r] = IF EventOf[r] = e /\ row[r] = AbsentRow THEN PendingRow ELSE row[r]
    BY <1>4 DEF InsertRows
  <2>3. row' \in [Row -> RowType]
    BY <1>1, <1>4, <2>1 DEF InsertRows, Stored
  <2>4. Stored' /\ UNCHANGED <<attempts, received, consumer, lapsed>>
    BY <1>1, <1>4, <2>3 DEF InsertRows, Stored
  <2> QED BY <2>2, <2>4, RowsMove
<1>5. CASE ProducerCrash(e)
  <2>1. Stored' /\ UNCHANGED <<row, attempts, received, consumer, lapsed>>
    BY <1>1, <1>5 DEF ProducerCrash, Stored
  <2> QED BY <2>1, RowsMove
<1> QED BY <1>2, <1>3, <1>4, <1>5

\* Huey's queue stays one.
LEMMA WithTasksType ==
    ASSUME Stored, NEW rs
    PROVE  WithTasks(rs) \in [Task -> Nat]
BY DEF Stored, WithTasks

LEMMA ScheduleKeeps ==
    ASSUME QueueInv, NEW e \in Event, Schedule(e)
    PROVE  QueueInv'
<1>1. Stored
  BY DEF QueueInv
<1>2. tasks' \in [Task -> Nat]
  BY <1>1, WithTasksType DEF Schedule, Stored
<1>3. Stored' /\ UNCHANGED <<row, attempts, received, lapsed>>
  BY <1>1, <1>2 DEF Schedule, Stored
<1>4. CASE e \in Inline
  <2> DEFINE k == [Ready EXCEPT !.pc = "next", !.todo = RowsOf(e)]
  <2>1. RowsOf(e) \subseteq Row /\ e \in Consumer
    BY <1>4 DEF RowsOf, Consumer
  <2>2. k \in ConsumerType /\ k.pc = "next" /\ k.todo = RowsOf(e)
    BY <2>1, ReadyType DEF ConsumerType
  <2>3. Becomes(e, k)
    BY <1>4 DEF Schedule, Becomes
  <2> HIDE DEF k
  <2>4. Sound(e, k, attempts, lapsed) /\ k.pc \notin Busy
    BY <2>2 DEF Sound, Resting, Reading, Trying, Busy
  <2>5. PICK n : n = k
    OBVIOUS
  <2> QED BY <1>3, <2>1, <2>3, <2>4, <2>5, ConsumerMoves DEF Becomes
<1>5. CASE e \notin Inline
  <2>1. UNCHANGED consumer
    BY <1>5 DEF Schedule
  <2> QED BY <1>3, <2>1, RowsMove
<1> QED BY <1>4, <1>5

LEMMA CancellerKeeps ==
    ASSUME QueueInv, NEW e \in Event, CancellerStep(e)
    PROVE  QueueInv'
<1>1. Stored
  BY DEF QueueInv
<1> DEFINE Marked == [status |-> "failed", cancelled |-> TRUE]
<1>2. ASSUME NEW rs, MarkCancelled(rs)
      PROVE  /\ row' \in [Row -> RowType]
             /\ \A r \in Row : row'[r] = row[r] \/ row'[r] = Marked
  <2>1. Marked \in RowType
    BY DEF RowType
  <2> HIDE DEF Marked
  <2>2. row' = [r \in Row |-> IF r \in rs THEN Marked ELSE row[r]]
    BY <1>2 DEF MarkCancelled, Marked
  <2> QED BY <1>1, <2>1, <2>2 DEF Stored
<1>3. CASE Cancel(e)
  <2>1. row' \in [Row -> RowType] /\ \A r \in Row : row'[r] = row[r] \/ row'[r] = Marked
    <3>1. PICK rs : rs = Cancellable(e)
      OBVIOUS
    <3>2. MarkCancelled(rs)
      BY <1>3, <3>1 DEF Cancel, MarkCancelled
    <3> QED BY <1>2, <3>2
  <2>2. Stored' /\ UNCHANGED <<attempts, received, consumer, lapsed>>
    BY <1>1, <1>3, <2>1 DEF Cancel, Stored
  <2> QED BY <2>1, <2>2, RowsMove
<1>4. CASE CancelAgain(e)
  <2>1. Cancellable(e) \subseteq Row
    BY DEF Cancellable, RowsOf
  <2>2. Stored' /\ UNCHANGED <<row, attempts, received, consumer, lapsed>>
    BY <1>1, <1>4, <2>1 DEF CancelAgain, Stored
  <2> QED BY <2>2, RowsMove
<1>5. CASE MarkAgain(e)
  <2>1. row' \in [Row -> RowType] /\ \A r \in Row : row'[r] = row[r] \/ row'[r] = Marked
    <3>1. PICK rs : rs = canceller[e].rows
      OBVIOUS
    <3>2. MarkCancelled(rs)
      BY <1>5, <3>1 DEF MarkAgain, MarkCancelled
    <3> QED BY <1>2, <3>2
  <2>2. canceller' \in [Event -> [pc : {"idle", "mark"}, rows : SUBSET Row]]
    BY <1>1, <1>5 DEF MarkAgain, Stored, NotCancelling
  <2>3. Stored' /\ UNCHANGED <<attempts, received, consumer, lapsed>>
    BY <1>1, <1>5, <2>1, <2>2 DEF MarkAgain, Stored
  <2> QED BY <2>1, <2>3, RowsMove
<1> QED BY <1>3, <1>4, <1>5 DEF CancellerStep

LEMMA TakeKeeps ==
    ASSUME QueueInv, Take
    PROVE  QueueInv'
<1>1. Stored /\ Huey \in Consumer
  BY DEF QueueInv, Consumer
<1>2. PICK t \in Task :
        /\ tasks[t] > 0 /\ tasks' = [tasks EXCEPT ![t] = tasks[t] - 1]
        /\ Becomes(Huey, [Ready EXCEPT !.pc = "read", !.row = t[1], !.retries = t[2]])
  BY DEF Take
<1> DEFINE k == [Ready EXCEPT !.pc = "read", !.row = t[1], !.retries = t[2]]
<1>3. t[1] \in Row /\ t[2] \in 0 .. TaskRetries
  BY DEF Task
<1>4. k \in ConsumerType /\ k.pc = "read" /\ k.row = t[1]
  BY <1>3, ReadyType DEF ConsumerType
<1>5. Becomes(Huey, k)
  BY <1>2
<1> HIDE DEF k
<1>6. Sound(Huey, k, attempts, lapsed) /\ k.pc \notin Busy
  BY <1>3, <1>4 DEF Sound, Resting, Reading, Trying, Busy
<1>7. tasks' \in [Task -> Nat]
  <2>1. tasks[t] \in Nat
    BY <1>1 DEF Stored
  <2>2. tasks[t] - 1 \in Nat
    BY <1>2, <2>1
  <2> QED BY <1>1, <1>2, <2>2 DEF Stored
<1>8. Stored' /\ UNCHANGED <<row, attempts, received, lapsed>>
  BY <1>1, <1>7 DEF Take, Stored
<1> QED BY <1>1, <1>5, <1>6, <1>8, ConsumerMoves

LEMMA TakeInlineKeeps ==
    ASSUME QueueInv, NEW c \in Inline, TakeInline(c)
    PROVE  QueueInv'
<1>1. Stored /\ c \in Consumer /\ consumer[c] \in ConsumerType
  BY DEF QueueInv, Steady, Consumer
<1>2. PICK r \in consumer[c].todo :
        Becomes(c, [Ready EXCEPT !.pc = "read", !.row = r, !.todo = consumer[c].todo \ {r}])
  BY DEF TakeInline
<1>3. PICK s : s = consumer[c].todo \ {r}
  OBVIOUS
<1> DEFINE k == [Ready EXCEPT !.pc = "read", !.row = r, !.todo = s]
<1>4. c # Huey /\ consumer[c].todo \subseteq RowsOf(c)
  BY <1>1, QueueAssumption DEF QueueInv, Steady, Sound
<1>5. r \in RowsOf(c) /\ s \subseteq RowsOf(c) /\ r \in Row /\ s \subseteq Row
  BY <1>2, <1>3, <1>4 DEF RowsOf
<1>6. k \in ConsumerType /\ k.pc = "read" /\ k.row = r /\ k.todo = s
  BY <1>5, ReadyType DEF ConsumerType
<1>7. Becomes(c, k)
  BY <1>2, <1>3 DEF Becomes
<1> HIDE DEF k
<1>8. Sound(c, k, attempts, lapsed) /\ k.pc \notin Busy
  BY <1>5, <1>6 DEF Sound, Resting, Reading, Trying, Busy
<1>9. Stored' /\ UNCHANGED <<row, attempts, received, lapsed>>
  BY <1>1 DEF TakeInline, Stored
<1> QED BY <1>1, <1>7, <1>8, <1>9, ConsumerMoves

LEMMA DoneMoves ==
    ASSUME QueueInv, Stored', UNCHANGED <<row, attempts, received, lapsed>>,
           NEW c \in Consumer, Becomes(c, Done(c)) \/ Becomes(c, Ready)
    PROVE  QueueInv'
<1>1. PICK k : Becomes(c, k) /\ (k = Done(c) \/ k = Ready)
  BY DEF Becomes
<1>2. Sound(c, k, attempts, lapsed) /\ k.pc \notin Busy
  BY <1>1, DoneSound, ReadySound
<1> QED BY <1>1, <1>2, ConsumerMoves

LEMMA RaiseKeeps ==
    ASSUME QueueInv, NEW c \in Consumer, Raise(c)
    PROVE  QueueInv'
<1> DEFINE k == consumer[c]
           t == <<k.row, k.retries - 1>>
<1>1. Stored /\ k \in ConsumerType /\ k.pc = "raise" /\ k.row \in Row
  BY DEF QueueInv, Steady, Sound, Raise, Resting
<1>2. tasks' \in [Task -> Nat]
  <2>1. CASE k.retries > 0
    <3>1. k.retries \in 0 .. TaskRetries /\ TaskRetries \in Nat
      BY <1>1, QueueAssumption DEF ConsumerType
    <3>2. t \in Task
      BY <1>1, <2>1, <3>1 DEF Task
    <3>3. tasks \in [Task -> Nat] /\ tasks[t] + 1 \in Nat
      BY <1>1, <3>2 DEF Stored
    <3>4. tasks' = tasks \/ tasks' = [tasks EXCEPT ![t] = tasks[t] + 1]
      BY DEF Raise
    <3> HIDE DEF t
    <3> QED BY <3>3, <3>4
  <2>2. CASE ~(k.retries > 0)
    <3>1. tasks' = tasks
      BY <2>2 DEF Raise
    <3> QED BY <1>1, <3>1 DEF Stored
  <2> QED BY <2>1, <2>2
<1>3. Stored' /\ UNCHANGED <<row, attempts, received, lapsed>>
  BY <1>1, <1>2 DEF Raise, Stored
<1> QED BY <1>3, DoneMoves DEF Raise

LEMMA StoreFailsKeeps ==
    ASSUME QueueInv, NEW c \in Consumer, StoreFails(c)
    PROVE  QueueInv'
<1>1. Stored' /\ UNCHANGED <<row, attempts, received, lapsed>>
  BY DEF QueueInv, Stored, StoreFails
<1>2. CASE c # Huey
  <2>1. Becomes(c, Ready)
    BY <1>2 DEF StoreFails
  <2> QED BY <1>1, <2>1, DoneMoves
<1>3. CASE c = Huey
  <2>1. PICK k : k = [consumer[c] EXCEPT !.pc = "raise"]
    OBVIOUS
  <2>2. Becomes(c, k)
    BY <1>3, <2>1 DEF StoreFails, Goes, Becomes
  <2>3. consumer[c] \in ConsumerType /\ consumer[c].row \in Row
    BY DEF QueueInv, Steady, Sound, StoreFails, Resting
  <2>4. k \in ConsumerType /\ k.pc = "raise" /\ k.row \in Row
    BY <2>1, <2>3 DEF ConsumerType
  <2>5. Sound(c, k, attempts, lapsed) /\ k.pc \notin Busy
    BY <1>3, <2>4 DEF Sound, Resting, Reading, Trying, Busy
  <2> QED BY <1>1, <2>2, <2>5, ConsumerMoves
<1> QED BY <1>2, <1>3

\* The worker at its start.
LEMMA StartupSound ==
    ASSUME NEW k \in ConsumerType, k.pc \in {"startup", "reschedule"}, NEW a, NEW l
    PROVE  Sound(Huey, k, a, l) /\ k.pc \notin Busy
BY DEF Sound, Resting, Reading, Trying, Busy

LEMMA ConsumerCrashKeeps ==
    ASSUME QueueInv, NEW c \in Consumer, ConsumerCrash(c)
    PROVE  QueueInv'
<1>1. Stored' /\ UNCHANGED <<row, attempts, received, lapsed>>
  BY DEF QueueInv, Stored, ConsumerCrash
<1>2. CASE c # Huey
  <2>1. Becomes(c, Ready)
    BY <1>2 DEF ConsumerCrash, Becomes
  <2> QED BY <1>1, <2>1, DoneMoves
<1>3. CASE c = Huey
  <2>1. PICK k : k = [Ready EXCEPT !.pc = "startup"]
    OBVIOUS
  <2>2. Becomes(c, k)
    BY <1>3, <2>1 DEF ConsumerCrash, Becomes
  <2>3. k \in ConsumerType /\ k.pc = "startup"
    BY <2>1, ReadyType DEF ConsumerType
  <2>4. Sound(c, k, attempts, lapsed) /\ k.pc \notin Busy
    BY <1>3, <2>3, StartupSound
  <2> QED BY <1>1, <2>2, <2>4, ConsumerMoves
<1> QED BY <1>2, <1>3

LEMMA RescheduleKeeps ==
    ASSUME QueueInv, Reschedule
    PROVE  QueueInv'
<1>1. Stored /\ Huey \in Consumer
  BY DEF QueueInv, Consumer
<1>2. tasks' \in [Task -> Nat]
  BY <1>1, WithTasksType DEF Reschedule
<1>3. Stored' /\ UNCHANGED <<row, attempts, received, lapsed>>
  BY <1>1, <1>2 DEF Reschedule, Stored
<1> QED BY <1>1, <1>3, DoneMoves DEF Reschedule

-----------------------------------------------------------------------------
(* A consumer with a row *)

LEMMA BusyFacts ==
    ASSUME QueueInv, NEW c \in Consumer, consumer[c].pc \notin Resting
    PROVE  LET q == consumer[c].row IN
           /\ q \in Row /\ row[q] \in RowType /\ consumer[c] \in ConsumerType
           /\ Sound(c, consumer[c], attempts, lapsed)
           /\ Backed(q, row[q], attempts, lapsed)
           /\ c = Huey /\ q \in WorkerRow => WorkerOK(q, row[q], attempts, received, consumer[c])
<1>1. Sound(c, consumer[c], attempts, lapsed) /\ consumer[c] \in ConsumerType
  BY DEF QueueInv, Steady
<1>2. consumer[c].row \in Row
  BY <1>1 DEF Sound
<1> QED BY <1>1, <1>2 DEF QueueInv, Stored

\* The consumer goes on with its row, which nobody changes.
LEMMA StandKeeps ==
    ASSUME QueueInv, NEW c \in Consumer, NEW k, Becomes(c, k), consumer[c].pc \notin Resting,
           k.row = consumer[c].row, Sound(c, k, attempts, lapsed),
           UNCHANGED <<row, attempts, received, fence, accepted, tasks, producer, canceller, lapsed>>,
           c = Huey /\ k.row \in WorkerRow => WorkerOK(k.row, row[k.row], attempts, received, k)
    PROVE  QueueInv'
<1>1. PICK q, w : q = k.row /\ w = row[q]
  OBVIOUS
<1>2. q \in Row /\ w \in RowType /\ Backed(q, w, attempts, lapsed) /\ Stored
  BY <1>1, BusyFacts DEF QueueInv
<1>3. row' = [row EXCEPT ![q] = w]
  BY <1>1, <1>2 DEF Stored
<1>4. attempts' \in Seq(AttemptType) /\ received' \subseteq DOMAIN attempts'
  BY <1>2 DEF Stored
<1>5. consumer' = [consumer EXCEPT ![c] = k]
  BY DEF Becomes
<1>6. /\ Backed(q, w, attempts', lapsed) /\ Sound(c, k, attempts', lapsed)
      /\ c = Huey /\ q \in WorkerRow => WorkerOK(q, w, attempts', received', k)
  BY <1>1, <1>2
<1> QED BY <1>1, <1>2, <1>3, <1>4, <1>5, <1>6, DeliverKeeps

LEMMA RowReads ==
    ASSUME NEW r, NEW w, NEW a, NEW got, NEW k, WorkerOK(r, w, a, got, k),
           k.row = r, k.pc \in Reading, NEW n, n.pc \in Reading
    PROVE  WorkerOK(r, w, a, got, n)
BY DEF WorkerOK, Knows, Reading, Trying

LEMMA ReadRowKeeps ==
    ASSUME QueueInv, NEW c \in Consumer, ReadRow(c)
    PROVE  QueueInv'
<1> DEFINE h == consumer[c]
           q == h.row
<1>1. UNCHANGED <<row, attempts, received, fence, accepted, tasks, producer, canceller, lapsed>>
      /\ h.pc = "read"
  BY DEF ReadRow
<1>2. Stored'
  BY <1>1 DEF QueueInv, Stored
<1>3. CASE NotDue(q)
  <2>1. Becomes(c, Done(c))
    BY <1>3 DEF ReadRow
  <2> QED BY <1>1, <1>2, <2>1, DoneMoves
<1>4. CASE ~NotDue(q)
  <2>1. PICK s \in {"lapse", "count"} : Goes(c, s) /\ (s = "lapse" => EventOf[q] \in lapsed)
    BY <1>4 DEF ReadRow
  <2>2. PICK k : k = [h EXCEPT !.pc = s]
    OBVIOUS
  <2>3. Becomes(c, k)
    BY <2>1, <2>2 DEF Goes, Becomes
  <2>4. /\ h \in ConsumerType /\ q \in Row /\ Sound(c, h, attempts, lapsed)
        /\ c = Huey /\ q \in WorkerRow => WorkerOK(q, row[q], attempts, received, h)
    BY <1>1, BusyFacts DEF Resting
  <2>5. k \in ConsumerType /\ k.pc = s /\ k.row = q /\ k.todo = h.todo
    BY <2>2, <2>4 DEF ConsumerType
  <2>6. Sound(c, k, attempts, lapsed)
    BY <1>1, <2>1, <2>4, <2>5 DEF Sound, Resting, Trying
  <2>7. c = Huey /\ q \in WorkerRow => WorkerOK(q, row[q], attempts, received, k)
    <3>1. ~row[q].cancelled /\ row[q].status \notin Resolved
      BY <1>4 DEF NotDue
    <3>2. k.pc \in Reading
      BY <2>1, <2>5 DEF Reading
    <3> QED BY <2>4, <3>1, <3>2, RowDue
  <2> QED BY <1>1, <2>3, <2>5, <2>6, <2>7, StandKeeps DEF Resting
<1> QED BY <1>3, <1>4

LEMMA CountAttemptsKeeps ==
    ASSUME QueueInv, NEW c \in Consumer, CountAttempts(c)
    PROVE  QueueInv'
<1> DEFINE h == consumer[c]
           q == h.row
<1>1. UNCHANGED <<row, attempts, received, fence, accepted, tasks, producer, canceller, lapsed>>
      /\ h.pc = "count"
  BY DEF CountAttempts
<1>2. Stored /\ Stored'
  BY <1>1 DEF QueueInv, Stored
<1>3. PICK no : no = NextNo(q)
  OBVIOUS
<1>4. no \in Nat /\ no > 0
  BY <1>2, <1>3, NextNoPositive
<1>5. CASE no > MaxDelivery
  <2>1. Becomes(c, Done(c))
    BY <1>3, <1>5 DEF CountAttempts
  <2> QED BY <1>1, <1>2, <2>1, DoneMoves
<1>6. CASE ~(no > MaxDelivery)
  <2>1. PICK k : k = [h EXCEPT !.pc = "write", !.no = no]
    OBVIOUS
  <2>2. Becomes(c, k)
    BY <1>3, <1>6, <2>1 DEF CountAttempts, Becomes
  <2>3. no \in 0 .. MaxDelivery
    BY <1>4, <1>6, QueueAssumption
  <2>4. /\ h \in ConsumerType /\ q \in Row /\ Sound(c, h, attempts, lapsed)
        /\ c = Huey /\ q \in WorkerRow => WorkerOK(q, row[q], attempts, received, h)
    BY <1>1, BusyFacts DEF Resting
  <2>5. k \in ConsumerType /\ k.pc = "write" /\ k.row = q /\ k.todo = h.todo /\ k.no = no
    BY <2>1, <2>3, <2>4 DEF ConsumerType
  <2>6. Sound(c, k, attempts, lapsed)
    BY <1>1, <1>4, <2>4, <2>5 DEF Sound, Resting, Trying
  <2>7. c = Huey /\ q \in WorkerRow => WorkerOK(q, row[q], attempts, received, k)
    <3>1. h.pc \in Reading /\ k.pc \in Reading
      BY <1>1, <2>5 DEF Reading
    <3> QED BY <2>4, <3>1, RowReads
  <2> QED BY <1>1, <2>2, <2>5, <2>6, <2>7, StandKeeps DEF Resting
<1> QED BY <1>5, <1>6

LEMMA QuietWindowKeeps ==
    ASSUME QueueInv, NEW c \in Consumer, QuietWindow(c)
    PROVE  QueueInv'
<1> DEFINE h == consumer[c]
           q == h.row
<1>1. UNCHANGED <<row, attempts, received, fence, accepted, tasks, producer, canceller, lapsed>>
      /\ h.pc = "begun"
  BY DEF QuietWindow
<1>2. PICK k : k = [h EXCEPT !.pc = "settle", !.result = "quiet"]
  OBVIOUS
<1>3. Becomes(c, k)
  BY <1>2 DEF QuietWindow, Becomes
<1>4. /\ h \in ConsumerType /\ q \in Row /\ Sound(c, h, attempts, lapsed)
      /\ c = Huey /\ q \in WorkerRow => WorkerOK(q, row[q], attempts, received, h)
  BY <1>1, BusyFacts DEF Resting
<1>5. /\ k \in ConsumerType /\ k.pc = "settle" /\ k.row = q /\ k.todo = h.todo /\ k.id = h.id
      /\ k.result = "quiet"
  BY <1>2, <1>4 DEF ConsumerType
<1>6. Sound(c, k, attempts, lapsed)
  BY <1>1, <1>4, <1>5 DEF Sound, Resting, Trying
<1>7. c = Huey /\ q \in WorkerRow => WorkerOK(q, row[q], attempts, received, k)
  BY <1>1, <1>4, <1>5, RowQuiet
<1> QED BY <1>1, <1>3, <1>5, <1>6, <1>7, StandKeeps DEF Resting

LEMMA ExpireRowKeeps ==
    ASSUME QueueInv, NEW c \in Consumer, ExpireRow(c)
    PROVE  QueueInv'
<1> DEFINE h == consumer[c]
<1>1. UNCHANGED <<attempts, received, fence, accepted, tasks, producer, canceller, lapsed>>
      /\ h.pc = "lapse"
  BY DEF ExpireRow
<1>2. PICK q, k, w : q = h.row /\ k = Done(c) /\ w = [row[q] EXCEPT !.status = "failed"]
  OBVIOUS
<1>3. /\ h \in ConsumerType /\ q \in Row /\ row[q] \in RowType /\ Sound(c, h, attempts, lapsed)
      /\ c = Huey /\ q \in WorkerRow => WorkerOK(q, row[q], attempts, received, h)
  BY <1>1, <1>2, BusyFacts DEF Resting
<1>4. w \in RowType /\ w.status = "failed"
  BY <1>2, <1>3 DEF RowType
<1>5. row' = [row EXCEPT ![q] = w] /\ consumer' = [consumer EXCEPT ![c] = k]
  BY <1>2 DEF ExpireRow, Becomes
<1>6. Sound(c, k, attempts', lapsed) /\ k.pc \notin Busy
  BY <1>1, <1>2, DoneSound
<1>7. EventOf[q] \in lapsed
  BY <1>1, <1>2, <1>3 DEF Sound
<1>8. Backed(q, w, attempts', lapsed)
  BY <1>4, <1>7 DEF Backed
<1>9. c = Huey /\ q \in WorkerRow => WorkerOK(q, w, attempts', received', k)
  <2> SUFFICES ASSUME c = Huey, q \in WorkerRow PROVE WorkerOK(q, w, attempts, received, k)
    BY <1>1
  <2>1. h.pc \in Reading
    BY <1>1 DEF Reading
  <2> QED BY <1>2, <1>3, <1>6, <2>1, RowExpires
<1>10. attempts' \in Seq(AttemptType) /\ received' \subseteq DOMAIN attempts'
  BY <1>1 DEF QueueInv, Stored
<1>11. h.pc \notin Resting
  BY <1>1 DEF Resting
<1> QED BY <1>1, <1>2, <1>3, <1>4, <1>5, <1>6, <1>8, <1>9, <1>10, <1>11, DeliverKeeps

LEMMA BeginAttemptKeeps ==
    ASSUME QueueInv, NEW c \in Consumer, BeginAttempt(c)
    PROVE  QueueInv'
<1> DEFINE h == consumer[c]
<1>1. UNCHANGED <<received, fence, accepted, tasks, producer, canceller, lapsed>> /\ h.pc = "write"
  BY DEF BeginAttempt
<1>2. PICK q, x, new, w : /\ q = h.row /\ x = Len(attempts) + 1 /\ new = NewAttempt(c)
                          /\ w = [row[h.row] EXCEPT !.status = "processing"]
  OBVIOUS
<1>3. PICK k : k = [h EXCEPT !.pc = "begun", !.id = x]
  OBVIOUS
<1>4. /\ h \in ConsumerType /\ q \in Row /\ row[q] \in RowType /\ Sound(c, h, attempts, lapsed)
      /\ c = Huey /\ q \in WorkerRow => WorkerOK(q, row[q], attempts, received, h)
  BY <1>1, <1>2, BusyFacts DEF Resting
<1>5. Stored
  BY DEF QueueInv
<1>6. new \in AttemptType
  <2>1. h.no \in 1 .. MaxDelivery
    <3>1. h.no \in 0 .. MaxDelivery /\ h.no > 0
      BY <1>1, <1>4 DEF Sound, ConsumerType
    <3> QED BY <3>1, QueueAssumption
  <2>2. h.row \in Row /\ row[h.row].cancelled \in BOOLEAN
    BY <1>2, <1>4 DEF RowType
  <2>3. "processing" \in Outcomes
    BY DEF Outcomes
  <2> QED BY <1>2, <2>1, <2>2, <2>3 DEF NewAttempt, AttemptType
<1>7. new.row = q /\ new.open /\ ~new.started /\ new.late = row[q].cancelled
  BY <1>2 DEF NewAttempt
<1>8. attempts' = Append(attempts, new)
  BY <1>2 DEF BeginAttempt
<1>9. /\ attempts' \in Seq(AttemptType) /\ x \in Nat /\ x \notin DOMAIN attempts
      /\ DOMAIN attempts' = DOMAIN attempts \union {x}
      /\ attempts'[x] = new /\ \A i \in DOMAIN attempts : attempts'[i] = attempts[i]
  BY <1>2, <1>5, <1>6, <1>8, AppendFacts DEF Stored
<1>10. received' \subseteq DOMAIN attempts' /\ x \notin received
  BY <1>1, <1>5, <1>9 DEF Stored
<1>11. row' = [row EXCEPT ![q] = w] /\ consumer' = [consumer EXCEPT ![c] = k]
  BY <1>2, <1>3 DEF BeginAttempt, Becomes
<1>12. w \in RowType /\ w.status = "processing"
  BY <1>2, <1>4 DEF RowType
<1>13. k \in ConsumerType /\ k.pc = "begun" /\ k.row = q /\ k.todo = h.todo /\ k.id = x
  BY <1>2, <1>3, <1>4, <1>9 DEF ConsumerType
<1>14. Sound(c, k, attempts', lapsed)
  BY <1>1, <1>2, <1>4, <1>7, <1>9, <1>13 DEF Sound, Resting
<1>15. Backed(q, w, attempts', lapsed)
  BY <1>12 DEF Backed
<1>16. c = Huey /\ q \in WorkerRow => WorkerOK(q, w, attempts', received', k)
  <2> SUFFICES ASSUME c = Huey, q \in WorkerRow PROVE WorkerOK(q, w, attempts', received, k)
    BY <1>1
  <2>1. h.pc \in Reading /\ h.row = q
    BY <1>1, <1>2 DEF Reading
  <2>2. w = [row[q] EXCEPT !.status = "processing"]
    BY <1>2
  <2>3. /\ attempts'[x].row = q /\ attempts'[x].open /\ ~attempts'[x].started
        /\ attempts'[x].late = row[q].cancelled
    BY <1>7, <1>9
  <2> QED BY <1>4, <1>9, <1>10, <1>13, <2>1, <2>2, <2>3, RowBegins
<1>17. \A i \in DOMAIN attempts' \ DOMAIN attempts : attempts'[i].row = q
  BY <1>7, <1>9
<1>18. h.pc \notin Resting
  BY <1>1 DEF Resting
<1> QED BY <1>1, <1>2, <1>4, <1>9, <1>10, <1>11, <1>12, <1>13, <1>14, <1>15, <1>16, <1>17, <1>18,
           DeliverKeeps

LEMMA MarkTransportStartedKeeps ==
    ASSUME QueueInv, NEW c \in Consumer, MarkTransportStarted(c)
    PROVE  QueueInv'
<1> DEFINE h == consumer[c]
<1>1. UNCHANGED <<row, received, fence, accepted, tasks, producer, canceller, lapsed>>
      /\ h.pc = "begun"
  BY DEF MarkTransportStarted
<1>2. PICK q, x, w : q = h.row /\ x = h.id /\ w = row[h.row]
  OBVIOUS
<1>3. PICK k, new : k = [h EXCEPT !.pc = "send"] /\ new = [attempts[x] EXCEPT !.started = TRUE]
  OBVIOUS
<1>4. /\ h \in ConsumerType /\ q \in Row /\ w \in RowType /\ Sound(c, h, attempts, lapsed)
      /\ Backed(q, w, attempts, lapsed)
      /\ c = Huey /\ q \in WorkerRow => WorkerOK(q, w, attempts, received, h)
  BY <1>1, <1>2, BusyFacts DEF Resting
<1>5. Stored
  BY DEF QueueInv
<1>6. x \in DOMAIN attempts /\ attempts[x].row = q /\ attempts[x] \in AttemptType
  BY <1>1, <1>2, <1>4, <1>5, SeqFacts DEF Sound, Trying, Stored
<1>7. /\ new \in AttemptType /\ new.started /\ new.row = q /\ new.open = attempts[x].open
      /\ new.late = attempts[x].late /\ new.outcome = attempts[x].outcome
  BY <1>3, <1>6 DEF AttemptType
<1>8. attempts' = [attempts EXCEPT ![x] = new]
  BY <1>2, <1>3 DEF MarkTransportStarted
<1>9. /\ attempts' \in Seq(AttemptType) /\ DOMAIN attempts' = DOMAIN attempts
      /\ attempts'[x] = new /\ \A i \in DOMAIN attempts \ {x} : attempts'[i] = attempts[i]
  BY <1>5, <1>6, <1>7, <1>8, ReplaceFacts DEF Stored
<1>10. \A i \in DOMAIN attempts :
         /\ attempts'[i].row = attempts[i].row /\ attempts'[i].open = attempts[i].open
         /\ attempts'[i].late = attempts[i].late /\ attempts'[i].outcome = attempts[i].outcome
  BY <1>6, <1>7, <1>9
<1>11. row' = [row EXCEPT ![q] = w] /\ consumer' = [consumer EXCEPT ![c] = k]
  BY <1>1, <1>2, <1>3, <1>4, <1>5 DEF MarkTransportStarted, Goes, Becomes, Stored
<1>12. k \in ConsumerType /\ k.pc = "send" /\ k.row = q /\ k.todo = h.todo /\ k.id = x
  BY <1>2, <1>3, <1>4 DEF ConsumerType
<1>13. Sound(c, k, attempts', lapsed)
  BY <1>1, <1>2, <1>4, <1>7, <1>6, <1>9, <1>12 DEF Sound, Resting
<1>14. Backed(q, w, attempts', lapsed)
  <2>1. Of(attempts, q) \subseteq Of(attempts', q)
    BY <1>9, <1>10 DEF Of
  <2>2. \A i \in Of(attempts, q) : attempts'[i].outcome = attempts[i].outcome
    BY <1>10 DEF Of
  <2> QED BY <1>4, <2>1, <2>2, BackedStays
<1>15. c = Huey /\ q \in WorkerRow => WorkerOK(q, w, attempts', received', k)
  <2> SUFFICES ASSUME c = Huey, q \in WorkerRow PROVE WorkerOK(q, w, attempts', received, k)
    BY <1>1
  <2>1. attempts'[h.id].started /\ k.id = h.id /\ h.row = q
    BY <1>2, <1>7, <1>9, <1>12
  <2> QED BY <1>1, <1>4, <1>9, <1>10, <1>12, <2>1, RowStarts
<1>16. received' \subseteq DOMAIN attempts' /\ h.pc \notin Resting
  BY <1>1, <1>5, <1>9 DEF Stored, Resting
<1>17. \A i \in DOMAIN attempts : attempts[i].row # q => attempts'[i] = attempts[i]
  BY <1>6, <1>9
<1> QED BY <1>1, <1>2, <1>4, <1>9, <1>10, <1>11, <1>12, <1>13, <1>14, <1>15, <1>16, <1>17,
           DeliverKeeps

LEMMA TransportKeeps ==
    ASSUME QueueInv, NEW c \in Consumer, Transport(c)
    PROVE  QueueInv'
<1> DEFINE h == consumer[c]
<1>1. UNCHANGED <<row, attempts, fence, accepted, tasks, producer, canceller, lapsed>>
      /\ h.pc = "send"
  BY DEF Transport
<1>2. PICK q, x, w : q = h.row /\ x = h.id /\ w = row[h.row]
  OBVIOUS
<1>3. PICK result \in Results :
        /\ Becomes(c, [h EXCEPT !.pc = "settle", !.result = result])
        /\ \E reached \in Reaches(result) :
             received' = IF reached THEN received \union {h.id} ELSE received
  BY DEF Transport
<1>4. PICK k : k = [h EXCEPT !.pc = "settle", !.result = result]
  OBVIOUS
<1>5. received' = received \/ (received' = received \union {x} /\ result \in {"ok", "unknown"})
  BY <1>2, <1>3 DEF Reaches, Results
<1>6. /\ h \in ConsumerType /\ q \in Row /\ w \in RowType /\ Sound(c, h, attempts, lapsed)
      /\ Backed(q, w, attempts, lapsed)
      /\ c = Huey /\ q \in WorkerRow => WorkerOK(q, w, attempts, received, h)
  BY <1>1, <1>2, BusyFacts DEF Resting
<1>7. Stored
  BY DEF QueueInv
<1>8. x \in DOMAIN attempts /\ attempts[x].row = q
  BY <1>1, <1>2, <1>6 DEF Sound, Trying
<1>9. row' = [row EXCEPT ![q] = w] /\ consumer' = [consumer EXCEPT ![c] = k]
  BY <1>1, <1>2, <1>3, <1>4, <1>6, <1>7 DEF Becomes, Stored
<1>10. /\ k \in ConsumerType /\ k.pc = "settle" /\ k.row = q /\ k.todo = h.todo /\ k.id = x
       /\ k.result = result
  BY <1>2, <1>4, <1>6 DEF ConsumerType
<1>11. Sound(c, k, attempts', lapsed) /\ Backed(q, w, attempts', lapsed)
  BY <1>1, <1>2, <1>6, <1>8, <1>10 DEF Sound, Resting, Results
<1>12. c = Huey /\ q \in WorkerRow => WorkerOK(q, w, attempts', received', k)
  <2> SUFFICES ASSUME c = Huey, q \in WorkerRow PROVE WorkerOK(q, w, attempts, received', k)
    BY <1>1
  <2> QED BY <1>1, <1>2, <1>5, <1>6, <1>10, RowSends
<1>13. /\ received' \subseteq DOMAIN attempts' /\ attempts' \in Seq(AttemptType)
       /\ \A i \in DOMAIN attempts : attempts[i].row # q => (i \in received' <=> i \in received)
       /\ h.pc \notin Resting
  BY <1>1, <1>5, <1>7, <1>8 DEF Stored, Resting
<1> QED BY <1>1, <1>2, <1>6, <1>9, <1>10, <1>11, <1>12, <1>13, DeliverKeeps

LEMMA SettleKeeps ==
    ASSUME QueueInv, NEW c \in Consumer, Settle(c)
    PROVE  QueueInv'
<1> DEFINE h == consumer[c]
<1>1. UNCHANGED <<received, fence, accepted, tasks, producer, canceller, lapsed>>
      /\ h.pc = "settle"
  BY DEF Settle
<1>2. PICK q, x, s, result : /\ q = h.row /\ x = h.id /\ result = h.result
                             /\ s = SettledStatus(h.result)
  OBVIOUS
<1>3. PICK w, new : /\ w = [row[q] EXCEPT !.status = s]
                    /\ new = [attempts[x] EXCEPT !.open = FALSE, !.outcome = result]
  OBVIOUS
<1>4. /\ h \in ConsumerType /\ q \in Row /\ row[q] \in RowType /\ Sound(c, h, attempts, lapsed)
      /\ c = Huey /\ q \in WorkerRow => WorkerOK(q, row[q], attempts, received, h)
  BY <1>1, <1>2, BusyFacts DEF Resting
<1>5. Stored
  BY DEF QueueInv
<1>6. x \in DOMAIN attempts /\ attempts[x].row = q /\ attempts[x] \in AttemptType
  BY <1>1, <1>2, <1>4, <1>5, SeqFacts DEF Sound, Trying, Stored
<1>7. result \in {"ok", "refused", "permanent", "unknown", "quiet"}
  BY <1>1, <1>2, <1>4 DEF Sound, ConsumerType, Results
<1>8. /\ s \in {"delivered", "failed", "uncertain"}
      /\ s = "delivered" <=> result \in {"ok", "quiet"}
      /\ s = "uncertain" <=> result = "unknown"
      /\ s = "failed" <=> result \in {"permanent", "refused"}
  BY <1>2, <1>7 DEF SettledStatus
<1>9. /\ new \in AttemptType /\ ~new.open /\ new.row = q /\ new.started = attempts[x].started
      /\ new.late = attempts[x].late /\ new.outcome = result
  <2>1. result \in Outcomes
    BY <1>7 DEF Outcomes, Results
  <2> QED BY <1>3, <1>6, <2>1 DEF AttemptType
<1>10. attempts' = [attempts EXCEPT ![x] = new]
  BY <1>2, <1>3 DEF Settle
<1>11. /\ attempts' \in Seq(AttemptType) /\ DOMAIN attempts' = DOMAIN attempts
       /\ attempts'[x] = new /\ \A i \in DOMAIN attempts \ {x} : attempts'[i] = attempts[i]
  BY <1>5, <1>6, <1>9, <1>10, ReplaceFacts DEF Stored
<1>12. \A i \in DOMAIN attempts :
         /\ attempts'[i].row = attempts[i].row /\ attempts'[i].started = attempts[i].started
         /\ attempts'[i].late = attempts[i].late
  BY <1>6, <1>9, <1>11
<1>13. w \in RowType /\ w.status = s
  BY <1>3, <1>4, <1>8 DEF RowType
<1>14. row' = [row EXCEPT ![q] = w]
  BY <1>2, <1>3 DEF Settle
<1>15. PICK k : /\ consumer' = [consumer EXCEPT ![c] = k] /\ Sound(c, k, attempts', lapsed)
                /\ k.pc \notin Busy
  <2>1. CASE Becomes(c, Done(c))
    BY <2>1, DoneSound DEF Becomes
  <2>2. CASE Goes(c, "raise")
    <3>1. PICK k : k = [h EXCEPT !.pc = "raise"]
      OBVIOUS
    <3>2. k \in ConsumerType /\ k.pc = "raise" /\ k.row = q /\ k.todo = h.todo
      BY <1>2, <1>4, <3>1 DEF ConsumerType
    <3>3. Sound(c, k, attempts', lapsed) /\ k.pc \notin Busy
      BY <1>1, <1>2, <1>4, <3>2 DEF Sound, Resting, Reading, Trying, Busy
    <3> QED BY <2>2, <3>1, <3>3 DEF Goes, Becomes
  <2> QED BY <2>1, <2>2 DEF Settle
<1>16. Backed(q, w, attempts', lapsed)
  <2>1. x \in Of(attempts', q) /\ attempts'[x].outcome = result
    BY <1>6, <1>9, <1>11 DEF Of
  <2> QED BY <1>8, <1>13, <2>1 DEF Backed
<1>17. c = Huey /\ q \in WorkerRow => WorkerOK(q, w, attempts', received', k)
  <2> SUFFICES ASSUME c = Huey, q \in WorkerRow PROVE WorkerOK(q, w, attempts', received, k)
    BY <1>1
  <2>1. /\ h.result = "ok" => s = "delivered"
        /\ h.result = "unknown" => s = "uncertain"
        /\ h.row = q /\ ~attempts'[h.id].open
        /\ \A i \in DOMAIN attempts \ {h.id} : attempts'[i].open = attempts[i].open
    BY <1>2, <1>8, <1>9, <1>11
  <2>2. PICK u, a, b, got, g : u = row[q] /\ a = attempts /\ b = attempts' /\ got = received /\ g = h
    OBVIOUS
  <2>3. u \in RowType /\ WorkerOK(q, u, a, got, g) /\ g.row = q /\ g.pc = "settle"
    BY <1>1, <1>4, <2>1, <2>2
  <2>4. /\ DOMAIN b = DOMAIN a /\ ~b[g.id].open
        /\ \A i \in DOMAIN a : /\ b[i].row = a[i].row /\ b[i].started = a[i].started
                              /\ b[i].late = a[i].late
        /\ \A i \in DOMAIN a \ {g.id} : b[i].open = a[i].open
    BY <1>11, <1>12, <2>1, <2>2
  <2>5. (g.result = "ok" => s = "delivered") /\ (g.result = "unknown" => s = "uncertain")
    BY <2>1, <2>2
  <2>6. k.pc \notin Busy
    BY <1>15
  <2>7. WorkerOK(q, [u EXCEPT !.status = s], b, got, k)
    BY <2>3, <2>4, <2>5, <2>6, RowSettles
  <2> QED BY <1>3, <2>2, <2>7
<1>18. received' \subseteq DOMAIN attempts' /\ h.pc \notin Resting
  BY <1>1, <1>5, <1>11 DEF Stored, Resting
<1>19. \A i \in DOMAIN attempts : attempts[i].row # q => attempts'[i] = attempts[i]
  BY <1>6, <1>11
<1> QED BY <1>1, <1>2, <1>4, <1>11, <1>12, <1>13, <1>14, <1>15, <1>16, <1>17, <1>18, <1>19,
           DeliverKeeps

-----------------------------------------------------------------------------
(* recover_incomplete_attempts *)

LEMMA RecoverReadsKeeps ==
    ASSUME QueueInv, RecoverReads
    PROVE  QueueInv'
<1>1. /\ Stored /\ Steady /\ Huey \in Consumer
      /\ UNCHANGED <<row, attempts, received, fence, accepted, tasks, producer, canceller, lapsed>>
  BY DEF QueueInv, Consumer, RecoverReads
<1>2. PICK a, open, begun : /\ a = attempts /\ open = Incomplete
                            /\ begun = {i \in Incomplete : attempts[i].started}
  OBVIOUS
<1>3. PICK k : k = [Ready EXCEPT !.pc = "recover", !.found = open, !.started = begun]
  OBVIOUS
<1>4. /\ open \subseteq DOMAIN a /\ begun \subseteq open /\ DOMAIN a \subseteq Nat
      /\ \A i \in open : a[i].open /\ row[a[i].row].status = "processing"
      /\ \A i \in open : a[i].started <=> i \in begun
  <2>1. DOMAIN a = 1 .. Len(a) /\ Len(a) \in Nat
    BY <1>1, <1>2, SeqFacts DEF Stored
  <2> QED BY <1>2, <2>1 DEF Incomplete
<1>5. /\ k \in ConsumerType /\ k.pc = "recover" /\ k.found = open /\ k.started = begun
      /\ k.row = NoRow
  <2>1. Ready.row = NoRow
    BY DEF Ready
  <2> QED BY <1>3, <1>4, <2>1, ReadyType DEF ConsumerType
<1>6. k.row \notin Row
  BY <1>5, QueueAssumption
<1>7. Sound(Huey, k, a, lapsed)
  BY <1>4, <1>5, <1>6 DEF Sound, Resting, Trying
<1>8. /\ consumer' \in [Consumer -> ConsumerType]
      /\ \A c \in Consumer : consumer'[c] = IF c = Huey THEN k ELSE consumer[c]
  BY <1>1, <1>2, <1>3, <1>5 DEF RecoverReads, Becomes, Steady
<1>9. Stored' /\ Steady'
  <2>1. \A c \in Consumer : Sound(c, consumer'[c], attempts', lapsed')
    BY <1>1, <1>2, <1>7, <1>8 DEF Steady
  <2> QED BY <1>1, <1>8, <2>1 DEF Stored, Steady
<1>10. ASSUME NEW r \in WorkerRow
       PROVE  WorkerOK(r, row[r], a, received, k) /\ Recalls(r, row[r], a, k)
  <2>1. PICK w, h, got : w = row[r] /\ h = consumer[Huey] /\ got = received
    OBVIOUS
  <2>2. r \in Row /\ WorkerOK(r, w, a, got, h)
    BY <1>2, <2>1 DEF QueueInv, WorkerRow
  <2>3. k.row # r
    BY <1>6, <2>2
  <2>4. WorkerOK(r, w, a, got, k)
    BY <2>2, <2>3, RowStays
  <2>5. Recalls(r, w, a, k)
    BY <1>4, <1>5, <2>1 DEF Recalls, Of
  <2> QED BY <2>1, <2>4, <2>5
<1>11. consumer'[Huey] = k
  BY <1>1, <1>8
<1> QED BY <1>1, <1>2, <1>9, <1>10, <1>11 DEF QueueInv, WorkerRow

LEMMA RecoverWritesKeeps ==
    ASSUME QueueInv, RecoverWrites
    PROVE  QueueInv'
<1> DEFINE h == consumer[Huey]
<1>1. /\ Stored /\ Steady /\ Huey \in Consumer
      /\ UNCHANGED <<received, fence, accepted, tasks, producer, canceller, lapsed>>
      /\ h.pc = "recover"
  BY DEF QueueInv, Consumer, RecoverWrites
<1>2. PICK a, b, found, past, begun, broken :
        /\ a = attempts /\ b = attempts' /\ found = h.found /\ past = h.started
        /\ begun = StartedRows /\ broken = InterruptedRows
  OBVIOUS
<1>3. PICK last \in SUBSET (begun \intersect broken) :
        row' = [r \in Row |-> IF r \in begun \union broken
             THEN [row[r] EXCEPT !.status = IF r \notin broken \/ r \in last THEN "uncertain" ELSE "failed"]
             ELSE row[r]]
  <2>1. \E last \in SUBSET (StartedRows \intersect InterruptedRows) :
          row' = [r \in Row |-> IF r \in StartedRows \union InterruptedRows
             THEN [row[r] EXCEPT !.status = RecoveredStatus(r \notin InterruptedRows \/ r \in last)]
             ELSE row[r]]
    BY Zenon DEF RecoverWrites
  <2> QED BY <1>2, <2>1, Zenon DEF RecoveredStatus
<1>4. /\ a \in Seq(AttemptType) /\ found \subseteq DOMAIN a /\ past \subseteq found
      /\ \A i \in DOMAIN a : a[i] \in AttemptType
  <2>1. Sound(Huey, h, attempts, lapsed)
    BY <1>1 DEF Steady
  <2> QED BY <1>1, <1>2, <2>1, SeqFacts DEF Stored, Sound
<1>5. /\ \A r : r \in begun <=> \E i \in past : a[i].row = r
      /\ \A r : r \in broken <=> \E i \in found \ past : a[i].row = r
  BY <1>2 DEF StartedRows, InterruptedRows
<1>7. b = [i \in DOMAIN a |->
             IF i \in found
             THEN [a[i] EXCEPT !.open = FALSE,
                               !.outcome = IF i \in past THEN "unknown" ELSE "interrupted",
                               !.retaken = a[i].retaken \/ i \notin past]
             ELSE a[i]]
  BY <1>2 DEF RecoverWrites
<1>8. ASSUME NEW i \in DOMAIN a
      PROVE  /\ b[i] \in AttemptType /\ b[i].row = a[i].row /\ b[i].started = a[i].started
             /\ b[i].late = a[i].late
             /\ i \notin found => b[i] = a[i]
             /\ i \in found => ~b[i].open
             /\ i \in found => b[i].outcome = IF i \in past THEN "unknown" ELSE "interrupted"
  <2>1. a[i] \in AttemptType
    BY <1>4
  <2>2. CASE i \notin found
    BY <1>7, <2>1, <2>2
  <2>3. CASE i \in found
    <3>1. PICK o, t : /\ o = IF i \in past THEN "unknown" ELSE "interrupted"
                      /\ t = (a[i].retaken \/ i \notin past)
      OBVIOUS
    <3>2. b[i] = [a[i] EXCEPT !.open = FALSE, !.outcome = o, !.retaken = t]
      BY <1>7, <2>3, <3>1, Zenon
    <3>3. o \in Outcomes
      BY <3>1 DEF Outcomes, Results
    <3>4. t \in BOOLEAN
      BY <3>1, Zenon
    <3>5. PICK z : z = a[i]
      OBVIOUS
    <3>6. /\ b[i] \in AttemptType /\ b[i].row = z.row /\ b[i].started = z.started
          /\ b[i].late = z.late /\ ~b[i].open /\ b[i].outcome = o
      BY <2>1, <3>2, <3>3, <3>4, <3>5 DEF AttemptType
    <3> QED BY <2>3, <3>1, <3>5, <3>6
  <2> QED BY <2>2, <2>3
<1>9. DOMAIN b = DOMAIN a /\ b \in Seq(AttemptType)
  <2>1. b = [i \in DOMAIN a |-> b[i]]
    BY <1>7
  <2> QED BY <1>4, <1>8, <2>1, MapFacts
<1>10. \A r \in Row : \A i \in Of(a, r) : i \in DOMAIN a /\ a[i].row = r
  BY DEF Of
<1>11. \A r \in Row : Of(b, r) = Of(a, r)
  BY <1>8, <1>9 DEF Of
<1>12. \A i \in found : i \in Of(a, a[i].row) /\ a[i].row \in Row
  BY <1>4 DEF Of, AttemptType
<1>13. begun \subseteq Row /\ broken \subseteq Row
  BY <1>4, <1>5, <1>12
<1>14. ASSUME NEW r \in Row, r \notin begun \union broken
       PROVE  row'[r] = row[r] /\ \A i \in Of(a, r) : b[i] = a[i]
  <2>1. row'[r] = row[r]
    BY <1>3, <1>14
  <2>2. \A i \in Of(a, r) : i \notin found
    BY <1>5, <1>10, <1>14
  <2> QED BY <1>8, <1>10, <2>1, <2>2
<1>15. ASSUME NEW r \in begun \union broken
       PROVE  \E s, x : /\ row'[r] = [row[r] EXCEPT !.status = s]
                        /\ x \in found /\ x \in Of(a, r)
                        /\ \/ s = "uncertain" /\ x \in past
                           \/ s = "failed" /\ x \notin past
  <2>1. r \in Row
    BY <1>13
  <2>2. row'[r] = [row[r] EXCEPT !.status = IF r \notin broken \/ r \in last THEN "uncertain" ELSE "failed"]
    BY <1>3, <2>1
  <2>3. CASE r \notin broken \/ r \in last
    <3>1. PICK x \in past : a[x].row = r
      BY <1>5, <2>3
    <3> QED BY <1>4, <1>12, <2>2, <2>3, <3>1
  <2>4. CASE ~(r \notin broken \/ r \in last)
    <3>1. PICK x \in found \ past : a[x].row = r
      BY <1>5, <2>4
    <3> QED BY <1>12, <2>2, <2>4, <3>1
  <2> QED BY <2>3, <2>4
<1>16. PICK k : k = [Ready EXCEPT !.pc = "reschedule", !.todo = broken]
  OBVIOUS
<1>17. k \in ConsumerType /\ k.pc = "reschedule"
  BY <1>13, <1>16, ReadyType DEF ConsumerType
<1>18. Sound(Huey, k, b, lapsed) /\ k.pc \notin Busy /\ k.pc # "recover"
  BY <1>17, StartupSound
<1>19. /\ consumer' \in [Consumer -> ConsumerType]
       /\ \A c \in Consumer : consumer'[c] = IF c = Huey THEN k ELSE consumer[c]
  BY <1>1, <1>2, <1>16, <1>17 DEF RecoverWrites, Becomes, Steady
<1>20. \A r \in Row : row[r] \in RowType /\ row'[r] \in RowType
  <2> SUFFICES ASSUME NEW r \in Row PROVE row[r] \in RowType /\ row'[r] \in RowType
    OBVIOUS
  <2>1. row[r] \in RowType
    BY <1>1 DEF Stored
  <2>2. CASE r \in begun \union broken
    <3>1. \E s \in {"uncertain", "failed"} : row'[r] = [row[r] EXCEPT !.status = s]
      BY <1>15, <2>2
    <3> QED BY <2>1, <3>1 DEF RowType
  <2>3. CASE r \notin begun \union broken
    BY <1>14, <2>1, <2>3
  <2> QED BY <2>1, <2>2, <2>3
<1>21. Stored'
  <2>1. row' \in [Row -> RowType]
    BY <1>3, <1>20
  <2>2. received' \subseteq DOMAIN attempts' /\ attempts' \in Seq(AttemptType)
    BY <1>1, <1>2, <1>9 DEF Stored
  <2> QED BY <1>1, <2>1, <2>2 DEF Stored
<1>22. Steady'
  <2>1. ASSUME NEW c \in Consumer PROVE Sound(c, consumer'[c], attempts', lapsed')
    <3>1. CASE c = Huey
      BY <1>1, <1>2, <1>18, <1>19, <3>1
    <3>2. CASE c # Huey
      <4>1. Sound(c, consumer[c], a, lapsed)
        BY <1>1, <1>2 DEF Steady
      <4>2. Sound(c, consumer[c], b, lapsed)
        BY <1>8, <1>9, <4>1, SoundStays
      <4> QED BY <1>1, <1>2, <1>19, <3>2, <4>2
    <3> QED BY <3>1, <3>2
  <2> QED BY <1>19, <2>1 DEF Steady
<1>23. ASSUME NEW r \in Row PROVE Backed(r, row'[r], b, lapsed)
  <2>1. CASE r \notin begun \union broken
    <3>1. Backed(r, row[r], a, lapsed)
      BY <1>2 DEF QueueInv
    <3>2. Backed(r, row[r], b, lapsed)
      BY <1>11, <1>14, <2>1, <3>1, BackedStays
    <3> QED BY <1>14, <2>1, <3>2
  <2>2. CASE r \in begun \union broken
    <3>1. PICK s, x : /\ row'[r] = [row[r] EXCEPT !.status = s]
                      /\ x \in found /\ x \in Of(a, r)
                      /\ \/ s = "uncertain" /\ x \in past
                         \/ s = "failed" /\ x \notin past
      BY <1>15, <2>2
    <3>2. row'[r].status = s
      BY <1>20, <3>1 DEF RowType
    <3>3. x \in Of(b, r) /\ b[x].outcome = IF x \in past THEN "unknown" ELSE "interrupted"
      BY <1>4, <1>8, <1>11, <3>1
    <3> QED BY <3>1, <3>2, <3>3 DEF Backed
  <2> QED BY <2>1, <2>2
<1>24. ASSUME NEW r \in WorkerRow PROVE WorkerOK(r, row'[r], b, received, k)
  <2>1. PICK w, g, got : w = row[r] /\ g = h /\ got = received
    OBVIOUS
  <2>2. r \in Row /\ w \in RowType /\ WorkerOK(r, w, a, got, g) /\ Recalls(r, w, a, g)
    BY <1>2, <1>20, <2>1 DEF QueueInv, WorkerRow
  <2>3. CASE r \notin begun \union broken
    <3>1. row'[r] = w /\ Of(b, r) = Of(a, r) /\ \A i \in Of(a, r) : b[i] = a[i]
      BY <1>11, <1>14, <2>1, <2>2, <2>3
    <3>2. WorkerOK(r, w, b, got, k)
      BY <1>18, <2>2, <3>1, RowStays
    <3> QED BY <2>1, <3>1, <3>2
  <2>4. CASE r \in begun \union broken
    <3>1. PICK s, x : /\ row'[r] = [w EXCEPT !.status = s]
                      /\ x \in found /\ x \in Of(a, r)
                      /\ \/ s = "uncertain" /\ x \in past
                         \/ s = "failed" /\ x \notin past
      BY <1>15, <2>1, <2>4
    <3>2. /\ a[x].open /\ (a[x].started <=> x \in past)
          /\ w.cancelled \/ w.status = "processing"
      BY <1>1, <1>2, <2>1, <2>2, <3>1 DEF Recalls
    <3>3. \A i \in DOMAIN a : b[i].open => a[i].open
      <4> SUFFICES ASSUME NEW i \in DOMAIN a, b[i].open PROVE a[i].open
        OBVIOUS
      <4>1. i \notin found
        BY <1>8
      <4>2. b[i] = a[i]
        BY <1>8, <4>1
      <4> QED BY <4>2
    <3>4. s = "uncertain" \/ ~a[x].started
      BY <3>1, <3>2
    <3>5. ~b[x].open
      BY <1>4, <1>8, <3>1
    <3>6. \A i \in DOMAIN a : /\ b[i].row = a[i].row /\ b[i].started = a[i].started
                              /\ b[i].late = a[i].late
      BY <1>8
    <3>7. WorkerOK(r, [w EXCEPT !.status = s], b, got, k)
      BY <1>9, <1>18, <2>2, <3>1, <3>2, <3>3, <3>4, <3>5, <3>6, RowRecovers
    <3> QED BY <2>1, <3>1, <3>7
  <2> QED BY <2>3, <2>4
<1>25. consumer'[Huey] = k
  BY <1>1, <1>19
<1>26. ASSUME NEW r PROVE Recalls(r, row'[r], b, k)
  BY <1>18 DEF Recalls
<1> QED BY <1>1, <1>2, <1>21, <1>22, <1>23, <1>24, <1>25, <1>26 DEF QueueInv, WorkerRow

-----------------------------------------------------------------------------
(* The invariant *)

LEMMA QueueInit ==
    ASSUME Init
    PROVE  QueueInv
<1>1. AbsentRow \in RowType /\ AbsentRow.status = "absent"
  BY DEF AbsentRow, RowType
<1>2. NotCancelling \in [pc : {"idle", "mark"}, rows : SUBSET Row]
  BY DEF NotCancelling
<1>3. \A r \in Row : row[r] = AbsentRow
  BY DEF Init
<1>4. attempts = <<>> /\ received = {} /\ DOMAIN attempts = {}
  BY DEF Init
<1>5. attempts \in Seq(AttemptType)
  BY <1>4
<1>6. Stored
  BY <1>1, <1>2, <1>4, <1>5 DEF Init, Stored
<1>7. PICK k : k = [Ready EXCEPT !.pc = "startup"]
  OBVIOUS
<1>8. k \in ConsumerType /\ k.pc = "startup"
  BY <1>7, ReadyType DEF ConsumerType
<1>9. consumer = [c \in Consumer |-> IF c = Huey THEN k ELSE Ready]
  BY <1>7 DEF Init
<1>10. consumer \in [Consumer -> ConsumerType]
  BY <1>8, <1>9, ReadyType
<1>11. \A c \in Consumer : Sound(c, consumer[c], attempts, lapsed)
  BY <1>8, <1>9, StartupSound, ReadySound
<1>12. consumer[Huey].pc \notin Busy
  BY <1>8, <1>9 DEF Consumer, Busy, Reading, Trying
<1>13. \A r : Of(attempts, r) = {}
  BY <1>4 DEF Of
<1>14. \A r \in Row : Backed(r, row[r], attempts, lapsed)
  BY <1>1, <1>3 DEF Backed
<1>15. ASSUME NEW r \in WorkerRow
       PROVE  WorkerOK(r, row[r], attempts, received, consumer[Huey])
  <2>1. /\ Visible(r, row[r], attempts, received) /\ OneOpen(r, row[r], attempts)
        /\ OneLate(r, row[r], attempts)
    BY <1>13 DEF Visible, OneOpen, OneLate
  <2>2. Knows(r, row[r], attempts, received, consumer[Huey])
    BY <1>12 DEF Knows, Busy, Trying
  <2> QED BY <2>1, <2>2 DEF WorkerOK
<1>16. \A r \in WorkerRow : Recalls(r, row[r], attempts, consumer[Huey])
  BY <1>12 DEF Recalls, Busy
<1> QED BY <1>6, <1>10, <1>11, <1>14, <1>15, <1>16 DEF QueueInv, Steady

\* One row delivered, step by step.
LEMMA DeliveryKeeps ==
    ASSUME QueueInv, NEW c \in Consumer, Deliver(c)
    PROVE  QueueInv'
BY ReadRowKeeps, ExpireRowKeeps, CountAttemptsKeeps, BeginAttemptKeeps, QuietWindowKeeps,
   MarkTransportStartedKeeps, TransportKeeps, SettleKeeps, RaiseKeeps DEF Deliver

LEMMA QueueStep ==
    ASSUME QueueInv, [Next]_vars
    PROVE  QueueInv'
<1>1. Huey \in Consumer /\ Inline \subseteq Consumer
  BY DEF Consumer
<1>2. ASSUME NEW e \in Event, Lapse(e) \/ ProducerStep(e) \/ ProducerCrash(e) \/ CancellerStep(e)
      PROVE  QueueInv'
  BY <1>2, ProducerKeeps, ScheduleKeeps, CancellerKeeps DEF ProducerStep, CancellerStep
<1>3. CASE WorkerStep
  BY <1>1, <1>3, RecoverReadsKeeps, RecoverWritesKeeps, RescheduleKeeps, TakeKeeps, DeliveryKeeps DEF WorkerStep
<1>4. ASSUME NEW c \in Inline, TakeInline(c) \/ Deliver(c)
      PROVE  QueueInv'
  BY <1>1, <1>4, TakeInlineKeeps, DeliveryKeeps
<1>5. ASSUME NEW c \in Consumer, StoreFails(c) \/ ConsumerCrash(c)
      PROVE  QueueInv'
  BY <1>5, StoreFailsKeeps, ConsumerCrashKeeps
<1>6. CASE UNCHANGED vars
  <2>1. UNCHANGED <<row, attempts, received, consumer, lapsed>> /\ Stored'
    BY <1>6 DEF vars, QueueInv, Stored
  <2> QED BY <2>1, RowsMove
<1> QED BY <1>2, <1>3, <1>4, <1>5, <1>6 DEF Next

\* Every state of the queue satisfies the inductive invariant: the tables and the
\* processes are well formed, every status is backed, and what the worker knows of
\* its row stays true whatever producers, cancellers, faults and restarts do.
THEOREM QueueInvariant == Spec => []QueueInv
BY QueueInit, QueueStep, PTL DEF Spec

-----------------------------------------------------------------------------
(* What follows from it *)

LEMMA AttemptsAre ==
    ASSUME NEW r
    PROVE  AttemptsOf(r) = Of(attempts, r)
BY DEF AttemptsOf, Of

\* The tables, Huey's queue and the processes keep their types, and a consumer past
\* begin_attempt always has an attempt of its own row in the table.
THEOREM QueueTypes == Spec => []TypeOK
<1>1. QueueInv => TypeOK
  <2> SUFFICES ASSUME QueueInv PROVE TypeOK
    OBVIOUS
  <2>1. Stored /\ Steady
    BY DEF QueueInv
  <2>2. \A c \in Consumer : consumer[c].pc \in {"begun", "send", "settle"} =>
          /\ consumer[c].id \in DOMAIN attempts
          /\ attempts[consumer[c].id].row = consumer[c].row
    BY <2>1 DEF Steady, Sound, Trying
  <2> QED BY <2>1, <2>2 DEF Stored, Steady, RowType, TypeOK
<1> QED BY <1>1, QueueInvariant, PTL

\* Whatever the worker's recovery and the inline jobs settle, in whatever order, a
\* row's status is always the result of one of its attempts, of a cancellation or of
\* its expiry (settle, recover_incomplete_attempts).
THEOREM StatusIsBacked == Spec => []StatusBacked
<1>1. QueueInv => StatusBacked
  <2> SUFFICES ASSUME QueueInv, NEW r \in Row
               PROVE  LET outcomes == {attempts[i].outcome : i \in AttemptsOf(r)} IN
                      /\ row[r].status = "delivered" => outcomes \intersect {"ok", "quiet"} # {}
                      /\ row[r].status = "uncertain" => "unknown" \in outcomes
                      /\ row[r].status = "failed" =>
                           \/ row[r].cancelled \/ EventOf[r] \in lapsed
                           \/ outcomes \intersect {"refused", "permanent", "interrupted"} # {}
    BY DEF StatusBacked
  <2>1. Backed(r, row[r], attempts, lapsed)
    BY DEF QueueInv
  <2>2. PICK done : done = {attempts[i].outcome : i \in AttemptsOf(r)}
    OBVIOUS
  <2>3. \A i \in Of(attempts, r) : attempts[i].outcome \in done
    BY <2>2, AttemptsAre
  <2>4. /\ row[r].status = "delivered" => done \intersect {"ok", "quiet"} # {}
        /\ row[r].status = "uncertain" => "unknown" \in done
        /\ row[r].status = "failed" =>
             \/ row[r].cancelled \/ EventOf[r] \in lapsed
             \/ done \intersect {"refused", "permanent", "interrupted"} # {}
    BY <2>1, <2>3 DEF Backed
  <2> QED BY <2>2, <2>4
<1> QED BY <1>1, QueueInvariant, PTL

\* A recipient sees a row of the worker at most once, for any number of crashes,
\* retries, cancellations and duplicate tasks (begin_attempt, recover_incomplete_attempts).
THEOREM RecipientSeesOnce == Spec => []SentOnce
<1>1. QueueInv => SentOnce
  BY AttemptsAre DEF QueueInv, SentOnce, WorkerOK, Visible
<1> QED BY <1>1, QueueInvariant, PTL

\* A row of the worker that reached its recipient is never shown as not sent unless
\* a canceller marked it (settle, recover_incomplete_attempts).
THEOREM NothingSentIsLost == Spec => []ReceivedRemembered
<1>1. QueueInv => ReceivedRemembered
  <2> SUFFICES ASSUME QueueInv, NEW r \in WorkerRow, NEW i \in received \intersect Of(attempts, r)
               PROVE  row[r].cancelled \/ row[r].status \in Resolved
    BY AttemptsAre DEF ReceivedRemembered
  <2> QED BY DEF QueueInv, WorkerOK, Visible, Resolved
<1> QED BY <1>1, QueueInvariant, PTL

\* After a cancellation a row of the worker begins at most the one attempt whose
\* begin_attempt had read the row before (cancel, begin_attempt).
THEOREM OneLateAttempt == Spec => []CancelStopsRetries
<1>1. QueueInv => CancelStopsRetries
  <2> SUFFICES ASSUME QueueInv, NEW r \in WorkerRow
               PROVE  Cardinality({i \in AttemptsOf(r) : attempts[i].late}) <= 1
    BY DEF CancelStopsRetries
  <2>1. PICK S : S = {i \in AttemptsOf(r) : attempts[i].late}
    OBVIOUS
  <2>2. \A i, j \in S : i = j
    BY <2>1, AttemptsAre DEF QueueInv, WorkerOK, OneLate
  <2>3. CASE S = {}
    <3>1. Cardinality(S) = 0
      BY <2>3, FS_EmptySet
    <3> QED BY <2>1, <3>1
  <2>4. CASE S # {}
    <3>1. PICK i : S = {i}
      BY <2>2, <2>4
    <3>2. Cardinality(S) = 1
      BY <3>1, FS_Singleton
    <3> QED BY <2>1, <3>2
  <2> QED BY <2>3, <2>4
<1> QED BY <1>1, QueueInvariant, PTL

=============================================================================
