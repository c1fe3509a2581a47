----------------------- MODULE SessionFinalizeProofs -----------------------
(***************************************************************************)
(* The session finalizer implements the quote lake, with TLAPS: whatever   *)
(* it does to the lake is a step that QuoteLake allows, so that what is    *)
(* proved of the lake holds of the composition.                            *)
(***************************************************************************)
EXTENDS SessionFinalize, QuoteLakeProofs

-----------------------------------------------------------------------------
(* The inductive invariant *)

\* A run started in the past.
RunTyped == fin \in Run /\ fin.at <= now

\* Every run publishes at most once, and owes or has sent at most one review.
ReviewsCounted ==
    /\ owed \in Nat /\ reviews \in Nat /\ runs \in 0 .. MaxRuns
    /\ owed + reviews <= runs
    /\ fin.pc # "idle" => owed + reviews < runs

Published == artifacts \subseteq Artifact

\* A compaction of the finalizer's belongs to a run that waits for it.
Running == Finalizing => fin.pc = "compacting"

FinalizeInv == LakeInv /\ RunTyped /\ ReviewsCounted /\ Published /\ Running

finVars == <<fin, artifacts, owed, reviews, runs>>

-----------------------------------------------------------------------------
(* The finalizer's steps as steps of the lake *)

\* Every step of the composition is a step of the lake or leaves it alone.
LEMMA StepsOfTheLake ==
    ASSUME FinalizeInv, Next PROVE [LakeNext]_lakeVars
<1>1. fin.at \in Started
  BY LakeAssumption DEF FinalizeInv, RunTyped, Run, Started, LakeInv, LakeTypeOK, Time
<1>2. CASE LakeAlone
  <2>1. ASSUME NEW h \in Hours, NEW at \in Started, HourlyCompact(h, at) PROVE LakeNext
    BY <2>1 DEF HourlyCompact, LakeNext, Owner
  <2> QED BY <1>2, <2>1 DEF LakeAlone, Alone, LakeNext, CompactStep
<1>3. CASE CompactLooks \/ CompactChecks \/ CompactDone \/ CompactStops
  BY <1>3 DEF CompactLooks, CompactChecks, CompactDone, CompactStops, LakeNext, CompactStep
<1>4. CASE StartPressureCheck \/ StartFinalize
  BY <1>4 DEF StartPressureCheck, StartFinalize, Begin
<1>5. CASE FinalizerStep
  <2>1. ASSUME NEW h \in Hours, PrepareCompact(h) PROVE LakeNext
    BY <1>1, <2>1 DEF PrepareCompact, LakeNext, Owner
  <2>2. ASSUME NEW h \in Hours, CleanupDelete(h) PROVE LakeNext
    BY <1>1, <2>2 DEF CleanupDelete, LakeNext
  <2>3. ASSUME NEW h \in Hours, PrepareVerify(h) \/ CleanupSkip(h) PROVE UNCHANGED lakeVars
    BY <2>3 DEF PrepareVerify, CleanupSkip
  <2>4. ASSUME Blocked \/ Publish \/ DeleteDone \/ FinishRun PROVE UNCHANGED lakeVars
    BY <2>4 DEF Blocked, Publish, DeleteDone, FinishRun
  <2> QED BY <1>5, <2>1, <2>2, <2>3, <2>4 DEF FinalizerStep
<1>6. CASE SendReview
  BY <1>6 DEF SendReview
<1>7. CASE FinalizerStops
  BY <1>7 DEF FinalizerStops, LakeNext
<1> QED BY <1>2, <1>3, <1>4, <1>5, <1>6, <1>7 DEF Next

\* The clock of the lake never goes back.
LEMMA ClockForward ==
    ASSUME LakeInv, LakeNext PROVE now' >= now
<1>1. now \in Nat
  BY LakeAssumption DEF LakeInv, LakeTypeOK, Time
<1>2. CASE Tick
  BY <1>1, <1>2 DEF Tick
<1>3. ASSUME NEW h \in Hours, WriterOpen(h) \/ WriterFlush(h) \/ WriterCrash(h)
      PROVE  UNCHANGED now
  BY <1>3 DEF WriterOpen, WriterFlush, WriterCrash
<1>4. ASSUME NEW h \in Hours, NEW at \in Started, RequestDelete(h, at) PROVE UNCHANGED now
  BY <1>4 DEF RequestDelete
<1>5. ASSUME NEW h \in Hours, NEW at \in Started, NEW c \in Owner, CompactStarts(c, h, at)
      PROVE  UNCHANGED now
  BY <1>5 DEF CompactStarts
<1>6. CASE CompactSnapshot \/ MarkEmpty \/ Normalize \/ CheckSource \/ ReplaceParquet
           \/ WriteManifest
  BY <1>1, <1>6 DEF CompactSnapshot, MarkEmpty, Normalize, CheckSource, ReplaceParquet,
                    WriteManifest
<1>7. CASE TakeCompactLock \/ TakePathLock \/ Authorize \/ QuarantineRaw
           \/ VerifyQuarantine \/ UnlinkQuarantine \/ FinalAudit
  BY <1>1, <1>7 DEF TakeCompactLock, TakePathLock, Authorize, QuarantineRaw,
                    VerifyQuarantine, UnlinkQuarantine, FinalAudit
<1>8. CASE DeleteFails \/ JobStops \/ RequestStops
  BY <1>1, <1>8 DEF DeleteFails, JobStops, RequestStops
<1> QED BY <1>1, <1>2, <1>3, <1>4, <1>5, <1>6, <1>7, <1>8, LakeActions

-----------------------------------------------------------------------------
(* The finalizer's own state *)

LEMMA RestingRun == Resting \in Run /\ Resting.pc = "idle" /\ Resting.at = 0
BY LakeAssumption DEF Resting, Run, Time

\* A clean-up begins with the hours that have a landing file.
LEMMA CleanupRun ==
    ASSUME LakeTypeOK
    PROVE  Cleanup \in Run /\ Cleanup.pc = "cleanup" /\ Cleanup.at = now
<1>1. Discovered \subseteq Hours /\ now \in Time
  BY DEF Discovered, LakeTypeOK
<1> QED BY <1>1, RestingRun DEF Cleanup, Run

\* The evidence of an hour that verifies is evidence.
LEMMA EvidenceType ==
    ASSUME LakeTypeOK, NEW h \in Hours, VerifiedPartition(h) PROVE EvidenceOf(h) \in Evidence
<1>1. manifest[h] \in Manifest
  BY DEF LakeTypeOK
<1>2. manifest[h].status \in {"verified", "empty"}
  BY DEF VerifiedPartition
<1> QED BY <1>1, <1>2 DEF EvidenceOf, Evidence, Manifest

\* The job of an hourly run, of a deletion or of nobody is not the finalizer's.
LEMMA LakeAloneRuns == ASSUME FinalizeInv, LakeAlone PROVE Running'
<1> USE DEF FinalizeInv, Running, Finalizing, LakeInv, LakeTypeOK
<1>1. UNCHANGED fin
  BY DEF LakeAlone, Alone
<1>2. job \in Job
  OBVIOUS
<1>3. CASE UNCHANGED job
  BY <1>1, <1>3
<1>4. ASSUME NEW h \in Hours, NEW at \in Started, HourlyCompact(h, at) PROVE Running'
  BY <1>4, IdleType DEF HourlyCompact, CompactStarts, Job
<1>5. CASE Normalize \/ ReplaceParquet
  <2>1. job.pc \in {"normalize", "replace"} /\ job'.owner = job.owner
    BY <1>2, <1>5 DEF Normalize, ReplaceParquet, Job
  <2> QED BY <1>1, <2>1 DEF Compacting
<1>6. CASE DeleteStep \/ DeleteFails
  <2>1. job'.pc \in {"idle"} \union Deleting
    <3>1. CASE TakeCompactLock
      BY <3>1, IdleType DEF TakeCompactLock, Job, Deleting
    <3>2. CASE TakePathLock \/ Authorize \/ QuarantineRaw
      BY <1>2, <3>2, IdleType DEF TakePathLock, Authorize, QuarantineRaw, Job, Deleting, Fenced
    <3>3. CASE VerifyQuarantine
      BY <1>2, <3>3, IdleType DEF VerifyQuarantine, Job, Deleting, Fenced
    <3>4. CASE UnlinkQuarantine \/ FinalAudit \/ DeleteFails
      BY <1>2, <3>4, IdleType DEF UnlinkQuarantine, FinalAudit, DeleteFails, Job, Deleting, Fenced
    <3> QED BY <1>6, <3>1, <3>2, <3>3, <3>4 DEF DeleteStep
  <2> QED BY <2>1 DEF Deleting, Fenced, Compacting
<1>7. ASSUME Tick \/ \E h \in Hours : Write(h) PROVE UNCHANGED job
  BY <1>7 DEF Tick, Write, WriterOpen, WriterFlush, WriterCrash
<1> QED BY <1>3, <1>4, <1>5, <1>6, <1>7 DEF LakeAlone, Alone

\* A step of the lake alone.
LEMMA LakeAloneKeeps ==
    ASSUME FinalizeInv, LakeAlone, LakeInv', now' >= now PROVE FinalizeInv'
<1>1. UNCHANGED finVars
  BY DEF LakeAlone, Alone, finVars
<1>2. Running'
  BY LakeAloneRuns
<1>3. RunTyped'
  BY <1>1, LakeAssumption DEF FinalizeInv, RunTyped, Run, finVars, LakeInv, LakeTypeOK, Time
<1> QED BY <1>1, <1>2, <1>3 DEF FinalizeInv, ReviewsCounted, Published, finVars

\* A compaction goes on for its owner, or ends and hands the hour back to the
\* run that asked for it.
LEMMA CompactOutcome ==
    ASSUME FinalizeInv, CompactLooks \/ CompactChecks \/ CompactDone \/ CompactStops
    PROVE  \/ UNCHANGED fin /\ (job'.pc = "idle" \/ (Finalizing' => Finalizing))
           \/ /\ Finalizing /\ job'.pc = "idle"
              /\ fin' \in {[fin EXCEPT !.pc = "verify"], Rejected}
<1>1. job \in Job
  BY DEF FinalizeInv, LakeInv, LakeTypeOK
<1>2. CASE CompactLooks
  <2>1. CASE AfterSnapshot(job.hour) \in Compacting
    <3>1. UNCHANGED fin
      BY <1>2, <2>1 DEF CompactLooks
    <3>2. job.pc = "snapshot" /\ job'.owner = job.owner
      BY <1>1, <1>2, <2>1 DEF CompactLooks, CompactSnapshot, Job
    <3> QED BY <3>1, <3>2 DEF Finalizing, Compacting
  <2>2. CASE AfterSnapshot(job.hour) \notin Compacting
    <3>1. job.pc = "snapshot" /\ job'.pc = "idle"
      BY <1>2, <2>2, IdleType DEF CompactLooks, CompactSnapshot
    <3>2. job.hour \in Hours
      BY <3>1 DEF FinalizeInv, LakeInv, Progress
    <3>3. AfterSnapshot(job.hour) \in {"up_to_date", "failed"}
      BY <2>2, <3>2, SnapshotGoesOn DEF FinalizeInv, LakeInv, Compacting
    <3>4. CASE ~Finalizing
      BY <1>2, <2>2, <3>1, <3>4 DEF CompactLooks
    <3>5. CASE Finalizing
      BY <1>2, <2>2, <3>1, <3>3, <3>5 DEF CompactLooks
    <3> QED BY <3>4, <3>5
  <2> QED BY <2>1, <2>2
<1>3. CASE CompactChecks
  <2>1. CASE SourceUnchanged
    <3>1. UNCHANGED fin
      BY <1>3, <2>1 DEF CompactChecks
    <3>2. job.pc = "publish" /\ job'.owner = job.owner
      BY <1>1, <1>3, <2>1 DEF CompactChecks, CheckSource, Job
    <3> QED BY <3>1, <3>2 DEF Finalizing, Compacting
  <2>2. CASE ~SourceUnchanged
    BY <1>3, <2>2, IdleType DEF CompactChecks, CheckSource
  <2> QED BY <2>1, <2>2
<1>4. CASE CompactDone \/ CompactStops
  <2>1. job'.pc = "idle"
    BY <1>4, IdleType DEF CompactDone, CompactStops, MarkEmpty, WriteManifest, JobStops
  <2> QED BY <1>4, <2>1 DEF CompactDone, CompactStops
<1> QED BY <1>2, <1>3, <1>4

LEMMA CompactKeeps ==
    ASSUME FinalizeInv, CompactLooks \/ CompactChecks \/ CompactDone \/ CompactStops,
           LakeInv', now' >= now
    PROVE  FinalizeInv'
<1> USE DEF FinalizeInv
<1>0. UNCHANGED <<artifacts, owed, reviews, runs>>
  BY DEF CompactLooks, CompactChecks, CompactDone, CompactStops
<1>1. /\ fin \in Run /\ job \in Job /\ fin.at \in Nat /\ now \in Nat /\ now' \in Nat
      /\ fin.at <= now
  BY LakeAssumption DEF RunTyped, Run, LakeInv, LakeTypeOK, Time
<1>2. CASE UNCHANGED fin /\ (job'.pc = "idle" \/ (Finalizing' => Finalizing))
  <2>1. Running'
    BY <1>2 DEF Running, Finalizing, Compacting
  <2>2. RunTyped'
    BY <1>1, <1>2 DEF RunTyped
  <2> QED BY <1>0, <1>2, <2>1, <2>2 DEF ReviewsCounted, Published
<1>3. CASE /\ Finalizing /\ job'.pc = "idle"
           /\ fin' \in {[fin EXCEPT !.pc = "verify"], Rejected}
  <2>1. fin.pc = "compacting"
    BY <1>3 DEF Running
  <2>2. [fin EXCEPT !.pc = "verify"] \in Run
    BY <1>1 DEF Run
  <2>3. Rejected \in Run
    <3>1. Done(job.hour) \in SUBSET Hours
      BY <1>1 DEF Done, Run
    <3> QED BY <1>1, <3>1 DEF Rejected, Run
  <2>4. fin' \in Run /\ fin'.at = fin.at
    BY <1>1, <1>3, <2>2, <2>3 DEF Run, Rejected
  <2>5. RunTyped'
    BY <1>1, <2>4 DEF RunTyped
  <2>6. Running'
    BY <1>3 DEF Running, Finalizing, Compacting
  <2> QED BY <1>0, <2>1, <2>5, <2>6 DEF ReviewsCounted, Published
<1> QED BY <1>2, <1>3, CompactOutcome

\* A step of the run's own: it may use the lake, and leaves the run resting or
\* going on.
LEMMA OwnStepKeeps ==
    ASSUME FinalizeInv, LakeInv', now' >= now,
           fin' \in Run, fin'.at <= now, Running', artifacts' \subseteq Artifact,
           owed' \in Nat, reviews' \in Nat, runs' \in 0 .. MaxRuns,
           owed' + reviews' <= runs', fin'.pc # "idle" => owed' + reviews' < runs'
    PROVE  FinalizeInv'
<1>1. now \in Nat /\ now' \in Nat /\ fin'.at \in Nat
  BY LakeAssumption DEF FinalizeInv, LakeInv, LakeTypeOK, Run, Time
<1>2. RunTyped'
  BY <1>1 DEF RunTyped
<1> QED BY <1>2 DEF FinalizeInv, ReviewsCounted, Published

LEMMA StartKeeps ==
    ASSUME FinalizeInv, StartPressureCheck \/ StartFinalize, LakeInv', now' >= now
    PROVE  FinalizeInv'
<1>1. /\ fin.pc = "idle" /\ runs < MaxRuns /\ runs' = runs + 1
      /\ UNCHANGED <<now, job, artifacts, owed, reviews>>
  BY DEF StartPressureCheck, StartFinalize, Begin, lakeVars
<1>2. LakeTypeOK /\ now \in Nat
  BY LakeAssumption DEF FinalizeInv, LakeInv, LakeTypeOK, Time
<1>3. [Cleanup EXCEPT !.pc = "prepare"] \in Run /\ [Cleanup EXCEPT !.pc = "prepare"].at = now
  BY <1>2, CleanupRun DEF Run
<1>4. fin' \in {Cleanup, Resting, [Cleanup EXCEPT !.pc = "prepare"]}
  BY DEF StartPressureCheck, StartFinalize
<1>5. fin' \in Run /\ fin'.at <= now
  <2>1. Cleanup \in Run /\ Cleanup.at <= now
    BY <1>2, CleanupRun
  <2>2. Resting \in Run /\ Resting.at <= now
    BY <1>2, RestingRun
  <2>3. [Cleanup EXCEPT !.pc = "prepare"].at <= now
    BY <1>2, <1>3
  <2> DEFINE p == [Cleanup EXCEPT !.pc = "prepare"]
  <2>4. fin' = Cleanup \/ fin' = Resting \/ fin' = p
    BY <1>4
  <2>5. p \in Run /\ p.at <= now
    BY <1>3, <2>3
  <2> HIDE DEF p
  <2> QED BY <2>1, <2>2, <2>4, <2>5
<1>6. Running'
  BY <1>1 DEF FinalizeInv, Running, Finalizing
<1>7. /\ owed' \in Nat /\ reviews' \in Nat /\ runs' \in 0 .. MaxRuns /\ owed' + reviews' < runs'
      /\ artifacts' \subseteq Artifact
  BY <1>1, FinalizeAssumption DEF FinalizeInv, ReviewsCounted, Published
<1>8. owed' + reviews' <= runs'
  BY <1>1, FinalizeAssumption DEF FinalizeInv, ReviewsCounted
<1> QED BY <1>5, <1>6, <1>7, <1>8, OwnStepKeeps

\* Preparing, verifying, skipping and deleting keep the run going.
LEMMA HourKeeps ==
    ASSUME FinalizeInv, NEW h \in Hours, LakeInv', now' >= now,
           PrepareCompact(h) \/ PrepareVerify(h) \/ CleanupDelete(h) \/ CleanupSkip(h)
    PROVE  FinalizeInv'
<1> USE DEF FinalizeInv
<1>0. UNCHANGED <<artifacts, owed, reviews, runs>>
  BY DEF PrepareCompact, PrepareVerify, CleanupDelete, CleanupSkip
<1>1. /\ LakeTypeOK /\ fin \in Run /\ fin.at <= now /\ Done(h) \subseteq Hours
  BY DEF LakeInv, RunTyped, Done, Run
<1>2. fin.pc \in {"prepare", "verify", "cleanup"}
  BY DEF PrepareCompact, PrepareVerify, CleanupDelete, CleanupSkip
<1>3. fin' \in Run /\ fin'.at = fin.at
  <2>1. CASE PrepareCompact(h) \/ CleanupDelete(h) \/ CleanupSkip(h)
    BY <1>1, <2>1 DEF PrepareCompact, CleanupDelete, CleanupSkip, Run
  <2>2. CASE PrepareVerify(h)
    <3>1. CASE fin' = [fin EXCEPT !.pc = "prepare", !.todo = Done(h), !.ok = FALSE]
      BY <1>1, <3>1 DEF Run
    <3>2. CASE /\ VerifiedPartition(h)
               /\ fin' = [fin EXCEPT !.pc = "prepare", !.todo = Done(h),
                                     !.sources = fin.sources \union {EvidenceOf(h)}]
      <4>1. fin.sources \union {EvidenceOf(h)} \in SUBSET Evidence
        BY <1>1, <3>2, EvidenceType DEF Run
      <4> DEFINE s == fin.sources \union {EvidenceOf(h)}
      <4>2. fin' = [fin EXCEPT !.pc = "prepare", !.todo = Done(h), !.sources = s]
        BY <3>2
      <4> HIDE DEF s
      <4>3. s \in SUBSET Evidence
        BY <4>1 DEF s
      <4> QED BY <1>1, <4>2, <4>3 DEF Run
    <3> QED BY <2>2, <3>1, <3>2 DEF PrepareVerify
  <2> QED BY <2>1, <2>2
<1>4. Running'
  <2>1. CASE PrepareCompact(h)
    BY <1>1, <2>1 DEF PrepareCompact, Run, Running
  <2>2. CASE PrepareVerify(h) \/ CleanupDelete(h) \/ CleanupSkip(h)
    <3>1. UNCHANGED job
      BY <2>2 DEF PrepareVerify, CleanupDelete, CleanupSkip, RequestDelete, lakeVars
    <3> QED BY <1>2, <3>1 DEF Running, Finalizing
  <2> QED BY <2>1, <2>2
<1>5. /\ owed' \in Nat /\ reviews' \in Nat /\ runs' \in 0 .. MaxRuns /\ owed' + reviews' < runs'
      /\ artifacts' \subseteq Artifact /\ owed' + reviews' <= runs'
  BY <1>0, <1>2 DEF ReviewsCounted, Published
<1> QED BY <1>1, <1>3, <1>4, <1>5, OwnStepKeeps

\* Publishing adds an artifact of the evidence the run has verified.
LEMMA PublishRunKeeps ==
    ASSUME FinalizeInv, LakeInv', now' >= now, Publish PROVE FinalizeInv'
<1> USE DEF FinalizeInv
<1>1. /\ LakeTypeOK /\ fin \in Run /\ fin.at <= now /\ fin.pc = "prepare"
      /\ UNCHANGED <<now, job, owed, reviews, runs>>
  BY DEF LakeInv, RunTyped, Publish, lakeVars
<1>2. [sources |-> fin.sources, at |-> fin.at] \in Artifact
  BY <1>1 DEF Artifact, Run
<1>3. artifacts' \subseteq Artifact
  BY <1>2 DEF Publish, Published
<1> DEFINE a == fin.at
<1>4. a \in Time /\ a <= now
  BY <1>1 DEF Run
<1>5. fin' \in {[Cleanup EXCEPT !.at = a, !.new = TRUE], [Cleanup EXCEPT !.at = a], Resting}
  BY DEF Publish
<1> HIDE DEF a
<1>6. /\ [Cleanup EXCEPT !.at = a, !.new = TRUE] \in Run /\ [Cleanup EXCEPT !.at = a] \in Run
      /\ [Cleanup EXCEPT !.at = a, !.new = TRUE].at = a /\ [Cleanup EXCEPT !.at = a].at = a
  BY <1>1, <1>4, CleanupRun DEF Run
<1>7. now \in Nat
  BY <1>1, LakeAssumption DEF LakeTypeOK, Time
<1>8. fin' \in Run /\ fin'.at <= now
  <2> DEFINE p == [Cleanup EXCEPT !.at = a, !.new = TRUE]
             q == [Cleanup EXCEPT !.at = a]
  <2>1. fin' = p \/ fin' = q \/ fin' = Resting
    BY <1>5
  <2>2. p \in Run /\ p.at <= now /\ q \in Run /\ q.at <= now
    BY <1>4, <1>6
  <2>3. Resting \in Run /\ Resting.at <= now
    BY <1>7, RestingRun
  <2> HIDE DEF p, q
  <2> QED BY <2>1, <2>2, <2>3
<1>9. Running'
  BY <1>1 DEF Running, Finalizing
<1>10. /\ owed' \in Nat /\ reviews' \in Nat /\ runs' \in 0 .. MaxRuns /\ owed' + reviews' < runs'
       /\ owed' + reviews' <= runs'
  BY <1>1 DEF ReviewsCounted
<1> QED BY <1>3, <1>8, <1>9, <1>10, OwnStepKeeps

\* The other steps of a run, the review and a crash.
LEMMA RestKeeps ==
    ASSUME FinalizeInv, LakeInv', now' >= now,
           Blocked \/ DeleteDone \/ FinishRun \/ SendReview \/ FinalizerStops
    PROVE  FinalizeInv'
<1> USE DEF FinalizeInv
<1>1. /\ fin \in Run /\ fin.at <= now /\ now \in Nat
      /\ UNCHANGED <<artifacts, runs>>
  BY LakeAssumption DEF LakeInv, LakeTypeOK, Time, RunTyped, Blocked, DeleteDone, FinishRun,
                        SendReview, FinalizerStops
<1>2. fin' \in Run /\ fin'.at <= now
  <2>1. CASE DeleteDone
    BY <1>1, <2>1 DEF DeleteDone, Run
  <2>2. CASE Blocked \/ FinishRun \/ SendReview \/ FinalizerStops
    BY <1>1, <2>2, RestingRun DEF Blocked, FinishRun, SendReview, FinalizerStops
  <2> QED BY <2>1, <2>2
<1>3. Running'
  <2>1. UNCHANGED job
    BY DEF Blocked, DeleteDone, FinishRun, SendReview, FinalizerStops, RequestStops, lakeVars
  <2>2. UNCHANGED fin \/ fin.pc # "compacting"
    BY DEF Blocked, DeleteDone, FinishRun, SendReview, FinalizerStops
  <2> QED BY <2>1, <2>2 DEF Running, Finalizing
<1>4. /\ owed' \in Nat /\ reviews' \in Nat /\ runs' \in 0 .. MaxRuns /\ owed' + reviews' <= runs'
      /\ fin'.pc # "idle" => owed' + reviews' < runs'
  <2>1. CASE Blocked \/ FinalizerStops
    BY <1>1, <2>1, RestingRun DEF Blocked, FinalizerStops, ReviewsCounted
  <2>2. CASE DeleteDone
    BY <1>1, <2>2 DEF DeleteDone, ReviewsCounted, Run
  <2>3. CASE FinishRun
    BY <1>1, <2>3, RestingRun DEF FinishRun, ReviewsCounted
  <2>4. CASE SendReview
    BY <1>1, <2>4 DEF SendReview, ReviewsCounted
  <2> QED BY <2>1, <2>2, <2>3, <2>4
<1>5. artifacts' \subseteq Artifact
  BY <1>1 DEF Published
<1> QED BY <1>2, <1>3, <1>4, <1>5, OwnStepKeeps

-----------------------------------------------------------------------------
(* Theorems *)

LEMMA FinalizeInitially == Init => FinalizeInv
<1> SUFFICES ASSUME Init PROVE FinalizeInv
  OBVIOUS
<1>1. LakeInv
  BY LakeInitially DEF Init
<1>2. RunTyped /\ Running
  BY RestingRun, IdleType, LakeAssumption DEF Init, LakeInit, RunTyped, Running, Finalizing, Compacting
<1>3. ReviewsCounted /\ Published
  BY RestingRun, FinalizeAssumption DEF Init, ReviewsCounted, Published
<1> QED BY <1>1, <1>2, <1>3 DEF FinalizeInv

LEMMA FinalizeStep == ASSUME FinalizeInv, Next PROVE FinalizeInv'
<1>1. now \in Nat /\ LakeInv
  BY LakeAssumption DEF FinalizeInv, LakeInv, LakeTypeOK, Time
<1>2. LakeInv' /\ now' >= now
  <2>1. CASE LakeNext
    BY <1>1, <2>1, LakeStep, ClockForward
  <2>2. CASE UNCHANGED lakeVars
    <3>1. UNCHANGED now
      BY <2>2 DEF lakeVars
    <3> QED BY <1>1, <2>2, <3>1, LakeStutters
  <2> QED BY <2>1, <2>2, StepsOfTheLake
<1>3. CASE FinalizerStep
  BY <1>2, <1>3, HourKeeps, PublishRunKeeps, RestKeeps DEF FinalizerStep
<1> QED
  BY <1>2, <1>3, LakeAloneKeeps, CompactKeeps, StartKeeps, RestKeeps DEF Next

\* Every state of the composition satisfies the inductive invariant.
THEOREM FinalizeInvariant == Spec => []FinalizeInv
<1>1. ASSUME FinalizeInv, UNCHANGED vars PROVE FinalizeInv'
  <2>1. UNCHANGED lakeVars /\ UNCHANGED finVars
    BY <1>1 DEF vars, finVars
  <2>2. LakeInv'
    BY <1>1, <2>1, LakeStutters DEF FinalizeInv
  <2>3. UNCHANGED <<now, job>>
    BY <2>1 DEF lakeVars
  <2> QED BY <1>1, <2>1, <2>2, <2>3
          DEF FinalizeInv, RunTyped, Running, Finalizing, ReviewsCounted, Published, finVars
<1>2. FinalizeInv /\ [Next]_vars => FinalizeInv'
  BY <1>1, FinalizeStep
<1> QED BY <1>2, FinalizeInitially, PTL DEF Spec

\* The finalizer, the pressure check and the hourly job use the lake only
\* through compact_one and delete_raw_if_manifest_matches: the composition
\* implements the specification of the lake.
THEOREM LakeRefined == Spec => LakeImplemented
<1>1. Init => LakeInit
  BY DEF Init
<1>2. ASSUME UNCHANGED vars PROVE UNCHANGED lakeVars
  BY <1>2 DEF vars
<1>3. FinalizeInv /\ [Next]_vars => [LakeNext]_lakeVars
  BY <1>2, StepsOfTheLake
<1> QED BY <1>1, <1>3, FinalizeInvariant, PTL DEF Spec, LakeSpec, LakeImplemented

\* The finalizer's variables keep their types.
THEOREM FinalizeTypeCorrect == Spec => []TypeOK
<1>1. FinalizeInv => TypeOK
  <2> SUFFICES ASSUME FinalizeInv PROVE TypeOK
    OBVIOUS
  <2>1. owed \in 0 .. MaxRuns /\ reviews \in 0 .. MaxRuns /\ runs \in 0 .. MaxRuns
    BY FinalizeAssumption DEF FinalizeInv, ReviewsCounted
  <2> QED BY <2>1 DEF FinalizeInv, LakeInv, RunTyped, Published, TypeOK
<1> QED BY <1>1, FinalizeInvariant, PTL

\* What is proved of the lake holds of the composition: no acknowledged row
\* is lost, and deletions are authorized and leave a readable copy.
THEOREM FinalizeKeepsLake == Spec => [](RowsKept /\ DeletionsAuthorized /\ DeletedStaysInLake)
<1>1. FinalizeInv => RowsKept /\ DeletionsAuthorized /\ DeletedStaysInLake
  BY DEF FinalizeInv, LakeInv
<1> QED BY <1>1, FinalizeInvariant, PTL

-----------------------------------------------------------------------------
(* The human review *)

\* A run that has published will owe a review.
Coming == IF fin.new THEN 1 ELSE 0

Owing == IsFiniteSet(Revisions) /\ reviews + owed + Coming <= Cardinality(Revisions)

\* A step that publishes nothing keeps the count if no review is invented.
LEMMA OwingStays ==
    ASSUME FinalizeInv, Owing, UNCHANGED <<artifacts, owed, reviews>>, fin'.new => fin.new
    PROVE  Owing'
<1>1. UNCHANGED Revisions
  BY DEF Revisions
<1>2. Coming \in {0, 1} /\ Coming' \in {0, 1} /\ Coming' <= Coming
  BY DEF Coming
<1>3. reviews \in Nat /\ owed \in Nat /\ Cardinality(Revisions) \in Nat
  BY FS_CardinalityType DEF FinalizeInv, ReviewsCounted, Owing
<1> QED BY <1>1, <1>2, <1>3 DEF Owing

\* A new artifact brings a revision that was not there.
LEMMA OwingPublished == ASSUME FinalizeInv, Owing, Publish PROVE Owing'
<1>0. UNCHANGED <<owed, reviews>>
  BY DEF Publish
<1>1. CASE SameRevision = {}
  <2> DEFINE a == [sources |-> fin.sources, at |-> fin.at]
             r == Lineage(fin.sources)
  <2>1. artifacts' = artifacts \union {a}
    BY <1>1 DEF Publish
  <2>2. a.sources = fin.sources
    OBVIOUS
  <2> HIDE DEF a
  <2>3. r \notin Revisions
    BY <1>1 DEF SameRevision, Revisions
  <2>4. Revisions' = Revisions \union {r}
    BY <2>1, <2>2 DEF Revisions, Lineage
  <2> HIDE DEF r
  <2>5. IsFiniteSet(Revisions') /\ Cardinality(Revisions') = Cardinality(Revisions) + 1
    BY <2>3, <2>4, FS_AddElement DEF Owing
  <2>6. reviews \in Nat /\ owed \in Nat /\ Cardinality(Revisions) \in Nat
    BY FS_CardinalityType DEF FinalizeInv, ReviewsCounted, Owing
  <2>7. Coming \in {0, 1} /\ Coming' \in {0, 1}
    BY DEF Coming
  <2> QED BY <1>0, <2>5, <2>6, <2>7 DEF Owing
<1>2. CASE SameRevision # {}
  <2>1. UNCHANGED artifacts /\ fin' \in {[Cleanup EXCEPT !.at = fin.at], Resting}
    BY <1>2 DEF Publish
  <2>2. /\ [Cleanup EXCEPT !.at = fin.at].new = FALSE
        /\ Resting.new = FALSE
    BY DEF Cleanup, Resting
  <2>3. fin'.new = FALSE
    BY <2>1, <2>2
  <2> QED BY <1>0, <2>1, <2>3, OwingStays
<1> QED BY <1>1, <1>2

\* The review is owed once the run has ended, and sent once.
LEMMA OwingSettled == ASSUME FinalizeInv, Owing, FinishRun \/ SendReview PROVE Owing'
<1>0. UNCHANGED artifacts
  BY DEF FinishRun, SendReview
<1>1. UNCHANGED Revisions
  BY <1>0 DEF Revisions
<1>2. reviews \in Nat /\ owed \in Nat /\ Cardinality(Revisions) \in Nat
  BY FS_CardinalityType DEF FinalizeInv, ReviewsCounted, Owing
<1>3. CASE FinishRun
  <2>1. owed' = owed + Coming /\ UNCHANGED reviews
    BY <1>2, <1>3 DEF FinishRun, Coming
  <2>2. Coming' = 0 /\ Coming \in {0, 1}
    BY <1>3 DEF FinishRun, Coming, Resting
  <2> QED BY <1>1, <1>2, <2>1, <2>2 DEF Owing
<1>4. CASE SendReview
  <2>1. owed' = owed - 1 /\ reviews' = reviews + 1 /\ UNCHANGED Coming /\ owed' \in Nat
    BY <1>2, <1>4 DEF SendReview, Coming
  <2>2. Coming \in {0, 1}
    BY DEF Coming
  <2> QED BY <1>1, <1>2, <2>1, <2>2 DEF Owing
<1> QED BY <1>3, <1>4

LEMMA OwingStep == ASSUME FinalizeInv, Owing, Next PROVE Owing'
<1>1. fin \in Run
  BY DEF FinalizeInv, RunTyped
<1>2. CASE LakeAlone
  <2>1. UNCHANGED <<fin, artifacts, owed, reviews>>
    BY <1>2 DEF LakeAlone, Alone
  <2> QED BY <2>1, OwingStays
<1>3. CASE CompactLooks \/ CompactChecks \/ CompactDone \/ CompactStops
  <2>1. UNCHANGED <<artifacts, owed, reviews>>
    BY <1>3 DEF CompactLooks, CompactChecks, CompactDone, CompactStops
  <2>2. fin' \in {fin, [fin EXCEPT !.pc = "verify"], Rejected}
    BY <1>3, CompactOutcome
  <2>3. fin'.new => fin.new
    BY <1>1, <2>2 DEF Rejected, Run
  <2> QED BY <2>1, <2>3, OwingStays
<1>4. CASE StartPressureCheck \/ StartFinalize
  <2>1. UNCHANGED <<artifacts, owed, reviews>>
    BY <1>4 DEF StartPressureCheck, StartFinalize, Begin
  <2>2. fin' \in {Cleanup, Resting, [Cleanup EXCEPT !.pc = "prepare"]}
    BY <1>4 DEF StartPressureCheck, StartFinalize
  <2>3. /\ Cleanup.new = FALSE /\ [Cleanup EXCEPT !.pc = "prepare"].new = FALSE
        /\ Resting.new = FALSE
    BY DEF Cleanup, Resting
  <2>4. fin'.new = FALSE
    BY <2>2, <2>3
  <2> QED BY <2>1, <2>4, OwingStays
<1>5. ASSUME NEW h \in Hours,
             PrepareCompact(h) \/ PrepareVerify(h) \/ CleanupDelete(h) \/ CleanupSkip(h)
      PROVE  Owing'
  <2>1. UNCHANGED <<artifacts, owed, reviews>>
    BY <1>5 DEF PrepareCompact, PrepareVerify, CleanupDelete, CleanupSkip
  <2>2. fin'.new => fin.new
    BY <1>1, <1>5 DEF PrepareCompact, PrepareVerify, CleanupDelete, CleanupSkip, Run
  <2> QED BY <2>1, <2>2, OwingStays
<1>6. CASE Blocked \/ DeleteDone \/ FinalizerStops
  <2>1. UNCHANGED <<artifacts, owed, reviews>>
    BY <1>6 DEF Blocked, DeleteDone, FinalizerStops
  <2>2. fin'.new => fin.new
    BY <1>1, <1>6 DEF Blocked, DeleteDone, FinalizerStops, Resting, Run
  <2> QED BY <2>1, <2>2, OwingStays
<1> QED BY <1>2, <1>3, <1>4, <1>5, <1>6, OwingPublished, OwingSettled DEF Next, FinalizerStep

\* The human review goes out at most once for each published revision, on
\* whichever path the clean-up was reached and wherever runs die.
THEOREM ReviewedOnce == Spec => []ReviewPerRevision
<1>1. Init => Owing
  <2> SUFFICES ASSUME Init PROVE Owing
    OBVIOUS
  <2>1. Revisions = {} /\ Coming = 0 /\ owed = 0 /\ reviews = 0
    BY DEF Init, Revisions, Coming, Resting
  <2> QED BY <2>1, FS_EmptySet DEF Owing
<1>2. ASSUME FinalizeInv, Owing, UNCHANGED vars PROVE Owing'
  <2>1. UNCHANGED <<fin, artifacts, owed, reviews>>
    BY <1>2 DEF vars
  <2> QED BY <1>2, <2>1, OwingStays
<1>3. FinalizeInv /\ Owing /\ [Next]_vars => Owing'
  BY <1>2, OwingStep
<1>4. FinalizeInv /\ Owing => ReviewPerRevision
  <2> SUFFICES ASSUME FinalizeInv, Owing PROVE ReviewPerRevision
    OBVIOUS
  <2>1. reviews \in Nat /\ owed \in Nat /\ Cardinality(Revisions) \in Nat /\ Coming \in {0, 1}
    BY FS_CardinalityType DEF FinalizeInv, ReviewsCounted, Owing, Coming
  <2> QED BY <2>1 DEF Owing, ReviewPerRevision
<1> QED BY <1>1, <1>3, <1>4, FinalizeInvariant, PTL DEF Spec

-----------------------------------------------------------------------------
(* The deletion audit *)

Erasing == {"verify", "unlink", "final"}

Granted(h) == [hour |-> h, event |-> "authorize", rows |-> manifest[h].rows]

\* From the fence on, the file is what the manifest says, and before it is
\* moved its hour has been authorized.
Exact ==
    /\ job.pc \in {"rename"} \union Erasing => Granted(job.hour) \in audit
    /\ job.pc \in {"authorize", "rename"} => files[raw[job.hour]].rows = manifest[job.hour].rows
    /\ job.pc \in Erasing => files[job.inode].rows = manifest[job.hour].rows

Deleted(h) == [hour |-> h, event |-> "raw_deleted", rows |-> manifest[h].rows]

\* A verified hour without a landing file is recorded, or about to be.
Recorded ==
    \A h \in Hours :
        manifest[h].status = "verified" /\ raw[h] = 0 =>
            Deleted(h) \in audit \/ (job.pc \in Erasing /\ job.hour = h)

\* A verified hour without a landing file was authorized.
Traced ==
    \A h \in Hours : manifest[h].status = "verified" /\ raw[h] = 0 => Granted(h) \in audit

AuditInv == Exact /\ Traced /\ (faults = 0 => Recorded)

\* Writers leave a file alone whose deletion is past the fence.
LEMMA FencedKept ==
    ASSUME LakeInv, NEW h \in Hours, WriterOpen(h) \/ WriterFlush(h) \/ WriterCrash(h), AuditInv
    PROVE  AuditInv'
<1> USE LakeAssumption DEF LakeInv
<1>1. UNCHANGED <<job, manifest, audit>> /\ (faults' = 0 => faults = 0)
  <2>1. faults \in Nat
    BY DEF LakeTypeOK
  <2> QED BY <2>1 DEF WriterOpen, WriterFlush, WriterCrash
<1>2. \A g \in Hours : raw[g] # 0 => raw'[g] = raw[g]
  BY DEF WriterOpen, OpenRaw, WriterFlush, WriterCrash, LakeTypeOK
<1>3. ASSUME NEW j \in Inode, j \in 1 .. created, j # handle[h] PROVE files'[j] = files[j]
  <2>1. CASE WriterOpen(h)
    BY <1>3, <2>1 DEF WriterOpen, OpenRaw, LakeTypeOK
  <2>2. CASE WriterFlush(h) \/ WriterCrash(h)
    BY <1>3, <2>2 DEF WriterFlush, WriterCrash, LakeTypeOK
  <2> QED BY <2>1, <2>2
<1>4. Exact'
  <2>1. ASSUME job.pc \in {"authorize", "rename"}
        PROVE  files'[raw'[job.hour]].rows = manifest'[job.hour].rows
    <3>1. job.hour \in Hours /\ raw[job.hour] # 0 /\ handle[job.hour] = 0
      BY <2>1 DEF Progress, Fenced
    <3>2. raw[job.hour] \in Inode /\ raw[job.hour] <= created /\ raw'[job.hour] = raw[job.hour]
      BY <1>2, <3>1, NamesType DEF Names
    <3>3. raw[job.hour] # handle[h]
      BY <3>1 DEF Held, Names
    <3>4. raw[job.hour] \in 1 .. created
      BY <3>2 DEF Inode, LakeTypeOK
    <3>5. files'[raw[job.hour]] = files[raw[job.hour]]
      BY <1>3, <3>2, <3>3, <3>4
    <3> QED BY <1>1, <2>1, <3>2, <3>5 DEF AuditInv, Exact
  <2>2. ASSUME job.pc \in Erasing PROVE files'[job.inode].rows = manifest'[job.hour].rows
    <3>1. job.inode \in 1 .. created /\ raw[h] # job.inode
      BY <2>2 DEF Progress, Erasing
    <3>2. job.inode \in Inode /\ job.inode # handle[h]
      BY <3>1 DEF Held, Inode, LakeTypeOK
    <3> QED BY <1>1, <1>3, <2>2, <3>1, <3>2 DEF AuditInv, Exact
  <2>3. job.pc \in {"rename"} \union Erasing => Granted(job.hour)' \in audit'
    BY <1>1 DEF AuditInv, Exact, Granted
  <2> QED BY <1>1, <2>1, <2>2, <2>3 DEF Exact, Granted
<1>6. \A g \in Hours : raw'[g] = 0 => raw[g] = 0
  BY <1>2
<1>5. ASSUME Recorded PROVE Recorded'
  BY <1>1, <1>5, <1>6 DEF Recorded, Deleted
<1>7. Traced'
  BY <1>1, <1>6 DEF AuditInv, Traced, Granted
<1> QED BY <1>1, <1>4, <1>5, <1>7 DEF AuditInv

\* The compactor works on an hour that has its landing file.
LEMMA CompactorKeepsAudit ==
    ASSUME LakeInv, AuditInv,
           \/ CompactSnapshot \/ Normalize \/ CheckSource \/ ReplaceParquet
           \/ MarkEmpty \/ WriteManifest
    PROVE  AuditInv'
<1>1. /\ job.pc \in Compacting /\ UNCHANGED <<raw, audit, faults>> /\ job \in Job
  BY DEF CompactSnapshot, Normalize, CheckSource, ReplaceParquet, MarkEmpty, WriteManifest,
         Compacting, LakeInv, LakeTypeOK
<1>2. job.hour \in Hours /\ raw[job.hour] # 0
  BY <1>1 DEF LakeInv, Progress, Compacting
<1>3. \A g \in Hours \ {job.hour} : manifest'[g] = manifest[g]
  BY DEF CompactSnapshot, Normalize, CheckSource, ReplaceParquet, MarkEmpty, WriteManifest,
         LakeInv, LakeTypeOK
<1>4. job'.pc \in {"idle"} \union Compacting
  <2>1. CASE CompactSnapshot
    BY <1>1, <2>1, IdleType DEF CompactSnapshot, Job
  <2>2. CASE Normalize \/ CheckSource \/ ReplaceParquet
    BY <1>1, <2>2, IdleType DEF Normalize, CheckSource, ReplaceParquet, Compacting, Job
  <2>3. CASE MarkEmpty \/ WriteManifest
    BY <2>3, IdleType DEF MarkEmpty, WriteManifest
  <2> QED BY <2>1, <2>2, <2>3
<1>5. Exact'
  BY <1>4 DEF Exact, Compacting, Erasing
<1>6. ASSUME Recorded PROVE Recorded'
  BY <1>1, <1>2, <1>3, <1>6 DEF Recorded, Deleted, Compacting, Erasing
<1>7. Traced'
  BY <1>1, <1>2, <1>3 DEF AuditInv, Traced, Granted
<1> QED BY <1>1, <1>5, <1>6, <1>7 DEF AuditInv

\* Everything that does not finish a deletion.
LEMMA OthersKeepAudit ==
    ASSUME LakeInv, AuditInv, UNCHANGED <<files, raw, manifest, audit>>,
           faults' = 0 => faults = 0 /\ (UNCHANGED job \/ job.pc \notin Erasing),
           UNCHANGED job \/ job'.pc \notin Erasing \union {"authorize", "rename"}
    PROVE  AuditInv'
<1>1. Exact'
  BY DEF AuditInv, Exact, Granted
<1>3. Traced'
  BY DEF AuditInv, Traced, Granted
<1>2. ASSUME faults' = 0 PROVE Recorded'
  <2>1. Recorded /\ (UNCHANGED job \/ job.pc \notin Erasing)
    BY <1>2 DEF AuditInv
  <2> QED BY <2>1 DEF Recorded, Deleted
<1> QED BY <1>1, <1>2, <1>3 DEF AuditInv

\* A deletion checks its file at the fence, and records it at the end.
LEMMA DeletionKeepsAudit ==
    ASSUME LakeInv, AuditInv,
           \/ TakePathLock \/ Authorize \/ QuarantineRaw \/ VerifyQuarantine
           \/ UnlinkQuarantine \/ FinalAudit
    PROVE  AuditInv'
<1> USE DEF LakeInv
<1>0. /\ job \in Job /\ UNCHANGED <<files, manifest, faults>> /\ audit \subseteq audit'
      /\ job.pc \in Deleting /\ job.hour \in Hours
  <2>1. job \in Job /\ job.pc \in Deleting
    BY DEF LakeTypeOK, TakePathLock, Authorize, QuarantineRaw, VerifyQuarantine,
           UnlinkQuarantine, FinalAudit, Deleting, Fenced
  <2>2. UNCHANGED <<files, manifest, faults>> /\ audit \subseteq audit'
    BY DEF TakePathLock, Authorize, QuarantineRaw, VerifyQuarantine, UnlinkQuarantine, FinalAudit
  <2>3. job.hour \in Hours
    BY <2>1 DEF Progress, Deleting, Fenced
  <2> QED BY <2>1, <2>2, <2>3
<1>7. ASSUME NEW h \in Hours, Granted(h) \in audit PROVE Granted(h)' \in audit'
  BY <1>0, <1>7 DEF Granted
<1>8. ASSUME UNCHANGED raw PROVE Traced'
  BY <1>0, <1>7, <1>8 DEF AuditInv, Traced
<1> SUFFICES Exact' /\ Traced' /\ (Recorded => Recorded')
  BY <1>0 DEF AuditInv
<1>1. CASE TakePathLock
  <2>1. UNCHANGED <<raw, audit>> /\ job.pc = "fence"
    BY <1>1 DEF TakePathLock
  <2>2. Recorded => Recorded'
    BY <1>0, <2>1 DEF Recorded, Deleted, Erasing
  <2>3. CASE manifest[job.hour] = request.expected /\ MayDelete(job.hour, job.at)
    <3>1. job'.pc = "authorize" /\ job'.hour = job.hour
      BY <1>0, <1>1, <2>3 DEF TakePathLock, Job
    <3>2. files[raw[job.hour]].rows = manifest[job.hour].rows
      BY <2>3 DEF MayDelete, EvidenceMatches, Source
    <3> QED BY <1>0, <1>8, <2>1, <2>2, <3>1, <3>2 DEF Exact, Erasing
  <2>4. CASE ~(manifest[job.hour] = request.expected /\ MayDelete(job.hour, job.at))
    <3>1. job'.pc = "idle"
      BY <1>1, <2>4, IdleType DEF TakePathLock
    <3> QED BY <1>8, <2>1, <2>2, <3>1 DEF Exact, Erasing
  <2> QED BY <2>3, <2>4
<1>2. CASE Authorize
  <2>1. UNCHANGED raw /\ job.pc = "authorize" /\ job'.pc = "rename" /\ job'.hour = job.hour
    BY <1>0, <1>2 DEF Authorize, Job
  <2>2. Granted(job.hour)' \in audit'
    BY <1>0, <1>2, <2>1 DEF Authorize, Authorization, Entry, Source, Granted, AuditInv, Exact
  <2>3. Exact'
    BY <1>0, <2>1, <2>2 DEF AuditInv, Exact, Granted, Erasing
  <2> QED BY <1>0, <1>8, <2>1, <2>3 DEF Recorded, Deleted, Erasing
<1>3. CASE QuarantineRaw
  <2>1. /\ job.pc = "rename" /\ UNCHANGED audit
        /\ job'.pc = "verify" /\ job'.hour = job.hour /\ job'.inode = raw[job.hour]
    BY <1>0, <1>3 DEF QuarantineRaw, Job
  <2>2. \A g \in Hours \ {job.hour} : raw'[g] = raw[g]
    BY <1>3 DEF QuarantineRaw, LakeTypeOK
  <2>3. Exact'
    BY <1>0, <2>1 DEF AuditInv, Exact, Granted, Erasing
  <2>4. Granted(job.hour) \in audit
    BY <2>1 DEF AuditInv, Exact
  <2>5. Traced'
    BY <1>0, <1>7, <2>2, <2>4 DEF AuditInv, Traced
  <2> QED BY <1>0, <2>1, <2>2, <2>3, <2>5 DEF Recorded, Deleted, Erasing
<1>4. CASE VerifyQuarantine
  <2>1. files[job.inode].rows = manifest[job.hour].rows
    BY <1>4 DEF VerifyQuarantine, AuditInv, Exact, Erasing
  <2>2. /\ UNCHANGED <<raw, audit>> /\ job.pc = "verify"
        /\ job'.pc = "unlink" /\ job'.hour = job.hour /\ job'.inode = job.inode
    BY <1>0, <1>4, <2>1 DEF VerifyQuarantine, Job
  <2>3. Granted(job.hour) \in audit
    BY <2>2 DEF AuditInv, Exact, Erasing
  <2> QED BY <1>0, <1>8, <2>1, <2>2, <2>3 DEF Exact, Granted, Recorded, Deleted, Erasing
<1>5. CASE UnlinkQuarantine
  <2>1. /\ UNCHANGED <<raw, audit>> /\ job.pc = "unlink"
        /\ job'.pc = "final" /\ job'.hour = job.hour /\ job'.inode = job.inode
    BY <1>0, <1>5 DEF UnlinkQuarantine, Job
  <2> QED BY <1>0, <1>8, <2>1 DEF AuditInv, Exact, Granted, Recorded, Deleted, Erasing
<1>6. CASE FinalAudit
  <2>1. UNCHANGED raw /\ job.pc = "final" /\ job'.pc = "idle"
    BY <1>6, IdleType DEF FinalAudit
  <2>2. files[job.inode].rows = manifest[job.hour].rows
    BY <2>1 DEF AuditInv, Exact, Erasing
  <2>3. Deleted(job.hour) \in audit'
    BY <1>6, <2>2 DEF FinalAudit, Conclusion, Entry, Deleted
  <2>4. Exact'
    BY <2>1 DEF Exact, Erasing
  <2>5. ASSUME Recorded, NEW g \in Hours, manifest'[g].status = "verified", raw'[g] = 0
        PROVE  Deleted(g)' \in audit'
    <3>1. Deleted(g)' = Deleted(g)
      BY <1>0 DEF Deleted
    <3>2. Deleted(g) \in audit \/ job.hour = g
      BY <1>0, <2>1, <2>5 DEF Recorded
    <3> QED BY <1>0, <2>3, <3>1, <3>2
  <2> QED BY <1>8, <2>1, <2>4, <2>5 DEF Recorded
<1> QED BY <1>1, <1>2, <1>3, <1>4, <1>5, <1>6

LEMMA AuditStep == ASSUME LakeInv, AuditInv, LakeNext PROVE AuditInv'
<1>0. faults \in Nat
  BY LakeAssumption DEF LakeInv, LakeTypeOK
<1>1. ASSUME Tick \/ RequestStops \/ \E h \in Hours, at \in Started : RequestDelete(h, at)
      PROVE  AuditInv'
  <2>1. UNCHANGED <<files, raw, manifest, audit, job>> /\ (faults' = 0 => faults = 0)
    BY <1>0, <1>1 DEF Tick, RequestStops, RequestDelete
  <2> QED BY <2>1, OthersKeepAudit
<1>2. ASSUME NEW h \in Hours, NEW at \in Started, NEW c \in Owner, CompactStarts(c, h, at)
      PROVE  AuditInv'
  <2>1. UNCHANGED <<files, raw, manifest, audit, faults>> /\ job.pc = "idle"
    BY <1>2 DEF CompactStarts, CompactLockFree
  <2>2. job'.pc = "snapshot"
    BY <1>2, IdleType DEF CompactStarts, Job
  <2> QED BY <2>1, <2>2, OthersKeepAudit DEF Erasing
<1>3. ASSUME TakeCompactLock PROVE AuditInv'
  <2>1. /\ UNCHANGED <<files, raw, manifest, audit, faults>> /\ job.pc = "idle"
        /\ job'.pc = "fence"
    BY <1>3, IdleType DEF TakeCompactLock, CompactLockFree, Job
  <2> QED BY <2>1, OthersKeepAudit DEF Erasing
<1>4. ASSUME JobStops PROVE AuditInv'
  <2>1. UNCHANGED <<files, raw, manifest, audit>> /\ faults' # 0 /\ job'.pc = "idle"
    BY <1>0, <1>4, IdleType DEF JobStops
  <2> QED BY <2>1, OthersKeepAudit DEF Erasing
<1>5. ASSUME DeleteFails PROVE AuditInv'
  <2>1. /\ faults' # 0 /\ job'.pc = "idle"
        /\ UNCHANGED <<raw, manifest>> /\ audit \subseteq audit'
    BY <1>0, <1>5, IdleType DEF DeleteFails
  <2>2. Traced'
    BY <2>1 DEF AuditInv, Traced, Granted
  <2> QED BY <2>1, <2>2 DEF AuditInv, Exact, Erasing
<1> QED
  BY <1>1, <1>2, <1>3, <1>4, <1>5, LakeActions, FencedKept, CompactorKeepsAudit,
     DeletionKeepsAudit

\* A verified hour without its landing file has the authorization of its rows
\* in the audit whenever the compact lock is free, and while nothing fails the
\* final entry of its deletion too.
THEOREM AuditAlwaysComplete == Spec => []AuditComplete
<1>1. Init => AuditInv
  <2> SUFFICES ASSUME Init PROVE AuditInv
    OBVIOUS
  <2>1. job.pc = "idle" /\ \A h \in Hours : manifest[h].status = "absent"
    BY IdleType DEF Init, LakeInit, NoManifest
  <2> QED BY <2>1 DEF AuditInv, Exact, Traced, Recorded, Erasing
<1>2. ASSUME FinalizeInv, AuditInv, [Next]_vars PROVE AuditInv'
  <2>1. CASE LakeNext
    BY <1>2, <2>1, AuditStep DEF FinalizeInv
  <2>2. CASE UNCHANGED lakeVars
    BY <1>2, <2>2 DEF lakeVars, AuditInv, Exact, Traced, Recorded, Deleted, Granted
  <2>3. CASE UNCHANGED vars
    BY <2>2, <2>3 DEF vars
  <2> QED BY <1>2, <2>1, <2>2, <2>3, StepsOfTheLake
<1>3. FinalizeInv /\ AuditInv => AuditComplete
  BY DEF AuditInv, Traced, Granted, Recorded, Deleted, Erasing, AuditComplete, CompactLockFree
<1>4. FinalizeInv /\ AuditInv /\ [Next]_vars => AuditInv'
  BY <1>2
<1> QED BY <1>1, <1>3, <1>4, FinalizeInvariant, PTL DEF Spec
=============================================================================
