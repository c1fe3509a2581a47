-------------------------- MODULE SessionFinalize --------------------------
(***************************************************************************)
(* The session finalizer over the quote lake.  Once a trading day is over  *)
(* it compacts and verifies the hours of its window, publishes them as a   *)
(* replay artifact, deletes the raw files that are old enough and sends    *)
(* the human review.  The storage pressure check of the Huey worker runs   *)
(* the same clean-up without the rest.  Both need .session-finalize.lock   *)
(* and give up when it is taken; the review is sent after it is released.  *)
(*                                                                         *)
(* Hours are the raw partitions of one window.  A replay artifact is a set *)
(* of source evidence; its revision is the digest of their lineage, which  *)
(* leaves out mtimes and completion times.  The review that also enters    *)
(* the digest is taken to be a function of the sources.                    *)
(***************************************************************************)
EXTENDS QuoteLake

CONSTANTS
    MaxLong,    \* how long an hourly compaction run takes
    MaxRuns     \* bound: runs of the finalizer and of the pressure check

ASSUME FinalizeAssumption == MaxLong \in Nat /\ MaxRuns \in Nat

VARIABLES
    fin,        \* the process that holds .session-finalize.lock
    artifacts,  \* the published replay artifacts of the trading date
    owed,       \* runs that have published and still have to send the review
    reviews,    \* human reviews sent for the trading date
    runs        \* how many runs have been started

vars == <<lakeVars, fin, artifacts, owed, reviews, runs>>

-----------------------------------------------------------------------------
(* State *)

Evidence == [hour : Hours, status : {"verified", "empty"}, rows : SUBSET Row, mtime : Time,
             out : SUBSET Row, completed : Time]

Artifact == [sources : SUBSET Evidence, at : Time]

\* todo are the hours still to be handled, ok is false once one was in error,
\* sources the verified evidence, and new says that this run published.
Run == [pc : {"idle", "prepare", "compacting", "verify", "cleanup", "deleting"},
        at : Time, todo : SUBSET Hours, ok : BOOLEAN, sources : SUBSET Evidence, new : BOOLEAN]

Resting == [pc |-> "idle", at |-> 0, todo |-> {}, ok |-> TRUE, sources |-> {}, new |-> FALSE]

Init ==
    /\ LakeInit
    /\ fin = Resting
    /\ artifacts = {}
    /\ owed = 0
    /\ reviews = 0
    /\ runs = 0

\* discover_raw_quote_partitions finds the hours that have a landing file.
Discovered == {h \in Hours : raw[h] # 0}

EvidenceOf(h) ==
    [hour |-> h, status |-> manifest[h].status, rows |-> manifest[h].rows,
     mtime |-> manifest[h].mtime, out |-> manifest[h].out,
     completed |-> manifest[h].completed]

Lineage(sources) == {[hour |-> s.hour, status |-> s.status, rows |-> s.rows, out |-> s.out] :
                        s \in sources}

\* _latest_verified_manifest: the youngest artifact, the larger one of a tie.
Latest ==
    CHOOSE a \in artifacts : \A b \in artifacts :
        \/ b.at < a.at
        \/ b.at = a.at /\ Cardinality(b.sources) <= Cardinality(a.sources)

\* _unchanged_existing_artifact: the files present are the artifact's
\* sources, each with the size and mtime it had.
Unchanged(a) ==
    /\ {s.hour : s \in a.sources} = Discovered
    /\ \A s \in a.sources :
          /\ Cardinality(Source(s.hour).rows) = Cardinality(s.rows)
          /\ Source(s.hour).mtime = s.mtime

\* _verify_artifact_source for every source: the manifest and the Parquet
\* file are still those of the evidence, and a missing raw file has a final
\* entry in the deletion audit.
Verifiable(a) ==
    \A s \in a.sources :
        /\ EvidenceOf(s.hour) = s
        /\ parquet[s.hour] = s.out
        /\ IF raw[s.hour] = 0
           THEN [hour |-> s.hour, event |-> "raw_deleted", rows |-> s.rows] \in audit
           ELSE Source(s.hour).rows = s.rows /\ Source(s.hour).mtime = s.mtime

-----------------------------------------------------------------------------
(* Starting a run: session_finalizer_lock is free *)

Cleanup == [Resting EXCEPT !.pc = "cleanup", !.at = now, !.todo = Discovered]

Begin ==
    /\ fin.pc = "idle"
    /\ runs < MaxRuns
    /\ runs' = runs + 1
    /\ UNCHANGED <<lakeVars, artifacts, owed, reviews>>

\* run_pressure_check goes straight to the clean-up.
StartPressureCheck == Begin /\ fin' = Cleanup

\* _finalize_core: an artifact whose sources have not changed, or that
\* verifies although no raw file is left, is only cleaned up after.
AlreadyPublished ==
    /\ artifacts # {}
    /\ IF Discovered = {} THEN Verifiable(Latest) ELSE Unchanged(Latest)

\* Mutant of StartFinalize: what was already published is reviewed again.
StartFinalize_Reviews ==
    /\ Begin
    /\ fin' = IF AlreadyPublished THEN [Cleanup EXCEPT !.new = TRUE]
              ELSE IF Discovered = {} THEN Resting
              ELSE [Cleanup EXCEPT !.pc = "prepare"]

StartFinalize ==
    /\ Begin
    /\ fin' = IF AlreadyPublished THEN Cleanup
              ELSE IF Discovered = {} THEN Resting
              ELSE [Cleanup EXCEPT !.pc = "prepare"]

-----------------------------------------------------------------------------
(* prepare_replay_sources *)

\* Partitions are taken in the order of their hours.
NextHour(h) == h \in fin.todo /\ \A g \in fin.todo : EndOf[h] <= EndOf[g]

PrepareCompact(h) ==
    /\ fin.pc = "prepare"
    /\ NextHour(h)
    /\ CompactStarts("finalizer", h, fin.at)
    /\ fin' = [fin EXCEPT !.pc = "compacting"]
    /\ UNCHANGED <<artifacts, owed, reviews, runs>>

Done(h) == fin.todo \ {h}

\* Mutant of Rejected: the run stays in a state nobody handles.
Rejected_Stuck == [fin EXCEPT !.pc = "failed", !.ok = FALSE]

\* The finalizer's own compaction has failed: an error for this hour.
Rejected == [fin EXCEPT !.pc = "prepare", !.todo = Done(job.hour), !.ok = FALSE]

Finalizing == job.owner = "finalizer" /\ job.pc \in Compacting

CompactDone ==
    /\ MarkEmpty \/ WriteManifest
    /\ fin' = IF Finalizing THEN [fin EXCEPT !.pc = "verify"] ELSE fin
    /\ UNCHANGED <<artifacts, owed, reviews, runs>>

\* The snapshot may show that there is nothing to write after all.
CompactLooks ==
    /\ CompactSnapshot
    /\ fin' = IF ~Finalizing \/ AfterSnapshot(job.hour) \in Compacting THEN fin
              ELSE IF AfterSnapshot(job.hour) = "up_to_date" THEN [fin EXCEPT !.pc = "verify"]
              ELSE Rejected
    /\ UNCHANGED <<artifacts, owed, reviews, runs>>

CompactChecks ==
    /\ CheckSource
    /\ fin' = IF Finalizing /\ ~SourceUnchanged THEN Rejected ELSE fin
    /\ UNCHANGED <<artifacts, owed, reviews, runs>>

CompactStops ==
    /\ JobStops
    /\ fin' = IF Finalizing THEN Rejected ELSE fin
    /\ UNCHANGED <<artifacts, owed, reviews, runs>>

\* verify_compacted_partition reads everything again, without a lock.
VerifiedPartition(h) ==
    /\ raw[h] # 0
    /\ manifest[h].rows = Source(h).rows
    /\ manifest[h].mtime = Source(h).mtime
    /\ IF Source(h).rows = {}
       THEN manifest[h].status = "empty"
       ELSE manifest[h].status = "verified" /\ parquet[h] = manifest[h].out

\* compact_one had nothing to do, or has just written the manifest.
PrepareVerify(h) ==
    /\ NextHour(h)
    /\ \/ fin.pc = "verify"
       \/ fin.pc = "prepare" /\ CompactLockFree /\ ~Due(h, fin.at)
    /\ fin' =
          IF /\ VerifiedPartition(h)
             /\ fin.pc = "prepare" => Closed(h, fin.at) /\ Settled(h, fin.at)
          THEN [fin EXCEPT !.pc = "prepare", !.todo = Done(h),
                           !.sources = fin.sources \union {EvidenceOf(h)}]
          ELSE [fin EXCEPT !.pc = "prepare", !.todo = Done(h), !.ok = FALSE]
    /\ UNCHANGED <<lakeVars, artifacts, owed, reviews, runs>>

\* One hour in error blocks the run: nothing is published or deleted.
Blocked ==
    /\ fin.pc = "prepare" /\ fin.todo = {} /\ ~fin.ok
    /\ fin' = Resting
    /\ UNCHANGED <<lakeVars, artifacts, owed, reviews, runs>>

-----------------------------------------------------------------------------
(* publish_replay_artifact *)

SameRevision == {a \in artifacts : Lineage(a.sources) = Lineage(fin.sources)}

\* The revision's directory appears by one rename.  A revision that exists
\* with other evidence is an error, and ends the run.
Publish ==
    /\ fin.pc = "prepare" /\ fin.todo = {} /\ fin.ok
    /\ IF SameRevision = {}
       THEN /\ artifacts' = artifacts \union {[sources |-> fin.sources, at |-> fin.at]}
            /\ fin' = [Cleanup EXCEPT !.at = fin.at, !.new = TRUE]
       ELSE /\ fin' = IF \A a \in SameRevision : a.sources = fin.sources
                      THEN [Cleanup EXCEPT !.at = fin.at] ELSE Resting
            /\ UNCHANGED artifacts
    /\ UNCHANGED <<lakeVars, owed, reviews, runs>>

-----------------------------------------------------------------------------
(* cleanup_authorized_replay_sources, and the human review *)

CleanupDelete(h) ==
    /\ fin.pc = "cleanup"
    /\ NextHour(h)
    /\ RequestDelete(h, fin.at)
    /\ fin' = [fin EXCEPT !.pc = "deleting", !.todo = Done(h)]
    /\ UNCHANGED <<artifacts, owed, reviews, runs>>

\* An hour without a verified manifest is left alone.
CleanupSkip(h) ==
    /\ fin.pc = "cleanup"
    /\ NextHour(h)
    /\ manifest[h].status # "verified"
    /\ fin' = [fin EXCEPT !.todo = Done(h)]
    /\ UNCHANGED <<lakeVars, artifacts, owed, reviews, runs>>

\* Mutant of DeleteReturned: the run waits until the file is gone.
DeleteReturned_Gone == request = NoRequest /\ job.owner # "finalizer" /\ Discovered = {}

DeleteReturned == request = NoRequest /\ job.owner # "finalizer"

DeleteDone ==
    /\ fin.pc = "deleting"
    /\ DeleteReturned
    /\ fin' = [fin EXCEPT !.pc = "cleanup"]
    /\ UNCHANGED <<lakeVars, artifacts, owed, reviews, runs>>

\* The lock is released; only a run that published goes on to the review.
FinishRun ==
    /\ fin.pc = "cleanup" /\ fin.todo = {}
    /\ owed' = IF fin.new THEN owed + 1 ELSE owed
    /\ fin' = Resting
    /\ UNCHANGED <<lakeVars, artifacts, reviews, runs>>

SendReview ==
    /\ owed > 0
    /\ owed' = owed - 1
    /\ reviews' = reviews + 1
    /\ UNCHANGED <<lakeVars, fin, artifacts, runs>>

\* The finalizer dies between two steps of its own, or while it waits for
\* the compact lock.
FinalizerStops ==
    /\ \/ fin.pc \in {"prepare", "verify", "cleanup"} /\ UNCHANGED lakeVars
       \/ fin.pc = "deleting" /\ RequestStops
    /\ fin' = Resting
    /\ UNCHANGED <<artifacts, owed, reviews, runs>>

-----------------------------------------------------------------------------
(* Specification *)

\* run() of the hourly job passes the time it started to every partition.
HourlyCompact(h, at) == now <= at + MaxLong /\ CompactStarts("hourly", h, at)

\* A step of the lake that does not concern the finalizer's control.
Alone(A) == A /\ UNCHANGED <<fin, artifacts, owed, reviews, runs>>

LakeAlone ==
    \/ Alone(Tick)
    \/ \E h \in Hours : Alone(Write(h))
    \/ \E h \in Hours, at \in Started : Alone(HourlyCompact(h, at))
    \/ Alone(Normalize)
    \/ Alone(ReplaceParquet)
    \/ Alone(DeleteStep)
    \/ Alone(DeleteFails)

FinalizerStep ==
    \/ \E h \in Hours : PrepareCompact(h) \/ PrepareVerify(h) \/ CleanupDelete(h)
                        \/ CleanupSkip(h)
    \/ Blocked \/ Publish \/ DeleteDone \/ FinishRun

Next ==
    \/ LakeAlone
    \/ CompactLooks \/ CompactChecks \/ CompactDone \/ CompactStops
    \/ StartPressureCheck \/ StartFinalize
    \/ FinalizerStep
    \/ SendReview
    \/ FinalizerStops

Spec == Init /\ [][Next]_vars

\* A collector closes its file, a job that holds a lock goes on, and the
\* hourly timer finds every hour that is due.  Nothing is assumed of when
\* the finalizer is started, and a crash is never required.
Fairness ==
    /\ WF_vars(Alone(Tick))
    /\ \A h \in Hours : WF_vars(Alone(WriterFlush(h)))
    /\ \A h \in Hours : WF_vars(\E at \in Started : Alone(HourlyCompact(h, at)))
    /\ WF_vars(CompactLooks \/ CompactChecks \/ CompactDone \/ Alone(Normalize)
               \/ Alone(ReplaceParquet))
    /\ WF_vars(Alone(DeleteStep))
    /\ WF_vars(FinalizerStep)

FairSpec == Spec /\ Fairness

-----------------------------------------------------------------------------
(* Properties *)

\* The finalizer's variables have their types.
TypeOK ==
    /\ LakeTypeOK
    /\ fin \in Run
    /\ artifacts \subseteq Artifact
    /\ owed \in 0 .. MaxRuns /\ reviews \in 0 .. MaxRuns /\ runs \in 0 .. MaxRuns

\* A verified hour whose landing file is missing between two jobs is accounted
\* for under its name: wherever the deletion died or failed, the audit has the
\* authorization of the hour for the rows of its manifest, and while nothing
\* has failed the final entry too, which is what lets verify_replay_artifact
\* accept an artifact without its raw files.
AuditComplete ==
    CompactLockFree =>
        \A h \in Hours :
            manifest[h].status = "verified" /\ raw[h] = 0 =>
                /\ [hour |-> h, event |-> "authorize", rows |-> manifest[h].rows] \in audit
                /\ faults = 0 =>
                      [hour |-> h, event |-> "raw_deleted", rows |-> manifest[h].rows] \in audit

\* The composition only takes steps the lake allows: the finalizer's
\* compactions and deletions go through compact_one and
\* delete_raw_if_manifest_matches, and its crashes leave no other trace.
LakeImplemented == LakeSpec

\* The digests under which the trading date has been published.
Revisions == {Lineage(a.sources) : a \in artifacts}

\* The human review is sent at most once for each revision, although four
\* paths lead to the clean-up before it and a run may die anywhere
\* (run_session_finalize skips an artifact that was already published).
ReviewPerRevision == reviews + owed <= Cardinality(Revisions)

\* The rows of a closed hour that has settled end up in a verified Parquet
\* file, whatever the finalizer does and however often a compaction fails.
CopiedEventually ==
    \A h \in Hours :
        (raw[h] # 0 /\ Source(h).rows # {} /\ Closed(h, MaxTime))
            ~> \/ manifest[h].status = "verified" /\ parquet[h] = 1 .. acked[h]
               \/ raw[h] # 0 /\ ~Settled(h, MaxTime)

\* .session-finalize.lock, the compact lock and the path locks are taken in
\* an order in which nobody waits for ever: every run ends.
RunsEnd == fin.pc # "idle" ~> fin.pc = "idle"

=============================================================================
