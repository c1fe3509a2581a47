----------------------------- MODULE QuoteLake -----------------------------
(***************************************************************************)
(* The quote lake of the Python data platform: collectors append rows to   *)
(* one raw JSONL file per provider and hour, the compactor copies a closed *)
(* hour into a verified Parquet file described by a manifest, and the      *)
(* session finalizer deletes the raw file once the copy is old enough.     *)
(*                                                                         *)
(* storage.JsonlQuoteWriter appends under the file's own path lock.        *)
(* QuoteLakeCompactor.compact_one runs under the lake-wide compact lock    *)
(* and takes no path lock, so rows may arrive between any two of its       *)
(* steps.  delete_raw_if_manifest_matches takes the compact lock and then  *)
(* the path lock.  Every process may die between two steps; the kernel     *)
(* then frees its locks and the files stay as they are.                    *)
(*                                                                         *)
(* A file is an inode: a writer that opened it keeps writing to it when    *)
(* its name is moved away.  The rows of an hour are numbered in the order  *)
(* they are appended, and a digest or a size identifies a set of rows.     *)
(***************************************************************************)
EXTENDS Integers, FiniteSets

CONSTANTS
    Hours,      \* the raw partitions (a provider and a UTC hour)
    NoHour,     \* none of them
    EndOf,      \* the time at which each hour closes
    HourLength, \* and how long it is
    Settle,     \* settle_seconds: a younger file is still being written
    Grace,      \* raw_delete_grace_hours
    MaxLag,     \* how long after its hour a collector still opens the file
    MaxRows,    \* bound: rows per hour
    MaxFiles,   \* bound: raw files ever created
    MaxTime,    \* bound: the clock
    MaxFaults   \* bound: crashes and failed system calls

ASSUME LakeAssumption ==
    /\ NoHour \notin Hours
    /\ EndOf \in [Hours -> Nat]
    /\ HourLength \in Nat /\ Settle \in Nat /\ Grace \in Nat
    /\ MaxLag \in Nat
    /\ MaxRows \in Nat /\ MaxFiles \in Nat /\ MaxTime \in Nat /\ MaxFaults \in Nat

\* Collectors name a file after the hour in which they receive the rows and
\* flush within seconds; the grace before a deletion is a matter of hours.
ASSUME GraceAssumption == MaxLag < Grace

VARIABLES
    now,        \* the clock
    files,      \* the content and mtime of every inode
    created,    \* how many inodes exist
    raw,        \* the inode each hour's landing name points to (0: no file)
    quarantine, \* the inodes each hour has under a quarantine name
    handle,     \* the inode a writer that holds the path lock has open (0: none)
    acked,      \* how many rows write_quotes has returned for
    parquet,    \* the rows of each hour's published Parquet file ({}: no file)
    manifest,   \* the compaction manifest of each hour
    audit,      \* raw_deletion_audit.jsonl
    request,    \* the deletion a finalizer has decided on
    job,        \* the work of the process that holds the compact lock
    faults      \* how many faults have happened

lakeVars == <<now, files, created, raw, quarantine, handle, acked, parquet, manifest,
              audit, request, job, faults>>

-----------------------------------------------------------------------------
(* State *)

Row == 1 .. MaxRows
Time == 0 .. MaxTime
Inode == 1 .. MaxFiles

\* The digest and the size of a file stand for its rows.
File == [rows : SUBSET Row, mtime : Time]

\* completed is the starting time of the run that wrote the manifest.
Manifest == [status : {"absent", "verified", "empty"}, rows : SUBSET Row, mtime : Time,
             out : SUBSET Row, completed : Time]

NoManifest == [status |-> "absent", rows |-> {}, mtime |-> 0, out |-> {}, completed |-> 0]

AuditEntry == [hour : Hours, event : {"authorize", "raw_deleted", "raw_delete_failed"},
               rows : SUBSET Row]

Request == [hour : Hours \union {NoHour}, expected : Manifest, at : Time]

NoRequest == [hour |-> NoHour, expected |-> NoManifest, at |-> 0]

\* The hourly compaction job and the session finalizer both compact; only
\* the finalizer deletes.
Owner == {"hourly", "finalizer"}

\* The steps of compact_one once it has found something to do, and of a
\* deletion from the moment it waits for the path lock.
Compacting == {"snapshot", "normalize", "publish", "replace", "manifest", "mark_empty"}
Fenced == {"authorize", "rename", "verify", "unlink", "final"}
Deleting == {"fence"} \union Fenced

\* snap is the first snapshot of the source and temp the rows written to the
\* temporary Parquet file; inode is the quarantined file.
Job == [owner : Owner \union {"nobody"}, pc : {"idle"} \union Compacting \union Deleting,
        hour : Hours \union {NoHour}, at : Time, snap : File, temp : SUBSET Row, inode : 0 .. MaxFiles]

Idle == [owner |-> "nobody", pc |-> "idle", hour |-> NoHour, at |-> 0,
         snap |-> [rows |-> {}, mtime |-> 0], temp |-> {}, inode |-> 0]

LakeInit ==
    /\ now = 0
    /\ files = [i \in Inode |-> [rows |-> {}, mtime |-> 0]]
    /\ created = 0
    /\ raw = [h \in Hours |-> 0]
    /\ quarantine = [h \in Hours |-> {}]
    /\ handle = [h \in Hours |-> 0]
    /\ acked = [h \in Hours |-> 0]
    /\ parquet = [h \in Hours |-> {}]
    /\ manifest = [h \in Hours |-> NoManifest]
    /\ audit = {}
    /\ request = NoRequest
    /\ job = Idle
    /\ faults = 0

\* Nobody holds .compact.lock.
CompactLockFree == job.pc = "idle"

\* The path lock of an hour is held by a writer with an open file, or by a
\* deletion past its fence.
PathLockFree(h) ==
    /\ handle[h] = 0
    /\ ~(job.pc \in Fenced /\ job.hour = h)

\* snapshot_source of an hour's landing file.
Source(h) == files[raw[h]]

\* The starting times a run that is still under way may have.
Started == 0 .. now

Tick ==
    /\ now < MaxTime
    /\ now' = now + 1
    /\ UNCHANGED <<files, created, raw, quarantine, handle, acked, parquet, manifest,
                   audit, request, job, faults>>

-----------------------------------------------------------------------------
(* JsonlQuoteWriter.write_quotes *)

\* path.open("a") under the path lock creates the file when it is missing.
OpenRaw(h) ==
    IF raw[h] = 0
    THEN /\ created < MaxFiles
         /\ created' = created + 1
         /\ files' = [files EXCEPT ![created + 1] = [rows |-> {}, mtime |-> now]]
         /\ raw' = [raw EXCEPT ![h] = created + 1]
         /\ handle' = [handle EXCEPT ![h] = created + 1]
    ELSE /\ handle' = [handle EXCEPT ![h] = raw[h]]
         /\ UNCHANGED <<files, created, raw>>

WriterOpen(h) ==
    /\ acked[h] < MaxRows
    /\ now + HourLength >= EndOf[h]
    /\ now <= EndOf[h] + MaxLag
    /\ PathLockFree(h)
    /\ OpenRaw(h)
    /\ UNCHANGED <<now, quarantine, acked, parquet, manifest, audit, request, job, faults>>

\* Closing the buffered file writes the batch to whatever the open inode is
\* now called, and write_quotes returns.
WriterFlush(h) ==
    /\ handle[h] # 0
    /\ files' = [files EXCEPT ![handle[h]] =
                    [rows |-> files[handle[h]].rows \union {acked[h] + 1}, mtime |-> now]]
    /\ acked' = [acked EXCEPT ![h] = acked[h] + 1]
    /\ handle' = [handle EXCEPT ![h] = 0]
    /\ UNCHANGED <<now, created, raw, quarantine, parquet, manifest, audit, request, job,
                   faults>>

\* The collector dies, or its write fails, before the batch is flushed.
WriterCrash(h) ==
    /\ handle[h] # 0
    /\ faults < MaxFaults
    /\ faults' = faults + 1
    /\ handle' = [handle EXCEPT ![h] = 0]
    /\ UNCHANGED <<now, files, created, raw, quarantine, acked, parquet, manifest, audit,
                   request, job>>

-----------------------------------------------------------------------------
(* QuoteLakeCompactor.compact_one, under the compact lock *)

\* partition.end_at <= now and the mtime is older than settle_seconds.
Closed(h, at) == EndOf[h] <= at

Settled(h, at) == Source(h).mtime + Settle <= at

\* Mutant of ManifestMatchesMetadata: the source is not looked at.
ManifestMatchesMetadata_AnySource(h) ==
    manifest[h].status # "absent" /\ parquet[h] = manifest[h].out

\* _manifest_matches_metadata: same size and mtime, and the output is intact.
ManifestMatchesMetadata(h) ==
    LET m == manifest[h] IN
    /\ m.status # "absent"
    /\ Cardinality(m.rows) = Cardinality(Source(h).rows)
    /\ m.mtime = Source(h).mtime
    /\ m.status = "verified" => parquet[h] = m.out

\* _verified_manifest_matches: same digest, whatever the mtime.
VerifiedManifestMatches(h) ==
    /\ manifest[h].status = "verified"
    /\ manifest[h].rows = Source(h).rows
    /\ parquet[h] = manifest[h].out

\* Whether compact_one goes on after its look at the file's status and at the
\* manifest; otherwise it returns an up-to-date, settling, active or vanished
\* result and changes nothing.
Due(h, at) ==
    /\ raw[h] # 0
    /\ Closed(h, at)
    /\ Settled(h, at)
    /\ ~ManifestMatchesMetadata(h)

CompactStarts(c, h, at) ==
    /\ CompactLockFree
    /\ Due(h, at)
    /\ job' = [Idle EXCEPT !.pc = "snapshot", !.owner = c, !.hour = h, !.at = at]
    /\ UNCHANGED <<now, files, created, raw, quarantine, handle, acked, parquet, manifest,
                   audit, request, faults>>

\* An empty source is marked empty once; it never replaces a verified one.
EmptySource(h) ==
    CASE manifest[h].status = "absent" -> "mark_empty"
      [] manifest[h].status = "empty" -> "up_to_date"
      [] manifest[h].status = "verified" -> "failed"

\* What the snapshot, which may hold rows the status did not show yet, leaves
\* to do, or the result compact_one returns with.
AfterSnapshot(h) ==
    IF Source(h).rows = {} THEN EmptySource(h)
    ELSE IF VerifiedManifestMatches(h) THEN "up_to_date" ELSE "normalize"

CompactSnapshot ==
    /\ job.pc = "snapshot"
    /\ job' = IF AfterSnapshot(job.hour) \in Compacting
              THEN [job EXCEPT !.pc = AfterSnapshot(job.hour), !.snap = Source(job.hour)]
              ELSE Idle
    /\ UNCHANGED <<now, files, created, raw, quarantine, handle, acked, parquet, manifest,
                   audit, request, faults>>

MarkEmpty ==
    /\ job.pc = "mark_empty"
    /\ manifest' = [manifest EXCEPT ![job.hour] =
                       [status |-> "empty", rows |-> {}, mtime |-> job.snap.mtime,
                        out |-> {}, completed |-> job.at]]
    /\ job' = Idle
    /\ UNCHANGED <<now, files, created, raw, quarantine, handle, acked, parquet, audit,
                   request, faults>>

\* create_normalized_quotes reads the source a second time and the rows are
\* written to the temporary Parquet file.
Normalize ==
    /\ job.pc = "normalize"
    /\ job' = [job EXCEPT !.pc = "publish", !.temp = Source(job.hour).rows]
    /\ UNCHANGED <<now, files, created, raw, quarantine, handle, acked, parquet, manifest,
                   audit, request, faults>>

\* A third look at the source must find the first snapshot.
SourceUnchanged == Source(job.hour) = job.snap

CheckSource ==
    /\ job.pc = "publish"
    /\ job' = IF SourceUnchanged THEN [job EXCEPT !.pc = "replace"] ELSE Idle
    /\ UNCHANGED <<now, files, created, raw, quarantine, handle, acked, parquet, manifest,
                   audit, request, faults>>

\* os.replace puts the temporary file in the place of the published one.
ReplaceParquet ==
    /\ job.pc = "replace"
    /\ parquet' = [parquet EXCEPT ![job.hour] = job.temp]
    /\ job' = [job EXCEPT !.pc = "manifest"]
    /\ UNCHANGED <<now, files, created, raw, quarantine, handle, acked, manifest, audit,
                   request, faults>>

WriteManifest ==
    /\ job.pc = "manifest"
    /\ manifest' = [manifest EXCEPT ![job.hour] =
                       [status |-> "verified", rows |-> job.snap.rows,
                        mtime |-> job.snap.mtime, out |-> job.temp, completed |-> job.at]]
    /\ job' = Idle
    /\ UNCHANGED <<now, files, created, raw, quarantine, handle, acked, parquet, audit,
                   request, faults>>

-----------------------------------------------------------------------------
(* delete_raw_if_manifest_matches *)

\* cleanup_authorized_replay_sources loads the manifest of a file that is
\* there, before it asks for the compact lock.
RequestDelete(h, at) ==
    /\ request = NoRequest
    /\ raw[h] # 0
    /\ manifest[h].status = "verified"
    /\ request' = [hour |-> h, expected |-> manifest[h], at |-> at]
    /\ UNCHANGED <<now, files, created, raw, quarantine, handle, acked, parquet, manifest,
                   audit, job, faults>>

TakeCompactLock ==
    /\ request # NoRequest
    /\ CompactLockFree
    /\ job' = [Idle EXCEPT !.pc = "fence", !.owner = "finalizer", !.hour = request.hour,
                           !.at = request.at]
    /\ UNCHANGED <<now, files, created, raw, quarantine, handle, acked, parquet, manifest,
                   audit, request, faults>>

\* Mutant of RawDeleteGate: the grace is not awaited.
RawDeleteGate_NoGrace(h, at) == manifest[h].status = "verified" /\ Closed(h, at)

\* raw_delete_gate: the hour is closed and the verified copy is old enough.
RawDeleteGate(h, at) ==
    /\ manifest[h].status = "verified"
    /\ Closed(h, at)
    /\ manifest[h].completed + Grace <= at

\* _raw_delete_evidence: both files still are what the manifest describes.
EvidenceMatches(h) ==
    /\ raw[h] # 0
    /\ parquet[h] # {}
    /\ parquet[h] = manifest[h].out
    /\ Source(h).rows = manifest[h].rows
    /\ Cardinality(parquet[h]) = Cardinality(Source(h).rows)

MayDelete(h, at) == RawDeleteGate(h, at) /\ EvidenceMatches(h)

\* Mutant of PathLockGranted: the writers' lock file is not used.
PathLockGranted_Unfenced == TRUE

PathLockGranted == handle[job.hour] = 0

\* The path lock is granted: the manifest is compared with the one that was
\* authorized, and every gate is checked before anything is touched.
TakePathLock ==
    /\ job.pc = "fence"
    /\ PathLockGranted
    /\ job' = IF manifest[job.hour] = request.expected /\ MayDelete(job.hour, job.at)
              THEN [job EXCEPT !.pc = "authorize"] ELSE Idle
    /\ request' = NoRequest
    /\ UNCHANGED <<now, files, created, raw, quarantine, handle, acked, parquet, manifest,
                   audit, faults>>

Entry(event, rows) == [hour |-> job.hour, event |-> event, rows |-> rows]

\* Mutant of Authorization: the entry is left to the end.
Authorization_Late == {}

Authorization == {Entry("authorize", Source(job.hour).rows)}

Authorize ==
    /\ job.pc = "authorize"
    /\ audit' = audit \union Authorization
    /\ job' = [job EXCEPT !.pc = "rename"]
    /\ UNCHANGED <<now, files, created, raw, quarantine, handle, acked, parquet, manifest,
                   request, faults>>

QuarantineRaw ==
    /\ job.pc = "rename"
    /\ raw' = [raw EXCEPT ![job.hour] = 0]
    /\ quarantine' = [quarantine EXCEPT ![job.hour] = quarantine[job.hour] \union {raw[job.hour]}]
    /\ job' = [job EXCEPT !.pc = "verify", !.inode = raw[job.hour]]
    /\ UNCHANGED <<now, files, created, handle, acked, parquet, manifest, audit, request,
                   faults>>

\* quarantined_evidence_matches, on the file under its quarantine name.
VerifyQuarantine ==
    /\ job.pc = "verify"
    /\ IF files[job.inode].rows = manifest[job.hour].rows
       THEN /\ job' = [job EXCEPT !.pc = "unlink"]
            /\ UNCHANGED audit
       ELSE /\ audit' = audit \union {Entry("raw_delete_failed", files[job.inode].rows)}
            /\ job' = Idle
    /\ UNCHANGED <<now, files, created, raw, quarantine, handle, acked, parquet, manifest,
                   request, faults>>

UnlinkQuarantine ==
    /\ job.pc = "unlink"
    /\ quarantine' = [quarantine EXCEPT ![job.hour] = quarantine[job.hour] \ {job.inode}]
    /\ job' = [job EXCEPT !.pc = "final"]
    /\ UNCHANGED <<now, files, created, raw, handle, acked, parquet, manifest, audit,
                   request, faults>>

\* Mutant of Conclusion: a deletion is closed like its failure.
Conclusion_Failed == {Entry("raw_delete_failed", files[job.inode].rows)}

Conclusion == {Entry("raw_deleted", files[job.inode].rows)}

FinalAudit ==
    /\ job.pc = "final"
    /\ audit' = audit \union Conclusion
    /\ job' = Idle
    /\ UNCHANGED <<now, files, created, raw, quarantine, handle, acked, parquet, manifest,
                   request, faults>>

\* rename(), the second look at the file or unlink() fails: the file stays
\* where it is and the final entry of the audit says so.
DeleteFails ==
    /\ job.pc \in {"rename", "verify", "unlink"}
    /\ faults < MaxFaults
    /\ faults' = faults + 1
    /\ audit' = audit \union {Entry("raw_delete_failed", manifest[job.hour].rows)}
    /\ job' = Idle
    /\ UNCHANGED <<now, files, created, raw, quarantine, handle, acked, parquet, manifest,
                   request>>

\* The holder of the compact lock dies, or its step raises and is reported
\* as failed: the lock is freed and the files stay as they are.
JobStops ==
    /\ job.pc # "idle"
    /\ faults < MaxFaults
    /\ faults' = faults + 1
    /\ job' = Idle
    /\ request' = IF job.pc \in Deleting THEN NoRequest ELSE request
    /\ UNCHANGED <<now, files, created, raw, quarantine, handle, acked, parquet, manifest,
                   audit>>

\* The finalizer dies while it waits for the compact lock.
RequestStops ==
    /\ request # NoRequest
    /\ job.pc \notin Deleting
    /\ faults < MaxFaults
    /\ faults' = faults + 1
    /\ request' = NoRequest
    /\ UNCHANGED <<now, files, created, raw, quarantine, handle, acked, parquet, manifest,
                   audit, job>>

-----------------------------------------------------------------------------
(* Specification *)

Write(h) == WriterOpen(h) \/ WriterFlush(h) \/ WriterCrash(h)

CompactStep ==
    \/ CompactSnapshot \/ MarkEmpty \/ Normalize \/ CheckSource \/ ReplaceParquet
    \/ WriteManifest

DeleteStep ==
    \/ TakeCompactLock \/ TakePathLock \/ Authorize \/ QuarantineRaw
    \/ VerifyQuarantine \/ UnlinkQuarantine \/ FinalAudit

LakeNext ==
    \/ Tick
    \/ \E h \in Hours : Write(h)
    \/ \E h \in Hours, at \in Started :
          RequestDelete(h, at) \/ \E c \in Owner : CompactStarts(c, h, at)
    \/ CompactStep
    \/ DeleteStep
    \/ DeleteFails
    \/ JobStops
    \/ RequestStops

LakeSpec == LakeInit /\ [][LakeNext]_lakeVars

-----------------------------------------------------------------------------
(* Properties *)

\* The lake's variables have their types.
LakeTypeOK ==
    /\ now \in Time
    /\ files \in [Inode -> File]
    /\ created \in 0 .. MaxFiles
    /\ raw \in [Hours -> 0 .. MaxFiles]
    /\ quarantine \in [Hours -> SUBSET Inode]
    /\ handle \in [Hours -> 0 .. MaxFiles]
    /\ acked \in [Hours -> 0 .. MaxRows]
    /\ parquet \in [Hours -> SUBSET Row]
    /\ manifest \in [Hours -> Manifest]
    /\ audit \subseteq AuditEntry
    /\ request \in Request
    /\ job \in Job
    /\ faults \in 0 .. MaxFaults

\* The files an hour still has under some name.
Linked(h) == quarantine[h] \union ({raw[h]} \ {0})

\* Where a reader can still find the rows of an hour: its Parquet file, its
\* landing file, or a file left under a quarantine name.
Readable(h) == parquet[h] \union UNION {files[i].rows : i \in Linked(h)}

\* Once write_quotes has returned, its rows are readable for ever, whatever
\* the compactor, the deletion and crashes do (storage.py path lock,
\* compact.py source checks, raw_delete_machine.py locks and evidence).
RowsKept == \A h \in Hours : 1 .. acked[h] \subseteq Readable(h)

\* A raw file is gone for good only when the durable audit holds an
\* authorization for exactly its rows (_authorize_raw_delete precedes the
\* rename and the unlink).
DeletionsAuthorized ==
    \A i \in 1 .. created :
        (\A h \in Hours : i \notin Linked(h)) =>
            \E e \in audit : e.event = "authorize" /\ e.rows = files[i].rows

\* What the audit reports as deleted can still be read from the Parquet
\* file, and was not reported before its hour and its grace had passed.
DeletedStaysInLake ==
    \A e \in audit : e.event = "raw_deleted" =>
        /\ e.rows \subseteq parquet[e.hour]
        /\ EndOf[e.hour] + Grace <= now
=============================================================================
