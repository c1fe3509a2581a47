-------------------------- MODULE QuoteLakeProofs --------------------------
(***************************************************************************)
(* Theorems about QuoteLake for any hours, rows, files and delays, with    *)
(* TLAPS.                                                                  *)
(***************************************************************************)
EXTENDS QuoteLake, FiniteSetTheorems, TLAPS

-----------------------------------------------------------------------------
(* The inductive invariant *)

\* A writer has open what the landing name points to, and room for a row.
Held == \A h \in Hours : handle[h] # 0 => acked[h] < MaxRows /\ handle[h] = raw[h]

\* Names point to inodes that exist, and no two landing names to the same.
Names ==
    /\ \A h \in Hours : raw[h] <= created /\ quarantine[h] \subseteq 1 .. created
    /\ \A g, h \in Hours : raw[h] # 0 /\ raw[h] = raw[g] => g = h
    /\ \A g, h \in Hours : raw[h] \notin quarantine[g]

\* Starting times lie in the past, a request is for an hour, and a verified
\* manifest was written by a run that started after its hour had closed.
Times ==
    /\ job.at <= now /\ request.at <= now
    /\ request # NoRequest => request.hour \in Hours
    /\ \A h \in Hours : manifest[h].status = "verified" => EndOf[h] <= manifest[h].completed

\* The Parquet file has nothing its landing file lacks, and where there is no
\* landing file any more none can be created.
Copies ==
    \A h \in Hours :
        IF raw[h] # 0 THEN parquet[h] \subseteq files[raw[h]].rows
        ELSE parquet[h] # {} => EndOf[h] + MaxLag < now

Authorized(rows) == \E e \in audit : e.event = "authorize" /\ e.rows = rows

\* What the holder of the compact lock has established so far.
Progress ==
    /\ job.pc # "idle" => job.hour \in Hours
    /\ job.pc \in Compacting => raw[job.hour] # 0 /\ EndOf[job.hour] <= job.at
    /\ job.pc \in {"publish", "replace", "manifest"} => job.temp \subseteq files[raw[job.hour]].rows
    /\ job.pc \in Fenced => handle[job.hour] = 0 /\ EndOf[job.hour] + Grace <= now
    /\ job.pc \in {"authorize", "rename"} =>
          raw[job.hour] # 0 /\ files[raw[job.hour]].rows \subseteq parquet[job.hour]
    /\ job.pc = "rename" => Authorized(files[raw[job.hour]].rows)
    /\ job.pc \in {"verify", "unlink", "final"} =>
          /\ job.inode \in 1 .. created /\ raw[job.hour] = 0
          /\ \A g \in Hours : raw[g] # job.inode
          /\ files[job.inode].rows \subseteq parquet[job.hour]
          /\ Authorized(files[job.inode].rows)

\* A deletion is final: its hour has no landing file again.
Final == \A e \in audit : e.event = "raw_deleted" => raw[e.hour] = 0

LakeInv ==
    /\ LakeTypeOK /\ Held /\ Names /\ Times /\ Copies /\ Progress /\ Final
    /\ RowsKept /\ DeletionsAuthorized /\ DeletedStaysInLake

-----------------------------------------------------------------------------
(* Types *)

\* The actions of the lake, one by one.
LEMMA LakeActions ==
    ASSUME LakeNext
    PROVE  \/ Tick
           \/ \E h \in Hours : WriterOpen(h)
           \/ \E h \in Hours : WriterFlush(h)
           \/ \E h \in Hours : WriterCrash(h)
           \/ \E h \in Hours, at \in Started : RequestDelete(h, at)
           \/ \E h \in Hours, at \in Started : \E c \in Owner : CompactStarts(c, h, at)
           \/ CompactSnapshot \/ MarkEmpty \/ Normalize \/ CheckSource \/ ReplaceParquet
           \/ WriteManifest
           \/ TakeCompactLock \/ TakePathLock \/ Authorize \/ QuarantineRaw
           \/ VerifyQuarantine \/ UnlinkQuarantine \/ FinalAudit
           \/ DeleteFails \/ JobStops \/ RequestStops
BY DEF LakeNext, Write, CompactStep, DeleteStep

LEMMA IdleType == Idle \in Job /\ Idle.pc = "idle" /\ Idle.at = 0
BY LakeAssumption DEF Idle, Job, Owner, File, Time

LEMMA NoRequestType == NoRequest \in Request /\ NoRequest.at = 0
BY LakeAssumption DEF NoRequest, Request, NoManifest, Manifest, Time

LEMMA EmptyTypes == [rows |-> {}, mtime |-> 0] \in File /\ NoManifest \in Manifest
BY LakeAssumption DEF File, NoManifest, Manifest, Time

\* The names of an hour point to inodes.
LEMMA NamesType ==
    ASSUME LakeTypeOK, NEW h \in Hours
    PROVE  /\ raw[h] # 0 => raw[h] \in Inode
           /\ Linked(h) \subseteq Inode
<1> USE LakeAssumption DEF Inode
<1>1. raw[h] \in 0 .. MaxFiles /\ quarantine[h] \subseteq 1 .. MaxFiles
  BY DEF LakeTypeOK
<1>2. raw[h] # 0 => raw[h] \in 1 .. MaxFiles
  BY <1>1
<1> QED BY <1>1, <1>2 DEF Linked

\* After its snapshot compact_one goes on in one of two ways, or returns.
LEMMA SnapshotGoesOn ==
    ASSUME LakeTypeOK, NEW h \in Hours
    PROVE  AfterSnapshot(h) \in {"mark_empty", "normalize", "up_to_date", "failed"}
<1>1. manifest[h].status \in {"absent", "verified", "empty"}
  BY DEF LakeTypeOK, Manifest
<1> QED BY <1>1 DEF AfterSnapshot, EmptySource

\* Every step keeps the types.
LEMMA TypeKept == ASSUME LakeTypeOK, Held, Progress, LakeNext PROVE LakeTypeOK'
<1> USE LakeAssumption DEF LakeTypeOK, Time, Inode, Row
<1>1. CASE Tick
  BY <1>1 DEF Tick
<1>2. ASSUME NEW h \in Hours, WriterOpen(h) PROVE LakeTypeOK'
  <2>1. [rows |-> {}, mtime |-> now] \in File
    BY DEF File
  <2>2. CASE raw[h] = 0
    <3>1. created + 1 \in Inode
      BY <1>2, <2>2 DEF WriterOpen, OpenRaw
    <3>2. files' \in [Inode -> File]
      BY <1>2, <2>1, <2>2, <3>1 DEF WriterOpen, OpenRaw
    <3> DEFINE i == created + 1
    <3>4. /\ created' = i /\ raw' = [raw EXCEPT ![h] = i]
          /\ handle' = [handle EXCEPT ![h] = i] /\ i \in 0 .. MaxFiles
      BY <1>2, <2>2, <3>1 DEF WriterOpen, OpenRaw
    <3> HIDE DEF i
    <3>3. /\ created' \in 0 .. MaxFiles /\ raw' \in [Hours -> 0 .. MaxFiles]
          /\ handle' \in [Hours -> 0 .. MaxFiles]
      BY <3>4
    <3> QED BY <1>2, <3>2, <3>3 DEF WriterOpen
  <2>3. CASE raw[h] # 0
    BY <1>2, <2>3 DEF WriterOpen, OpenRaw
  <2> QED BY <2>2, <2>3
<1>3. ASSUME NEW h \in Hours, WriterFlush(h) PROVE LakeTypeOK'
  <2> DEFINE f == [rows |-> files[handle[h]].rows \union {acked[h] + 1}, mtime |-> now]
  <2>1. handle[h] \in Inode /\ acked[h] + 1 \in Row
    BY <1>3 DEF WriterFlush, Held
  <2>2. f \in File
    BY <2>1 DEF File
  <2>3. files' = [files EXCEPT ![handle[h]] = f] /\ acked' = [acked EXCEPT ![h] = acked[h] + 1]
    BY <1>3 DEF WriterFlush
  <2> HIDE DEF f
  <2>4. files' \in [Inode -> File] /\ acked' \in [Hours -> 0 .. MaxRows]
    BY <2>1, <2>2, <2>3
  <2>5. handle' \in [Hours -> 0 .. MaxFiles]
    BY <1>3 DEF WriterFlush
  <2> QED BY <1>3, <2>4, <2>5 DEF WriterFlush
<1>4. ASSUME NEW h \in Hours, WriterCrash(h) PROVE LakeTypeOK'
  BY <1>4 DEF WriterCrash
<1>5. ASSUME NEW h \in Hours, NEW at \in Started, RequestDelete(h, at) PROVE LakeTypeOK'
  <2>1. at \in Time
    BY DEF Started
  <2>2. request' \in Request
    BY <1>5, <2>1 DEF RequestDelete, Request
  <2> QED BY <1>5, <2>2 DEF RequestDelete
<1>6. ASSUME NEW h \in Hours, NEW at \in Started, NEW c \in Owner, CompactStarts(c, h, at)
      PROVE  LakeTypeOK'
  <2>1. at \in Time
    BY DEF Started
  <2>2. job' \in Job
    BY <1>6, <2>1, IdleType DEF CompactStarts, Job, Compacting
  <2> QED BY <1>6, <2>2 DEF CompactStarts
<1>21. CASE CompactSnapshot
  <2>1. raw[job.hour] \in Inode
    BY <1>21 DEF CompactSnapshot, Progress, Compacting
  <2> DEFINE pc == AfterSnapshot(job.hour)
             s == Source(job.hour)
  <2>2. s \in File
    BY <2>1 DEF Source
  <2>3. job' = IF pc \in Compacting THEN [job EXCEPT !.pc = pc, !.snap = s] ELSE Idle
    BY <1>21 DEF CompactSnapshot
  <2> HIDE DEF pc, s
  <2>4. job' \in Job
    BY <2>2, <2>3, IdleType DEF Job
  <2> QED BY <1>21, <2>4 DEF CompactSnapshot
<1>7. CASE MarkEmpty
  <2>1. job.hour \in Hours
    BY <1>7 DEF MarkEmpty, Progress
  <2> DEFINE m == [status |-> "empty", rows |-> {}, mtime |-> job.snap.mtime,
                   out |-> {}, completed |-> job.at]
  <2>2. m \in Manifest
    BY DEF Manifest, Job, File
  <2>3. manifest' = [manifest EXCEPT ![job.hour] = m]
    BY <1>7 DEF MarkEmpty
  <2> HIDE DEF m
  <2> QED BY <1>7, <2>1, <2>2, <2>3, IdleType DEF MarkEmpty
<1>8. CASE Normalize
  <2>1. raw[job.hour] \in Inode
    BY <1>8 DEF Normalize, Progress, Compacting
  <2>2. Source(job.hour).rows \subseteq Row
    BY <2>1 DEF Source, File
  <2>3. job' \in Job
    BY <1>8, <2>2 DEF Normalize, Job, Compacting
  <2> QED BY <1>8, <2>3 DEF Normalize
<1>9. CASE CheckSource
  <2>1. job' \in Job
    BY <1>9, IdleType DEF CheckSource, Job, Compacting
  <2> QED BY <1>9, <2>1 DEF CheckSource
<1>22. CASE ReplaceParquet
  <2>1. job.hour \in Hours /\ job.temp \subseteq Row
    BY <1>22 DEF ReplaceParquet, Progress, Job
  <2>2. job' \in Job
    BY <1>22 DEF ReplaceParquet, Job, Compacting
  <2> QED BY <1>22, <2>1, <2>2 DEF ReplaceParquet
<1>10. CASE WriteManifest
  <2>1. job.hour \in Hours
    BY <1>10 DEF WriteManifest, Progress
  <2> DEFINE m == [status |-> "verified", rows |-> job.snap.rows, mtime |-> job.snap.mtime,
                   out |-> job.temp, completed |-> job.at]
  <2>2. m \in Manifest
    BY DEF Manifest, Job, File
  <2>3. manifest' = [manifest EXCEPT ![job.hour] = m]
    BY <1>10 DEF WriteManifest
  <2> HIDE DEF m
  <2> QED BY <1>10, <2>1, <2>2, <2>3, IdleType DEF WriteManifest
<1>11. CASE TakeCompactLock
  <2>1. job' \in Job
    BY <1>11, IdleType DEF TakeCompactLock, Job, Request, Deleting, Owner
  <2> QED BY <1>11, <2>1 DEF TakeCompactLock
<1>12. CASE TakePathLock
  <2>1. job' \in Job
    BY <1>12, IdleType DEF TakePathLock, Job, Deleting, Fenced
  <2> QED BY <1>12, <2>1, NoRequestType DEF TakePathLock
<1>13. CASE Authorize
  <2>1. job.hour \in Hours /\ raw[job.hour] \in Inode
    BY <1>13 DEF Authorize, Progress
  <2>2. Authorization \subseteq AuditEntry
    BY <2>1 DEF Authorization, Entry, AuditEntry, Source, File
  <2>3. job' \in Job
    BY <1>13 DEF Authorize, Job, Deleting, Fenced
  <2> QED BY <1>13, <2>2, <2>3 DEF Authorize
<1>14. CASE QuarantineRaw
  <2>1. job.hour \in Hours /\ raw[job.hour] \in Inode
    BY <1>14 DEF QuarantineRaw, Progress
  <2>2. job' \in Job
    BY <1>14, <2>1 DEF QuarantineRaw, Job, Deleting, Fenced
  <2>3. raw' \in [Hours -> 0 .. MaxFiles]
    BY <1>14, <2>1 DEF QuarantineRaw
  <2>4. quarantine' \in [Hours -> SUBSET Inode]
    BY <1>14, <2>1 DEF QuarantineRaw
  <2> QED BY <1>14, <2>2, <2>3, <2>4 DEF QuarantineRaw
<1>15. CASE VerifyQuarantine
  <2>1. job.hour \in Hours /\ job.inode \in Inode
    BY <1>15 DEF VerifyQuarantine, Progress
  <2>2. Entry("raw_delete_failed", files[job.inode].rows) \in AuditEntry
    BY <2>1 DEF Entry, AuditEntry, File
  <2>3. job' \in Job
    <3>1. [job EXCEPT !.pc = "unlink"] \in Job
      BY DEF Job, Deleting, Fenced
    <3> QED BY <1>15, <3>1, IdleType DEF VerifyQuarantine
  <2> QED BY <1>15, <2>2, <2>3 DEF VerifyQuarantine
<1>16. CASE UnlinkQuarantine
  <2>1. job.hour \in Hours
    BY <1>16 DEF UnlinkQuarantine, Progress
  <2>2. job' \in Job
    BY <1>16 DEF UnlinkQuarantine, Job, Deleting, Fenced
  <2> QED BY <1>16, <2>1, <2>2 DEF UnlinkQuarantine
<1>17. CASE FinalAudit
  <2>1. job.hour \in Hours /\ job.inode \in Inode
    BY <1>17 DEF FinalAudit, Progress
  <2>2. Conclusion \subseteq AuditEntry
    BY <2>1 DEF Conclusion, Entry, AuditEntry, File
  <2> QED BY <1>17, <2>2, IdleType DEF FinalAudit
<1>18. CASE DeleteFails
  <2>1. job.hour \in Hours
    BY <1>18 DEF DeleteFails, Progress
  <2>2. Entry("raw_delete_failed", manifest[job.hour].rows) \in AuditEntry
    BY <2>1 DEF Entry, AuditEntry, Manifest
  <2> QED BY <1>18, <2>2, IdleType DEF DeleteFails
<1>19. CASE JobStops
  BY <1>19, IdleType, NoRequestType DEF JobStops
<1>20. CASE RequestStops
  BY <1>20, NoRequestType DEF RequestStops
<1> QED
  BY <1>1, <1>2, <1>3, <1>4, <1>5, <1>6, <1>7, <1>8, <1>9, <1>10, <1>11, <1>12, <1>13,
     <1>14, <1>15, <1>16, <1>17, <1>18, <1>19, <1>20, <1>21, <1>22, LakeActions

-----------------------------------------------------------------------------
(* Steps that leave every file and the audit alone *)

Quiet == UNCHANGED <<files, created, raw, quarantine, handle, acked, parquet, audit>>

\* Such a step keeps every promise that does not mention the job.
LEMMA QuietKeeps ==
    ASSUME LakeInv, Quiet, LakeTypeOK', now' >= now
    PROVE  Held' /\ Names' /\ Copies' /\ Final' /\ RowsKept' /\ DeletionsAuthorized'
           /\ DeletedStaysInLake'
<1> USE LakeAssumption DEF LakeInv, Quiet
<1>1. Held' /\ Names' /\ Final'
  BY DEF Held, Names, Final
<1>2. Copies'
  BY DEF Copies, LakeTypeOK, Time
<1>3. RowsKept'
  BY DEF RowsKept, Readable, Linked
<1>4. DeletionsAuthorized'
  BY DEF DeletionsAuthorized, Linked
<1>5. DeletedStaysInLake'
  <2> SUFFICES ASSUME NEW e \in audit', e.event = "raw_deleted"
               PROVE  e.rows \subseteq parquet'[e.hour] /\ EndOf[e.hour] + Grace <= now'
    BY DEF DeletedStaysInLake
  <2>1. e \in audit /\ e.hour \in Hours
    BY DEF LakeTypeOK, AuditEntry
  <2> QED BY <2>1 DEF DeletedStaysInLake, LakeTypeOK, Time
<1> QED BY <1>1, <1>2, <1>3, <1>4, <1>5

\* A manifest that passes every gate describes a complete copy.
LEMMA EvidenceIsCopy ==
    ASSUME LakeInv, NEW h \in Hours, EvidenceMatches(h)
    PROVE  files[raw[h]].rows \subseteq parquet[h]
<1> USE LakeAssumption DEF LakeInv
<1>1. raw[h] \in Inode /\ raw[h] # 0
  BY DEF EvidenceMatches, LakeTypeOK, Inode
<1>2. files[raw[h]].rows \subseteq Row /\ parquet[h] \subseteq files[raw[h]].rows
  BY <1>1 DEF LakeTypeOK, File, Copies
<1>3. IsFiniteSet(Row)
  BY FS_Interval DEF Row
<1>4. IsFiniteSet(files[raw[h]].rows)
  BY <1>2, <1>3, FS_Subset
<1>5. Cardinality(files[raw[h]].rows) = Cardinality(parquet[h])
  BY DEF EvidenceMatches, Source
<1> QED BY <1>2, <1>4, <1>5, FS_Subset

\* The quiet steps keep the invariant.
LEMMA QuietSteps ==
    ASSUME LakeInv, LakeTypeOK',
           \/ Tick \/ Normalize \/ TakeCompactLock \/ TakePathLock \/ JobStops \/ RequestStops
           \/ CompactSnapshot \/ MarkEmpty \/ CheckSource \/ WriteManifest
           \/ \E h \in Hours, at \in Started : RequestDelete(h, at)
           \/ \E h \in Hours, at \in Started : \E c \in Owner : CompactStarts(c, h, at)
    PROVE  LakeInv'
<1> USE LakeAssumption
<1>1. Quiet /\ now' >= now
  <2>1. now \in Nat
    BY DEF LakeInv, LakeTypeOK, Time
  <2>2. CASE Tick
    BY <2>1, <2>2 DEF Tick, Quiet
  <2>3. CASE Normalize \/ TakeCompactLock \/ TakePathLock \/ JobStops \/ RequestStops
             \/ CompactSnapshot \/ MarkEmpty \/ CheckSource \/ WriteManifest
    BY <2>1, <2>3 DEF Quiet, Normalize, TakeCompactLock, TakePathLock, JobStops, RequestStops,
                      CompactSnapshot, MarkEmpty, CheckSource, WriteManifest
  <2>4. ASSUME NEW h \in Hours, NEW at \in Started, RequestDelete(h, at)
        PROVE  Quiet /\ now' >= now
    BY <2>1, <2>4 DEF RequestDelete, Quiet
  <2>5. ASSUME NEW h \in Hours, NEW at \in Started, NEW c \in Owner, CompactStarts(c, h, at)
        PROVE  Quiet /\ now' >= now
    <3>1. UNCHANGED <<now, files, created, raw, quarantine, handle, acked, parquet, audit>>
      BY <2>5 DEF CompactStarts
    <3> QED BY <2>1, <3>1 DEF Quiet
  <2> QED BY <2>2, <2>3, <2>4, <2>5
<1>2. SUFFICES Times' /\ Progress'
  BY <1>1, QuietKeeps DEF LakeInv
<1> USE DEF LakeInv, Quiet
<1>3. CASE Tick
  <2>1. Times'
    BY <1>3 DEF Tick, Times, LakeTypeOK, Time, Job, Request
  <2>2. Progress'
    <3>1. UNCHANGED job /\ now' = now + 1 /\ now \in Nat
      BY <1>3 DEF Tick, LakeTypeOK, Time
    <3>2. ASSUME job.pc \in Fenced PROVE EndOf[job.hour] + Grace <= now'
      <4>1. job.hour \in Hours /\ EndOf[job.hour] + Grace <= now
        BY <3>2 DEF Progress, Fenced
      <4> QED BY <3>1, <4>1
    <3>3. UNCHANGED <<files, created, raw, handle, parquet, audit>>
      BY <1>1
    <3>4. UNCHANGED Authorized(files[raw[job.hour]].rows)
          /\ UNCHANGED Authorized(files[job.inode].rows)
      BY <3>1, <3>3 DEF Authorized
    <3> QED BY <3>1, <3>2, <3>3, <3>4 DEF Progress
  <2> QED BY <2>1, <2>2
<1>4. CASE Normalize
  <2>1. Times'
    BY <1>4 DEF Normalize, Times, LakeTypeOK, Job
  <2>2. /\ job'.pc = "publish" /\ job'.hour = job.hour /\ job'.at = job.at
        /\ job'.temp = files[raw[job.hour]].rows
    BY <1>4 DEF Normalize, LakeTypeOK, Job, Source
  <2>3. Progress'
    BY <1>4, <2>2 DEF Normalize, Progress, Compacting, Fenced
  <2> QED BY <2>1, <2>3
<1>5. CASE TakeCompactLock
  <2>1. job'.pc = "fence" /\ job'.hour = request.hour /\ job'.at = request.at
    BY <1>5, IdleType DEF TakeCompactLock, Job
  <2>2. Times'
    BY <1>5, <2>1 DEF TakeCompactLock, Times
  <2>3. Progress'
    BY <1>5, <2>1 DEF TakeCompactLock, Times, Progress, Compacting, Fenced
  <2> QED BY <2>2, <2>3
<1>6. CASE TakePathLock
  <2>1. Times'
    BY <1>6, IdleType, NoRequestType DEF TakePathLock, Times, LakeTypeOK, Job, Time
  <2>2. CASE manifest[job.hour] = request.expected /\ MayDelete(job.hour, job.at)
    <3>1. /\ job'.pc = "authorize" /\ job'.hour = job.hour /\ job'.at = job.at
          /\ job.hour \in Hours /\ handle[job.hour] = 0
      BY <1>6, <2>2 DEF TakePathLock, LakeTypeOK, Job, Progress, PathLockGranted
    <3>2. EndOf[job.hour] + Grace <= now /\ raw[job.hour] # 0
      BY <2>2, <3>1 DEF MayDelete, RawDeleteGate, EvidenceMatches, Times, LakeTypeOK, Job,
                        Manifest, Time
    <3>3. files[raw[job.hour]].rows \subseteq parquet[job.hour]
      BY <2>2, <3>1, EvidenceIsCopy DEF MayDelete
    <3>4. Progress'
      BY <1>6, <3>1, <3>2, <3>3 DEF TakePathLock, Progress, Compacting, Fenced
    <3> QED BY <2>1, <3>4
  <2>3. CASE ~(manifest[job.hour] = request.expected /\ MayDelete(job.hour, job.at))
    <3>1. job'.pc = "idle"
      BY <1>6, <2>3, IdleType DEF TakePathLock
    <3> QED BY <2>1, <3>1 DEF Progress, Compacting, Fenced
  <2> QED BY <2>2, <2>3
<1>7. CASE JobStops
  <2>1. job'.pc = "idle"
    BY <1>7, IdleType DEF JobStops
  <2>2. Times'
    BY <1>7, IdleType, NoRequestType DEF JobStops, Times, LakeTypeOK, Time
  <2> QED BY <2>1, <2>2 DEF Progress, Compacting, Fenced
<1>8. CASE RequestStops
  <2>1. Times'
    BY <1>8, NoRequestType DEF RequestStops, Times, LakeTypeOK, Time
  <2>2. Progress'
    BY <1>8 DEF RequestStops, Progress, Authorized
  <2> QED BY <2>1, <2>2
<1>9. CASE MarkEmpty
  <2>1. job'.pc = "idle" /\ job.hour \in Hours
    BY <1>9, IdleType DEF MarkEmpty, Progress
  <2>2. \A h \in Hours : manifest'[h].status = "verified" => manifest'[h] = manifest[h]
    BY <1>9, <2>1 DEF MarkEmpty, LakeTypeOK
  <2>3. Times'
    BY <1>9, <2>2, IdleType DEF MarkEmpty, Times, LakeTypeOK, Time
  <2> QED BY <2>1, <2>3 DEF Progress, Compacting, Fenced
<1>10. CASE WriteManifest
  <2>1. job'.pc = "idle" /\ job.hour \in Hours /\ EndOf[job.hour] <= job.at
    BY <1>10, IdleType DEF WriteManifest, Progress, Compacting
  <2>2. \A h \in Hours : \/ manifest'[h] = manifest[h]
                         \/ h = job.hour /\ manifest'[h].completed = job.at
    BY <1>10, <2>1 DEF WriteManifest, LakeTypeOK
  <2>3. Times'
    BY <1>10, <2>1, <2>2, IdleType DEF WriteManifest, Times, LakeTypeOK, Time
  <2> QED BY <2>1, <2>3 DEF Progress, Compacting, Fenced
<1>11. ASSUME NEW h \in Hours, NEW at \in Started, RequestDelete(h, at) PROVE Times' /\ Progress'
  <2>1. Times'
    BY <1>11 DEF RequestDelete, Times, LakeTypeOK, Started, Time
  <2>2. Progress'
    BY <1>11 DEF RequestDelete, Progress, Authorized
  <2> QED BY <2>1, <2>2
<1>12. ASSUME NEW h \in Hours, NEW at \in Started, NEW c \in Owner, CompactStarts(c, h, at)
       PROVE  Times' /\ Progress'
  <2>1. /\ job'.pc = "snapshot" /\ job'.hour = h /\ job'.at = at
        /\ raw[h] # 0 /\ EndOf[h] <= at
    BY <1>12, IdleType DEF CompactStarts, Job, Due, Closed
  <2>2. Times'
    <3>1. UNCHANGED <<now, request, manifest>>
      BY <1>12 DEF CompactStarts
    <3>2. at <= now
      BY DEF Started, LakeTypeOK, Time
    <3> QED BY <2>1, <3>1, <3>2 DEF Times
  <2>3. Progress'
    BY <1>12, <2>1 DEF CompactStarts, Progress, Compacting, Fenced
  <2> QED BY <2>2, <2>3
<1>13. CASE CompactSnapshot
  <2>1. /\ job.pc = "snapshot" /\ job.hour \in Hours /\ raw[job.hour] # 0
        /\ EndOf[job.hour] <= job.at /\ UNCHANGED <<now, request, manifest>> /\ now \in Nat
    BY <1>13 DEF CompactSnapshot, Progress, Compacting, LakeTypeOK, Time
  <2>2. AfterSnapshot(job.hour) \in {"mark_empty", "normalize", "up_to_date", "failed"}
    BY <2>1, SnapshotGoesOn
  <2>3. CASE AfterSnapshot(job.hour) \in Compacting
    <3>1. /\ job'.pc \in {"mark_empty", "normalize"}
          /\ job'.hour = job.hour /\ job'.at = job.at
      BY <1>13, <2>2, <2>3 DEF CompactSnapshot, Compacting, LakeTypeOK, Job
    <3>2. Times'
      BY <2>1, <3>1 DEF Times
    <3>3. Progress'
      BY <1>1, <2>1, <3>1 DEF Progress, Compacting, Fenced
    <3> QED BY <3>2, <3>3
  <2>4. CASE AfterSnapshot(job.hour) \notin Compacting
    <3>1. job'.pc = "idle" /\ job'.at = 0
      BY <1>13, <2>4, IdleType DEF CompactSnapshot
    <3>2. Times'
      BY <2>1, <3>1 DEF Times
    <3> QED BY <3>1, <3>2 DEF Progress, Compacting, Fenced
  <2> QED BY <2>3, <2>4
<1>14. CASE CheckSource
  <2>1. job.pc = "publish" /\ UNCHANGED <<now, request, manifest>> /\ now \in Nat
    BY <1>14 DEF CheckSource, LakeTypeOK, Time
  <2>2. CASE SourceUnchanged
    <3>1. /\ job'.pc = "replace" /\ job'.hour = job.hour /\ job'.at = job.at
          /\ job'.temp = job.temp
      BY <1>14, <2>2 DEF CheckSource, LakeTypeOK, Job
    <3>2. Times'
      BY <2>1, <3>1 DEF Times
    <3>3. Progress'
      BY <1>1, <2>1, <3>1 DEF Progress, Compacting, Fenced
    <3> QED BY <3>2, <3>3
  <2>3. CASE ~SourceUnchanged
    <3>1. job'.pc = "idle" /\ job'.at = 0
      BY <1>14, <2>3, IdleType DEF CheckSource
    <3>2. Times'
      BY <2>1, <3>1 DEF Times
    <3> QED BY <3>1, <3>2 DEF Progress, Compacting, Fenced
  <2> QED BY <2>2, <2>3
<1> QED
  BY <1>3, <1>4, <1>5, <1>6, <1>7, <1>8, <1>9, <1>10, <1>11, <1>12, <1>13, <1>14

-----------------------------------------------------------------------------
(* The writer *)

\* A writer that opens its file loses no row, and never revives an hour whose
\* raw file was deleted.
LEMMA OpenKeeps ==
    ASSUME LakeInv, LakeTypeOK', NEW h \in Hours, WriterOpen(h) PROVE LakeInv'
<1> USE LakeAssumption DEF LakeInv
<1>0. /\ handle[h] = 0 /\ ~(job.pc \in Fenced /\ job.hour = h)
      /\ acked[h] < MaxRows /\ now <= EndOf[h] + MaxLag
      /\ UNCHANGED <<now, quarantine, acked, parquet, manifest, audit, request, job, faults>>
  BY DEF WriterOpen, PathLockFree
<1>1. CASE raw[h] # 0
  <2>1. /\ UNCHANGED <<files, created, raw>> /\ handle' = [handle EXCEPT ![h] = raw[h]]
    BY <1>1 DEF WriterOpen, OpenRaw
  <2>2. Held'
    BY <1>0, <2>1 DEF Held, LakeTypeOK
  <2>3. Progress'
    BY <1>0, <2>1 DEF Progress, Authorized, LakeTypeOK
  <2>4. Names' /\ Times' /\ Copies' /\ Final'
    BY <1>0, <2>1 DEF Names, Times, Copies, Final
  <2>5. RowsKept' /\ DeletionsAuthorized' /\ DeletedStaysInLake'
    BY <1>0, <2>1 DEF RowsKept, Readable, Linked, DeletionsAuthorized, DeletedStaysInLake
  <2> QED BY <2>2, <2>3, <2>4, <2>5
<1>2. CASE raw[h] = 0
  <2> DEFINE i == created + 1
             f == [rows |-> {}, mtime |-> now]
  <2>1. /\ i \in Inode /\ i > created /\ i # 0 /\ f.rows = {}
        /\ created' = i /\ files' = [files EXCEPT ![i] = f]
        /\ raw' = [raw EXCEPT ![h] = i] /\ handle' = [handle EXCEPT ![h] = i]
    BY <1>2 DEF WriterOpen, OpenRaw, LakeTypeOK, Inode
  <2> HIDE DEF i, f
  <2>2. /\ raw'[h] = i /\ \A g \in Hours \ {h} : raw'[g] = raw[g] /\ handle'[g] = handle[g]
        /\ handle'[h] = i
        /\ files'[i].rows = {} /\ \A j \in Inode \ {i} : files'[j] = files[j]
    BY <2>1 DEF LakeTypeOK
  <2>3. \A g \in Hours : raw[g] # i /\ i \notin quarantine[g] /\ handle[g] \in 0 .. MaxFiles
                        /\ raw[g] \in 0 .. MaxFiles
    BY <2>1 DEF Names, LakeTypeOK
  <2>4. Held'
    BY <1>0, <2>2 DEF Held
  <2>5. Names'
    BY <1>0, <2>1, <2>2, <2>3 DEF Names, LakeTypeOK
  <2>6. Times' /\ parquet[h] = {}
    BY <1>0, <1>2 DEF Times, Copies, LakeTypeOK, Time
  <2>7. Copies'
    BY <1>0, <2>2, <2>3, <2>6 DEF Copies, Inode
  <2>8. Final' /\ DeletedStaysInLake'
    <3> SUFFICES ASSUME NEW e \in audit', e.event = "raw_deleted"
                 PROVE  /\ raw'[e.hour] = 0 /\ e.rows \subseteq parquet'[e.hour]
                        /\ EndOf[e.hour] + Grace <= now'
      BY DEF Final, DeletedStaysInLake
    <3>1. e \in audit /\ e.hour \in Hours
      BY <1>0 DEF LakeTypeOK, AuditEntry
    <3>2. EndOf[e.hour] + Grace <= now /\ e.rows \subseteq parquet[e.hour] /\ raw[e.hour] = 0
      BY <3>1 DEF Final, DeletedStaysInLake
    <3>3. e.hour # h
      BY <1>0, <3>2, GraceAssumption DEF LakeTypeOK, Time
    <3> QED BY <1>0, <2>2, <3>1, <3>2, <3>3
  <2>9. Progress'
    <3>1. job.pc \in Compacting \union {"authorize", "rename"} => job.hour # h
      BY <1>2 DEF Progress
    <3>2. job.pc \in {"verify", "unlink", "final"} => job.hour # h
      BY <1>0 DEF Fenced
    <3>3. CASE job.pc \in {"idle", "fence"}
      BY <1>0, <3>3 DEF Progress, Compacting, Fenced
    <3>5. CASE job.pc \in Compacting
      <4>1. job.hour \in Hours \ {h} /\ raw[job.hour] \in Inode \ {i}
        <5>1. job.hour \in Hours \ {h} /\ raw[job.hour] # 0
          BY <3>1, <3>5 DEF Progress, Compacting
        <5> QED BY <2>3, <5>1, NamesType
      <4>2. raw'[job.hour] = raw[job.hour] /\ files'[raw[job.hour]] = files[raw[job.hour]]
        BY <2>2, <4>1
      <4> QED BY <1>0, <3>5, <4>1, <4>2 DEF Progress, Compacting, Fenced
    <3>6. CASE job.pc \in {"authorize", "rename"}
      <4>1. job.hour \in Hours \ {h} /\ raw[job.hour] \in Inode \ {i}
        <5>1. job.hour \in Hours \ {h} /\ raw[job.hour] # 0
          BY <3>1, <3>6 DEF Progress
        <5> QED BY <2>3, <5>1, NamesType
      <4>2. /\ raw'[job.hour] = raw[job.hour] /\ handle'[job.hour] = handle[job.hour]
            /\ files'[raw[job.hour]] = files[raw[job.hour]]
        BY <2>2, <4>1
      <4> QED BY <1>0, <3>6, <4>1, <4>2 DEF Progress, Authorized, Compacting, Fenced
    <3>7. CASE job.pc \in {"verify", "unlink", "final"}
      <4>1. job.hour \in Hours \ {h} /\ job.inode \in 1 .. created /\ job.inode \in Inode \ {i}
        <5>1. job.hour \in Hours \ {h} /\ job.inode \in 1 .. created
          BY <3>2, <3>7 DEF Progress
        <5>2. created \in 0 .. MaxFiles
          BY DEF LakeTypeOK
        <5> QED BY <2>1, <5>1, <5>2 DEF Inode
      <4>2. /\ raw'[job.hour] = raw[job.hour] /\ handle'[job.hour] = handle[job.hour]
            /\ files'[job.inode] = files[job.inode]
            /\ \A g \in Hours : raw'[g] # job.inode
        BY <2>2, <3>7, <4>1 DEF Progress
      <4>3. job.inode \in 1 .. created'
        BY <2>1, <4>1 DEF LakeTypeOK, i
      <4> QED BY <1>0, <3>7, <4>1, <4>2, <4>3 DEF Progress, Authorized, Compacting, Fenced
    <3> QED BY <3>3, <3>5, <3>6, <3>7 DEF LakeTypeOK, Job, Compacting, Deleting, Fenced
  <2>10. RowsKept'
    <3> SUFFICES ASSUME NEW g \in Hours, NEW r \in 1 .. acked[g] PROVE r \in Readable(g)'
      BY <1>0 DEF RowsKept
    <3>1. r \in Readable(g)
      BY DEF RowsKept
    <3>2. CASE r \in parquet[g]
      BY <1>0, <3>2 DEF Readable
    <3>3. ASSUME NEW j \in Linked(g), r \in files[j].rows PROVE r \in Readable(g)'
      <4>1. j \in Inode \ {i}
        <5>1. j \in Inode
          BY NamesType
        <5>2. j # i
          BY <2>3 DEF Linked
        <5> QED BY <5>1, <5>2
      <4>2. j \in Linked(g)'
        BY <1>0, <1>2, <2>2 DEF Linked
      <4> QED BY <2>2, <3>3, <4>1, <4>2 DEF Readable
    <3> QED BY <3>1, <3>2, <3>3 DEF Readable
  <2>11. DeletionsAuthorized'
    <3> SUFFICES ASSUME NEW j \in 1 .. i, \A g \in Hours : j \notin Linked(g)'
                 PROVE  \E e \in audit : e.event = "authorize" /\ e.rows = files'[j].rows
      BY <1>0, <2>1 DEF DeletionsAuthorized
    <3>1. j # i
      BY <2>1, <2>2 DEF Linked
    <3>2. j \in 1 .. created /\ j \in Inode
      BY <2>1, <3>1 DEF i, LakeTypeOK, Inode
    <3>3. \A g \in Hours : j \notin Linked(g)
      BY <1>0, <1>2, <2>2, <3>2 DEF Linked
    <3> QED BY <2>2, <3>1, <3>2, <3>3 DEF DeletionsAuthorized
  <2> QED BY <2>4, <2>5, <2>6, <2>7, <2>8, <2>9, <2>10, <2>11
<1> QED BY <1>1, <1>2

\* The batch goes to a file that is still linked, and nobody else's file
\* changes.
LEMMA FlushKeeps ==
    ASSUME LakeInv, LakeTypeOK', NEW h \in Hours, WriterFlush(h) PROVE LakeInv'
<1> USE LakeAssumption DEF LakeInv
<1> DEFINE i == raw[h]
           n == acked[h] + 1
<1>1. /\ handle[h] = i /\ i \in Inode /\ i # 0 /\ n \in Nat
      /\ UNCHANGED <<now, created, raw, quarantine, parquet, manifest, audit, request, job>>
  BY DEF WriterFlush, Held, LakeTypeOK, Inode
<1>2. /\ \A j \in Inode \ {i} : files'[j] = files[j]
      /\ files'[i].rows = files[i].rows \union {n}
      /\ acked'[h] = n /\ \A g \in Hours \ {h} : acked'[g] = acked[g] /\ handle'[g] = handle[g]
      /\ handle'[h] = 0
  BY <1>1 DEF WriterFlush, LakeTypeOK
<1>3. \A g \in Hours : raw[g] = i => g = h
  BY <1>1 DEF Names
<1>4. ~(job.pc \in Fenced /\ job.hour = h)
  BY <1>1 DEF Progress
<1>5. acked[h] \in Nat /\ 1 .. n = 1 .. acked[h] \union {n}
  BY DEF LakeTypeOK
<1> HIDE DEF i, n
<1>6. Held'
  BY <1>1, <1>2 DEF Held
<1>7. Names' /\ Times' /\ Final' /\ DeletedStaysInLake'
  BY <1>1 DEF Names, Times, Final, DeletedStaysInLake
<1>8. Copies'
  BY <1>1, <1>2, <1>3 DEF Copies, LakeTypeOK, Inode, i
<1>9. Progress'
  <2>1. job.pc \in {"authorize", "rename"} => raw[job.hour] \in Inode \ {i}
    <3> SUFFICES ASSUME job.pc \in {"authorize", "rename"} PROVE raw[job.hour] \in Inode \ {i}
      OBVIOUS
    <3>1. job.hour \in Hours /\ raw[job.hour] # 0 /\ job.hour # h
      BY <1>4 DEF Progress, Fenced
    <3>2. raw[job.hour] \in Inode
      BY <3>1, NamesType
    <3> QED BY <1>3, <3>1, <3>2
  <2>2. job.pc \in {"verify", "unlink", "final"} => job.inode \in Inode \ {i}
    BY DEF Progress, LakeTypeOK, Inode, i
  <2>3. job.pc \in {"publish", "replace", "manifest"} =>
           files[raw[job.hour]].rows \subseteq files'[raw[job.hour]].rows
    <3> SUFFICES ASSUME job.pc \in {"publish", "replace", "manifest"}
                 PROVE  files[raw[job.hour]].rows \subseteq files'[raw[job.hour]].rows
      OBVIOUS
    <3>1. job.hour \in Hours /\ raw[job.hour] # 0
      BY DEF Progress, Compacting
    <3>2. raw[job.hour] \in Inode
      BY <3>1, NamesType
    <3> QED BY <1>2, <3>2
  <2>4. job.pc \in Fenced => job.hour # h /\ job.hour \in Hours
    BY <1>4 DEF Progress, Fenced
  <2> QED BY <1>1, <1>2, <2>1, <2>2, <2>3, <2>4 DEF Progress, Authorized, Fenced
<1>10. RowsKept'
  <2> SUFFICES ASSUME NEW g \in Hours, NEW r \in 1 .. acked'[g] PROVE r \in Readable(g)'
    BY DEF RowsKept
  <2>1. ASSUME NEW j \in Linked(g) PROVE j \in Linked(g)' /\ files[j].rows \subseteq files'[j].rows
    <3>1. j \in Inode
      BY NamesType
    <3>2. j \in Linked(g)'
      BY <1>1 DEF Linked
    <3> QED BY <1>2, <3>1, <3>2
  <2>2. CASE r \in 1 .. acked[g]
    BY <1>1, <2>1, <2>2 DEF RowsKept, Readable
  <2>3. CASE r \notin 1 .. acked[g]
    <3>1. g = h /\ r = n
      BY <1>2, <1>5, <2>3
    <3>2. i \in Linked(h)'
      BY <1>1 DEF Linked, i
    <3> QED BY <1>2, <3>1, <3>2 DEF Readable
  <2> QED BY <2>2, <2>3
<1>11. DeletionsAuthorized'
  <2> SUFFICES ASSUME NEW j \in 1 .. created, \A g \in Hours : j \notin Linked(g)
               PROVE  \E e \in audit : e.event = "authorize" /\ e.rows = files'[j].rows
    BY <1>1 DEF DeletionsAuthorized, Linked
  <2>1. j \in Inode \ {i}
    BY <1>1 DEF Linked, LakeTypeOK, Inode, i
  <2> QED BY <1>2, <2>1 DEF DeletionsAuthorized
<1> QED BY <1>6, <1>7, <1>8, <1>9, <1>10, <1>11

LEMMA CrashKeeps ==
    ASSUME LakeInv, LakeTypeOK', NEW h \in Hours, WriterCrash(h) PROVE LakeInv'
<1> USE DEF LakeInv
<1>1. /\ handle' = [handle EXCEPT ![h] = 0]
      /\ UNCHANGED <<now, files, created, raw, quarantine, acked, parquet, manifest, audit,
                     request, job>>
  BY DEF WriterCrash
<1>2. Held'
  BY <1>1 DEF Held, LakeTypeOK
<1>3. Progress'
  BY <1>1 DEF Progress, Authorized, LakeTypeOK, Fenced
<1>4. Names' /\ Times' /\ Copies' /\ Final'
  BY <1>1 DEF Names, Times, Copies, Final
<1>5. RowsKept' /\ DeletionsAuthorized' /\ DeletedStaysInLake'
  BY <1>1 DEF RowsKept, Readable, Linked, DeletionsAuthorized, DeletedStaysInLake
<1> QED BY <1>2, <1>3, <1>4, <1>5

-----------------------------------------------------------------------------
(* The compactor and the deletion *)

\* Publishing replaces one copy of rows the landing file has by another.
LEMMA PublishKeeps ==
    ASSUME LakeInv, LakeTypeOK', ReplaceParquet PROVE LakeInv'
<1> USE LakeAssumption DEF LakeInv
<1> DEFINE h == job.hour
<1>0. /\ UNCHANGED <<now, files, created, raw, quarantine, handle, acked, manifest, audit, request>>
      /\ job.pc = "replace"
      /\ parquet' = [parquet EXCEPT ![h] = job.temp] /\ job' = [job EXCEPT !.pc = "manifest"]
  BY DEF ReplaceParquet
<1>1. h \in Hours /\ raw[h] # 0 /\ EndOf[h] <= job.at /\ job.temp \subseteq files[raw[h]].rows
  BY <1>0 DEF Progress, Compacting
<1>2. parquet'[h] = job.temp /\ \A g \in Hours \ {h} : parquet'[g] = parquet[g]
  BY <1>0, <1>1 DEF LakeTypeOK
<1>3. job'.pc = "manifest" /\ job'.hour = h /\ job'.at = job.at /\ job'.temp = job.temp
  BY <1>0 DEF LakeTypeOK, Job
<1> HIDE DEF h
<1>4. Held' /\ Names' /\ Times' /\ Final'
  BY <1>0, <1>3 DEF Held, Names, Times, Final
<1>5. Copies'
  BY <1>0, <1>1, <1>2 DEF Copies
<1>6. Progress'
  BY <1>0, <1>1, <1>3 DEF Progress, Compacting, Fenced
<1>7. RowsKept'
  <2> SUFFICES ASSUME NEW g \in Hours PROVE Readable(g) \subseteq Readable(g)'
    BY <1>0 DEF RowsKept
  <2>1. UNCHANGED Linked(g)
    BY <1>0 DEF Linked
  <2>2. CASE g # h
    BY <1>0, <1>2, <2>1, <2>2 DEF Readable
  <2>3. CASE g = h
    <3>1. raw[g] \in Linked(g) /\ parquet[g] \subseteq files[raw[g]].rows
      BY <1>1, <2>3 DEF Linked, Copies
    <3> QED BY <1>0, <2>1, <3>1 DEF Readable
  <2> QED BY <2>2, <2>3
<1>8. DeletionsAuthorized'
  BY <1>0 DEF DeletionsAuthorized, Linked
<1>9. DeletedStaysInLake'
  <2> SUFFICES ASSUME NEW e \in audit, e.event = "raw_deleted" PROVE parquet'[e.hour] = parquet[e.hour]
    BY <1>0 DEF DeletedStaysInLake
  <2>1. e.hour \in Hours /\ raw[e.hour] = 0
    BY DEF LakeTypeOK, AuditEntry, Final
  <2> QED BY <1>1, <1>2, <2>1
<1> QED BY <1>4, <1>5, <1>6, <1>7, <1>8, <1>9

\* A step that only adds entries to the audit, and reports no deletion.
LEMMA AuditKeeps ==
    ASSUME LakeInv, LakeTypeOK',
           UNCHANGED <<now, files, created, raw, quarantine, handle, acked, parquet, manifest,
                       request>>,
           audit \subseteq audit', \A e \in audit' : e \in audit \/ e.event # "raw_deleted",
           job'.at <= now
    PROVE  Held' /\ Names' /\ Times' /\ Copies' /\ Final' /\ RowsKept'
           /\ DeletionsAuthorized' /\ DeletedStaysInLake'
<1> USE DEF LakeInv
<1>1. Held' /\ Names' /\ Times' /\ Copies'
  BY DEF Held, Names, Times, Copies
<1>2. Final' /\ DeletedStaysInLake'
  BY DEF Final, DeletedStaysInLake
<1>3. RowsKept'
  BY DEF RowsKept, Readable, Linked
<1>4. DeletionsAuthorized'
  BY DEF DeletionsAuthorized, Linked
<1> QED BY <1>1, <1>2, <1>3, <1>4

\* The authorization is in the audit before anything is touched.
LEMMA AuthorizeKeeps == ASSUME LakeInv, LakeTypeOK', Authorize PROVE LakeInv'
<1> USE DEF LakeInv
<1>0. /\ UNCHANGED <<now, files, created, raw, quarantine, handle, acked, parquet, manifest,
                     request>>
      /\ job.pc = "authorize" /\ audit' = audit \union Authorization
      /\ job' = [job EXCEPT !.pc = "rename"]
  BY DEF Authorize
<1>1. job'.pc = "rename" /\ job'.hour = job.hour /\ job'.at = job.at /\ job'.at <= now
  BY <1>0 DEF LakeTypeOK, Job, Times
<1> DEFINE a == [hour |-> job.hour, event |-> "authorize", rows |-> files[raw[job.hour]].rows]
<1>2. Authorization = {a} /\ a.event = "authorize" /\ a.rows = files[raw[job.hour]].rows
  BY DEF Authorization, Entry, Source
<1> HIDE DEF a
<1>3. audit \subseteq audit' /\ \A e \in audit' : e \in audit \/ e.event # "raw_deleted"
  BY <1>0, <1>2
<1>4. \E e \in audit' : e.event = "authorize" /\ e.rows = files[raw[job.hour]].rows
  BY <1>0, <1>2
<1>5. Progress'
  BY <1>0, <1>1, <1>4 DEF Progress, Authorized, Compacting, Fenced
<1> QED BY <1>0, <1>1, <1>3, <1>5, AuditKeeps

\* A deletion that gives up leaves the files where they are.
LEMMA GiveUpKeeps ==
    ASSUME LakeInv, LakeTypeOK', NEW rows, job' = Idle,
           audit' = audit \union {Entry("raw_delete_failed", rows)},
           UNCHANGED <<now, files, created, raw, quarantine, handle, acked, parquet, manifest,
                       request>>
    PROVE  LakeInv'
<1> USE LakeAssumption DEF LakeInv
<1>1. job'.pc = "idle" /\ job'.at <= now
  BY IdleType DEF LakeTypeOK, Time
<1> DEFINE a == Entry("raw_delete_failed", rows)
<1>2. a.event = "raw_delete_failed"
  BY DEF Entry
<1> HIDE DEF a
<1>3. audit \subseteq audit' /\ \A e \in audit' : e \in audit \/ e.event # "raw_deleted"
  BY <1>2 DEF a
<1>4. Progress'
  BY <1>1 DEF Progress, Compacting, Fenced
<1> QED BY <1>1, <1>3, <1>4, AuditKeeps

\* The file is moved to a name nobody else uses, and the hour is closed to
\* writers by then.
LEMMA QuarantineKeeps == ASSUME LakeInv, LakeTypeOK', QuarantineRaw PROVE LakeInv'
<1> USE LakeAssumption DEF LakeInv
<1> DEFINE h == job.hour
           i == raw[h]
<1>0. /\ UNCHANGED <<now, files, created, handle, acked, parquet, manifest, audit, request>>
      /\ job.pc = "rename" /\ job' = [job EXCEPT !.pc = "verify", !.inode = i]
      /\ raw' = [raw EXCEPT ![h] = 0]
      /\ quarantine' = [quarantine EXCEPT ![h] = quarantine[h] \union {i}]
  BY DEF QuarantineRaw
<1>1. /\ h \in Hours /\ i # 0 /\ handle[h] = 0 /\ EndOf[h] + Grace <= now
      /\ files[i].rows \subseteq parquet[h] /\ Authorized(files[i].rows)
  BY <1>0 DEF Progress, Fenced
<1>2. i \in Inode /\ i \in 1 .. created
  BY <1>1, NamesType DEF Names, LakeTypeOK, Inode
<1>3. /\ job'.pc = "verify" /\ job'.hour = h /\ job'.at = job.at /\ job'.inode = i
  BY <1>0 DEF LakeTypeOK, Job
<1>4. raw'[h] = 0 /\ \A g \in Hours \ {h} : raw'[g] = raw[g] /\ quarantine'[g] = quarantine[g]
  BY <1>0, <1>1 DEF LakeTypeOK
<1>5. quarantine'[h] = quarantine[h] \union {i}
  BY <1>0, <1>1 DEF LakeTypeOK
<1>6. \A g \in Hours \ {h} : raw[g] # i
  BY <1>1 DEF Names
<1> HIDE DEF h
<1>7. ASSUME NEW g \in Hours PROVE UNCHANGED Linked(g)
  <2>1. CASE g # h
    BY <1>4, <2>1 DEF Linked
  <2>2. CASE g = h
    BY <1>1, <1>4, <1>5, <2>2 DEF Linked
  <2> QED BY <2>1, <2>2
<1> HIDE DEF i
<1>8. Held'
  BY <1>0, <1>1, <1>4 DEF Held
<1>9. Names'
  <2>1. \A g \in Hours : raw'[g] <= created' /\ quarantine'[g] \subseteq 1 .. created'
    BY <1>0, <1>2, <1>4, <1>5 DEF Names, LakeTypeOK
  <2>2. \A f, g \in Hours : raw'[g] # 0 /\ raw'[g] = raw'[f] => f = g
    BY <1>4 DEF Names
  <2>3. ASSUME NEW f \in Hours, NEW g \in Hours PROVE raw'[g] \notin quarantine'[f]
    <3>1. CASE g = h
      BY <1>4, <2>1, <3>1
    <3>2. CASE g # h
      <4>1. raw'[g] = raw[g] /\ raw[g] # i /\ raw[g] \notin quarantine[f]
        BY <1>4, <1>6, <3>2 DEF Names
      <4> QED BY <1>4, <1>5, <4>1
    <3> QED BY <3>1, <3>2
  <2> QED BY <2>1, <2>2, <2>3 DEF Names
<1>10. Times'
  BY <1>0, <1>3 DEF Times
<1>11. Copies'
  <2>1. EndOf[h] + MaxLag < now
    BY <1>1, GraceAssumption DEF LakeTypeOK, Time
  <2> QED BY <1>0, <1>4, <2>1 DEF Copies
<1>12. Progress'
  <2>1. \A g \in Hours : raw'[g] # i
    BY <1>1, <1>4, <1>6
  <2>2. Authorized(files[job.inode].rows)'
    BY <1>0, <1>1, <1>3 DEF Authorized
  <2> QED BY <1>0, <1>1, <1>2, <1>3, <1>4, <2>1, <2>2 DEF Progress, Compacting, Fenced
<1>13. Final'
  <2> SUFFICES ASSUME NEW e \in audit, e.event = "raw_deleted" PROVE raw'[e.hour] = 0
    BY <1>0 DEF Final
  <2>1. e.hour \in Hours /\ raw[e.hour] = 0
    BY DEF LakeTypeOK, AuditEntry, Final
  <2> QED BY <1>4, <2>1
<1>14. RowsKept' /\ DeletionsAuthorized'
  BY <1>0, <1>7 DEF RowsKept, Readable, DeletionsAuthorized
<1>15. DeletedStaysInLake'
  BY <1>0 DEF DeletedStaysInLake
<1> QED BY <1>8, <1>9, <1>10, <1>11, <1>12, <1>13, <1>14, <1>15

\* The quarantined file is compared with the manifest once more.
LEMMA VerifyKeeps == ASSUME LakeInv, LakeTypeOK', VerifyQuarantine PROVE LakeInv'
<1> USE LakeAssumption DEF LakeInv
<1>0. /\ UNCHANGED <<now, files, created, raw, quarantine, handle, acked, parquet, manifest,
                     request>>
      /\ job.pc = "verify"
  BY DEF VerifyQuarantine
<1>1. CASE files[job.inode].rows = manifest[job.hour].rows
  <2>1. job' = [job EXCEPT !.pc = "unlink"] /\ UNCHANGED audit
    BY <1>1 DEF VerifyQuarantine
  <2>2. job'.pc = "unlink" /\ job'.hour = job.hour /\ job'.at = job.at /\ job'.inode = job.inode
    BY <2>1 DEF LakeTypeOK, Job
  <2>3. Times'
    BY <1>0, <2>2 DEF Times
  <2>4. Authorized(files[job.inode].rows)'
    BY <1>0, <2>1, <2>2 DEF Progress, Authorized
  <2>5. Progress'
    BY <1>0, <2>2, <2>4 DEF Progress, Compacting, Fenced
  <2>6. Quiet /\ now' >= now
    BY <1>0, <2>1 DEF Quiet, LakeTypeOK, Time
  <2> QED BY <2>3, <2>5, <2>6, QuietKeeps
<1>2. CASE files[job.inode].rows # manifest[job.hour].rows
  BY <1>0, <1>2, GiveUpKeeps DEF VerifyQuarantine
<1> QED BY <1>1, <1>2

LEMMA FailsKeeps == ASSUME LakeInv, LakeTypeOK', DeleteFails PROVE LakeInv'
<1>1. /\ UNCHANGED <<now, files, created, raw, quarantine, handle, acked, parquet, manifest,
                     request>>
      /\ audit' = audit \union {Entry("raw_delete_failed", manifest[job.hour].rows)}
      /\ job' = Idle
  BY DEF DeleteFails
<1> QED BY <1>1, GiveUpKeeps

\* What the last name of a file gives up is in the Parquet file, and was
\* authorized.
LEMMA UnlinkKeeps == ASSUME LakeInv, LakeTypeOK', UnlinkQuarantine PROVE LakeInv'
<1> USE LakeAssumption DEF LakeInv
<1> DEFINE h == job.hour
           i == job.inode
<1>0. /\ UNCHANGED <<now, files, created, raw, handle, acked, parquet, manifest, audit, request>>
      /\ job.pc = "unlink" /\ job' = [job EXCEPT !.pc = "final"]
      /\ quarantine' = [quarantine EXCEPT ![h] = quarantine[h] \ {i}]
  BY DEF UnlinkQuarantine
<1>1. h \in Hours /\ files[i].rows \subseteq parquet[h] /\ Authorized(files[i].rows)
  BY <1>0 DEF Progress
<1>2. job'.pc = "final" /\ job'.hour = h /\ job'.at = job.at /\ job'.inode = i
  BY <1>0 DEF LakeTypeOK, Job
<1>3. /\ quarantine'[h] = quarantine[h] \ {i}
      /\ \A g \in Hours \ {h} : quarantine'[g] = quarantine[g]
  BY <1>0, <1>1 DEF LakeTypeOK
<1>4. Progress'
  <2>1. Authorized(files[i].rows)'
    BY <1>0, <1>1, <1>2 DEF Authorized
  <2> QED BY <1>0, <1>2, <2>1 DEF Progress, Compacting, Fenced
<1> HIDE DEF h, i
<1>5. ASSUME NEW g \in Hours, NEW j \in Linked(g), j # i \/ g # h PROVE j \in Linked(g)'
  BY <1>0, <1>3, <1>5 DEF Linked
<1>6. Held' /\ Times' /\ Copies' /\ Final' /\ DeletedStaysInLake'
  BY <1>0, <1>2 DEF Held, Times, Copies, Final, DeletedStaysInLake
<1>7. Names'
  <2>1. \A g \in Hours : quarantine'[g] \subseteq quarantine[g]
    BY <1>3
  <2> QED BY <1>0, <2>1 DEF Names
<1>8. RowsKept'
  <2> SUFFICES ASSUME NEW g \in Hours, NEW r \in 1 .. acked[g] PROVE r \in Readable(g)'
    BY <1>0 DEF RowsKept
  <2>1. CASE r \in parquet[g]
    BY <1>0, <2>1 DEF Readable
  <2>2. ASSUME NEW j \in Linked(g), r \in files[j].rows PROVE r \in Readable(g)'
    <3>1. CASE j = i /\ g = h
      BY <1>0, <1>1, <2>2, <3>1 DEF Readable
    <3>2. CASE j # i \/ g # h
      <4>1. j \in Linked(g)'
        BY <1>5, <3>2
      <4> QED BY <1>0, <2>2, <4>1 DEF Readable
    <3> QED BY <3>1, <3>2
  <2>3. r \in Readable(g)
    BY DEF RowsKept
  <2> QED BY <2>1, <2>2, <2>3 DEF Readable
<1>9. DeletionsAuthorized'
  <2> SUFFICES ASSUME NEW j \in 1 .. created, \A g \in Hours : j \notin Linked(g)'
               PROVE  \E e \in audit : e.event = "authorize" /\ e.rows = files[j].rows
    BY <1>0 DEF DeletionsAuthorized
  <2>1. CASE j = i
    BY <1>1, <2>1 DEF Authorized
  <2>2. CASE j # i
    <3>1. \A g \in Hours : j \notin Linked(g)
      BY <1>5, <2>2
    <3> QED BY <3>1 DEF DeletionsAuthorized
  <2> QED BY <2>1, <2>2
<1> QED BY <1>4, <1>6, <1>7, <1>8, <1>9

\* The report of a deletion is true when it is written.
LEMMA FinalKeeps == ASSUME LakeInv, LakeTypeOK', FinalAudit PROVE LakeInv'
<1> USE LakeAssumption DEF LakeInv
<1> DEFINE h == job.hour
           a == [hour |-> h, event |-> "raw_deleted", rows |-> files[job.inode].rows]
<1>0. /\ UNCHANGED <<now, files, created, raw, quarantine, handle, acked, parquet, manifest,
                     request>>
      /\ job.pc = "final" /\ job' = Idle /\ audit' = audit \union {a}
  BY DEF FinalAudit, Conclusion, Entry
<1>1. /\ h \in Hours /\ raw[h] = 0 /\ files[job.inode].rows \subseteq parquet[h]
      /\ EndOf[h] + Grace <= now
  BY <1>0 DEF Progress, Fenced
<1>2. a.hour = h /\ a.rows \subseteq parquet[h]
  BY <1>1
<1> HIDE DEF h, a
<1>3. Final' /\ DeletedStaysInLake'
  BY <1>0, <1>1, <1>2 DEF Final, DeletedStaysInLake
<1>4. job'.pc = "idle" /\ job'.at = 0 /\ now \in Nat
  BY <1>0, IdleType DEF LakeTypeOK, Time
<1>5. Held' /\ Names' /\ Times' /\ Copies'
  BY <1>0, <1>4 DEF Held, Names, Times, Copies
<1>6. Progress'
  BY <1>4 DEF Progress, Compacting, Fenced
<1>7. RowsKept'
  BY <1>0 DEF RowsKept, Readable, Linked
<1>8. DeletionsAuthorized'
  BY <1>0 DEF DeletionsAuthorized, Linked
<1> QED BY <1>3, <1>5, <1>6, <1>7, <1>8

-----------------------------------------------------------------------------
(* Theorems *)

LEMMA LakeInitially == LakeInit => LakeInv
<1> SUFFICES ASSUME LakeInit PROVE LakeInv
  OBVIOUS
<1>1. LakeTypeOK
  <2>1. now \in Time /\ created \in 0 .. MaxFiles /\ faults \in 0 .. MaxFaults
    BY LakeAssumption DEF LakeInit, Time
  <2>2. files \in [Inode -> File]
    BY EmptyTypes DEF LakeInit
  <2>3. raw \in [Hours -> 0 .. MaxFiles] /\ quarantine \in [Hours -> SUBSET Inode]
    BY LakeAssumption DEF LakeInit
  <2>4. handle \in [Hours -> 0 .. MaxFiles] /\ acked \in [Hours -> 0 .. MaxRows]
    BY LakeAssumption DEF LakeInit
  <2>5. parquet \in [Hours -> SUBSET Row] /\ manifest \in [Hours -> Manifest]
    BY EmptyTypes DEF LakeInit
  <2>6. audit \subseteq AuditEntry /\ request \in Request /\ job \in Job
    BY IdleType, NoRequestType DEF LakeInit
  <2> QED BY <2>1, <2>2, <2>3, <2>4, <2>5, <2>6 DEF LakeTypeOK
<1> USE LakeAssumption DEF LakeInit
<1>2. Held /\ Names /\ Copies /\ Final
  BY DEF Held, Names, Copies, Final
<1>3. Times
  BY IdleType, NoRequestType DEF Times, NoManifest
<1>4. Progress
  BY IdleType DEF Progress, Compacting, Fenced
<1>5. RowsKept /\ DeletionsAuthorized /\ DeletedStaysInLake
  BY DEF RowsKept, DeletionsAuthorized, DeletedStaysInLake
<1> QED BY <1>1, <1>2, <1>3, <1>4, <1>5 DEF LakeInv

LEMMA LakeStutters == ASSUME LakeInv, UNCHANGED lakeVars PROVE LakeInv'
<1> USE DEF LakeInv, lakeVars
<1>1. LakeTypeOK'
  BY DEF LakeTypeOK
<1>2. Held' /\ Names' /\ Times' /\ Copies' /\ Final'
  BY DEF Held, Names, Times, Copies, Final
<1>3. Progress'
  BY DEF Progress, Authorized
<1>4. RowsKept' /\ DeletionsAuthorized' /\ DeletedStaysInLake'
  BY DEF RowsKept, Readable, Linked, DeletionsAuthorized, DeletedStaysInLake
<1> QED BY <1>1, <1>2, <1>3, <1>4

\* Every step of writers, compactor and deletion keeps the invariant.
LEMMA LakeStep == ASSUME LakeInv, LakeNext PROVE LakeInv'
<1>1. LakeTypeOK'
  BY TypeKept DEF LakeInv
<1> QED
  BY <1>1, LakeActions, QuietSteps, OpenKeeps, FlushKeeps, CrashKeeps, PublishKeeps,
     AuthorizeKeeps, QuarantineKeeps, VerifyKeeps, UnlinkKeeps, FinalKeeps, FailsKeeps

\* Every state of the lake satisfies the inductive invariant.
THEOREM LakeInvariant == LakeSpec => []LakeInv
<1>1. LakeInv /\ [LakeNext]_lakeVars => LakeInv'
  BY LakeStep, LakeStutters
<1> QED BY <1>1, LakeInitially, PTL DEF LakeSpec

\* The lake's variables keep their types, for any hours, rows and delays.
THEOREM LakeTypeCorrect == LakeSpec => []LakeTypeOK
<1>1. LakeInv => LakeTypeOK
  BY DEF LakeInv
<1> QED BY <1>1, LakeInvariant, PTL

\* A row that write_quotes has returned for stays readable, whatever writers,
\* compactor, deletion and crashes do.
THEOREM RowsAlwaysKept == LakeSpec => []RowsKept
<1>1. LakeInv => RowsKept
  BY DEF LakeInv
<1> QED BY <1>1, LakeInvariant, PTL

\* A raw file disappears only after an authorization for its rows has been
\* written to the audit.
THEOREM DeletionsAlwaysAuthorized == LakeSpec => []DeletionsAuthorized
<1>1. LakeInv => DeletionsAuthorized
  BY DEF LakeInv
<1> QED BY <1>1, LakeInvariant, PTL

\* What the audit reports as deleted stays readable from the Parquet file.
THEOREM DeletedAlwaysInLake == LakeSpec => []DeletedStaysInLake
<1>1. LakeInv => DeletedStaysInLake
  BY DEF LakeInv
<1> QED BY <1>1, LakeInvariant, PTL
=============================================================================
