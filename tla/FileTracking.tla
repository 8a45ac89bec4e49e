--------------------------- MODULE FileTracking ---------------------------
(***************************************************************************)
(* FileTrackingStore: one Azure table with, for every S3 key, a base       *)
(* entity (RowKey = hash) and a versioned entity per ingestion version     *)
(* (RowKey = hash_v{n}).  Every call is unconditional: no operation looks  *)
(* at an ETag.  mark_processing, mark_completed and mark_failed are each   *)
(* two upserts, versioned entity first, so each has two operators here.    *)
(***************************************************************************)
EXTENDS Domain

VARIABLES
    base,   \* base entity of each key: its Status and LastModified
    ver     \* versioned entities: Status and, once completed, hash and path

trackVars == <<base, ver>>

Statuses == {"none", "queued", "processing", "completed", "failed"}

\* lm is Size and LastModified together: the revision the listing showed.
BaseEntity    == [status : Statuses, lm : 0 .. MaxRev]
\* rev is FileHash; day, with the version, is StoragePath and MetadataPath.
VersionEntity == [status : Statuses \ {"queued"}, rev : 0 .. MaxRev, day : 0 .. MaxDay]

TrackingTypeOK ==
    /\ base \in [Keys -> BaseEntity]
    /\ ver \in [Keys -> [Versions -> VersionEntity]]

TrackingInit ==
    /\ base = [k \in Keys |-> [status |-> "none", lm |-> 0]]
    /\ ver = [k \in Keys |->
                [v \in Versions |-> [status |-> "none", rev |-> 0, day |-> 0]]]
---------------------------------------------------------------------------
\* Slip: the Status is not looked at, so a file queued and lost is never retried.
IsUnprocessedByDateAlone(k, r) == base[k].lm # r

\* get_unprocessed_files: is the listed revision r of k new or changed?
IsUnprocessed(k, r) == ~ (base[k].status = "completed" /\ base[k].lm = r)

\* Slip: the query forgets its Status filter.
VersionsOfAnyStatus(k) == {v \in Versions : ver[k][v].status # "none"}

\* get_versions: a version counts only while its entity says completed.
CompletedVersions(k) == {v \in Versions : ver[k][v].status = "completed"}

\* Slip: the + 1 is missing.
IsCurrentVersion(k, v) ==
    /\ \A u \in CompletedVersions(k) : u <= v
    /\ v = 1 \/ v \in CompletedVersions(k)

\* max(get_versions(..), default=0) + 1
IsNextVersion(k, v) ==
    /\ \A u \in CompletedVersions(k) : u < v
    /\ v = 1 \/ v - 1 \in CompletedVersions(k)

\* mark_queued: create, or update with mode="replace".
MarkQueued(k, r) ==
    /\ base' = [base EXCEPT ![k] = [status |-> "queued", lm |-> r]]
    /\ UNCHANGED ver

\* A merge upsert of a base entity touches Status alone.
SetBaseStatus(k, s) ==
    /\ base' = [base EXCEPT ![k].status = s]
    /\ UNCHANGED ver

\* A merge upsert of a versioned entity's Status keeps the hash and the path.
SetVersionStatus(k, v, s) ==
    /\ ver' = [ver EXCEPT ![k][v].status = s]
    /\ UNCHANGED base

\* Slip: the record is written with the status the base entity starts with.
CompleteVersionAsQueued(k, v, r, d) ==
    /\ ver' = [ver EXCEPT ![k][v] = [status |-> "queued", rev |-> r, day |-> d]]
    /\ UNCHANGED base

\* mark_completed, first upsert: the full metadata record.
CompleteVersion(k, v, r, d) ==
    /\ ver' = [ver EXCEPT ![k][v] = [status |-> "completed", rev |-> r, day |-> d]]
    /\ UNCHANGED base
===========================================================================
