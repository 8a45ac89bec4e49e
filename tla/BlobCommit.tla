----------------------------- MODULE BlobCommit -----------------------------
(***************************************************************************)
(* AdlsStore.stream_upload on one bronze path, by several uploads at once: *)
(* the pre-check, the staged blocks, and _commit_with_identity_guard's     *)
(* read of the blob's properties, conditional commit and single retry.     *)
(*                                                                         *)
(* The blob service is external.  Put Block under an id that is already    *)
(* uncommitted replaces that block; a block list takes each id from the    *)
(* uncommitted blocks, else from the committed blob, and drops whatever    *)
(* else was uncommitted; a commit changes the ETag.                        *)
(***************************************************************************)
EXTENDS Classification

CONSTANTS
    Uploads,            \* uploads to this path
    Keys,               \* S3 keys
    None,               \* no s3_key recorded, no block
    KeyOf,              \* [Uploads -> Keys]
    LenOf,              \* blocks in each upload's source
    MaxBlocks,          \* bound: blocks of one file
    MaxCommitAttempts   \* _MAX_COMMIT_ATTEMPTS

ASSUME UploadsAssumption ==
    /\ KeyOf \in [Uploads -> Keys]
    /\ MaxBlocks \in Nat
    /\ LenOf \in [Uploads -> 0 .. MaxBlocks]
    /\ None \notin Keys \cup Uploads

\* The retry is what tells contention from a conflict of identities.
ASSUME AttemptsAssumption == MaxCommitAttempts \in Nat /\ MaxCommitAttempts >= 2

VARIABLES
    blob,       \* the committed blob; etag 0: none
    staged,     \* who staged the uncommitted block under each id
    pc,         \* where each upload stands
    count,      \* blocks each upload has staged
    seen,       \* ETag each upload read last
    attempt,    \* commits each upload has lost
    met         \* history: what went wrong with each upload

vars == <<blob, staged, pc, count, seen, attempt, met>>

Blocks == 1 .. MaxBlocks

\* blocks[i] is the upload whose i-th block the blob holds.
Blob == [etag : Nat, key : Keys \cup {None}, len : 0 .. MaxBlocks,
         blocks : [Blocks -> Uploads \cup {None}]]

Working == {"check", "stage", "read", "commit"}
Ended   == {"done",
            "refused", "contention",    \* the two errors of the identity guard
            "failed", "dropped"}        \* another AdlsUploadError: transient, or not

TypeOK ==
    /\ blob \in Blob
    /\ staged \in [Blocks -> Uploads \cup {None}]
    /\ pc \in [Uploads -> Working \cup Ended]
    /\ count \in [Uploads -> 0 .. MaxBlocks]
    /\ seen \in [Uploads -> Nat]
    /\ attempt \in [Uploads -> 0 .. MaxCommitAttempts]
    /\ met \in [Uploads -> {"nothing", "outage", "defect"}]

NoBlocks == [i \in Blocks |-> None]
NoBlob   == [etag |-> 0, key |-> None, len |-> 0, blocks |-> NoBlocks]

\* A blob from before the guard existed has no s3_key.
LegacyBlob == [NoBlob EXCEPT !.etag = 1]

Init ==
    /\ blob \in {NoBlob, LegacyBlob}
    /\ staged = NoBlocks
    /\ pc = [u \in Uploads |-> "check"]
    /\ count = [u \in Uploads |-> 0]
    /\ seen = [u \in Uploads |-> 0]
    /\ attempt = [u \in Uploads |-> 0]
    /\ met = [u \in Uploads |-> "nothing"]
-----------------------------------------------------------------------------
Goto(u, l) == pc' = [pc EXCEPT ![u] = l]

\* Slip: a blob that is not there, or has no s3_key, counts as a collision.
SameIdentityStrict(u) == blob.key = KeyOf[u]

\* Slip: no guard.
AnyIdentity(u) == TRUE

SameIdentity(u) == blob.key \in {None, KeyOf[u]}

\* Slip: the last block is not staged.
AfterStagingShort(u, n) == IF n + 1 < LenOf[u] THEN "stage" ELSE "read"

AfterStaging(u, n) == IF n < LenOf[u] THEN "stage" ELSE "read"

\* stream_upload raises, and historical_worker decides what becomes of the message.
Raise(u, chain) == Goto(u, IF IsTransient(chain) THEN "failed" ELSE "dropped")

\* AdlsUploadError raised from e.
RaiseFrom(u, e) == Raise(u, <<Error("AdlsUploadError"), e>>)

Meet(u, what) == met' = [met EXCEPT ![u] = what]

\* The source answers 404: an AdlsUploadError without a cause.
SourceAbsent(u) ==
    /\ pc[u] = "check"
    /\ Raise(u, <<Error("AdlsUploadError")>>)
    /\ Meet(u, "defect")
    /\ UNCHANGED <<blob, staged, count, seen, attempt>>

\* _check_no_identity_collision.
PreCheck(u) ==
    /\ pc[u] = "check" /\ SameIdentity(u)
    /\ Goto(u, AfterStaging(u, 0))
    /\ UNCHANGED <<blob, staged, count, seen, attempt, met>>

\* stage_block under _block_id(len(block_ids)): the same id in every upload.
StageBlock(u) ==
    /\ pc[u] = "stage" /\ count[u] < LenOf[u]
    /\ count' = [count EXCEPT ![u] = @ + 1]
    /\ staged' = [staged EXCEPT ![count[u] + 1] = u]
    /\ Goto(u, AfterStaging(u, count[u] + 1))
    /\ UNCHANGED <<blob, seen, attempt, met>>

\* get_blob_properties finds the path free or under this upload's own key.
ReadIdentity(u) ==
    /\ pc[u] = "read" /\ SameIdentity(u)
    /\ seen' = [seen EXCEPT ![u] = blob.etag]
    /\ Goto(u, "commit")
    /\ UNCHANGED <<blob, staged, count, attempt, met>>

\* Slip: AdlsBlobIdentityMismatchError is swallowed.
RefuseQuietly(u) ==
    /\ pc[u] \in {"check", "read"} /\ ~ SameIdentity(u)
    /\ Goto(u, "done")
    /\ UNCHANGED <<blob, staged, count, seen, attempt, met>>

\* It finds another key, in the pre-check or before a commit.
Refuse(u) ==
    /\ pc[u] \in {"check", "read"} /\ ~ SameIdentity(u)
    /\ Goto(u, "refused")
    /\ UNCHANGED <<blob, staged, count, seen, attempt, met>>

\* Slip: an unconditional commit after the check.
NoCondition(u) == TRUE

\* IfMissing and IfNotModified: nothing was committed since the read.
ConditionHolds(u) == blob.etag = seen[u]

\* The block list names the blocks this upload has staged.
HasAllBlocks(u) == \A i \in 1 .. count[u] : staged[i] # None \/ i <= blob.len

CommitBlocks(u) ==
    /\ blob' = [etag |-> blob.etag + 1,
                key |-> KeyOf[u],
                len |-> count[u],
                blocks |-> [i \in Blocks |-> IF i > count[u] THEN None
                                             ELSE IF staged[i] # None THEN staged[i]
                                             ELSE blob.blocks[i]]]
    /\ staged' = NoBlocks

Commit(u) ==
    /\ pc[u] = "commit" /\ ConditionHolds(u) /\ HasAllBlocks(u)
    /\ CommitBlocks(u)
    /\ Goto(u, "done")
    /\ UNCHANGED <<count, seen, attempt, met>>

\* Slip: one commit too many.
RetryOnceMore(u) ==
    /\ attempt' = [attempt EXCEPT ![u] = @ + 1]
    /\ Goto(u, IF attempt[u] + 1 <= MaxCommitAttempts THEN "read" ELSE "contention")
    /\ UNCHANGED <<count, seen, met>>

\* Slip: the first lost race counts as contention.
RetryNever(u) ==
    /\ attempt' = [attempt EXCEPT ![u] = @ + 1]
    /\ Goto(u, "contention")
    /\ UNCHANGED <<count, seen, met>>

\* 409 or 412: decide again once, then give up.
Retry(u) ==
    /\ attempt' = [attempt EXCEPT ![u] = @ + 1]
    /\ Goto(u, IF attempt[u] + 1 < MaxCommitAttempts THEN "read" ELSE "contention")
    /\ UNCHANGED <<count, seen, met>>

\* Slip: nothing is done about the last lost race.
LoseRaceButLast(u) ==
    /\ pc[u] = "commit" /\ ~ ConditionHolds(u)
    /\ attempt[u] + 1 < MaxCommitAttempts
    /\ Retry(u)
    /\ UNCHANGED <<blob, staged>>

LoseRace(u) ==
    /\ pc[u] = "commit" /\ ~ ConditionHolds(u)
    /\ Retry(u)
    /\ UNCHANGED <<blob, staged>>

\* The commit takes effect but its answer is lost: the call fails, or the SDK
\* repeats it and the condition now fails against the upload's own commit.
CommitUnanswered(u) ==
    /\ pc[u] = "commit" /\ ConditionHolds(u) /\ HasAllBlocks(u)
    /\ CommitBlocks(u)
    /\ \/ Retry(u)
       \/ /\ RaiseFrom(u, Error("ServiceResponseError"))
          /\ Meet(u, "outage")
          /\ UNCHANGED <<count, seen, attempt>>

\* Some block is neither staged nor committed any more: 400 InvalidBlockList.
CommitInvalid(u) ==
    /\ pc[u] = "commit" /\ ~ HasAllBlocks(u)
    /\ RaiseFrom(u, ErrorWith("HttpResponseError", 400))
    /\ UNCHANGED <<blob, staged, count, seen, attempt, met>>

\* What httpx raises of the source: an unclassified DecodingError stands for a bad body.
SourceOutages == {Error("TimeoutException"), Error("TransportError"),
                  ErrorWith("HTTPStatusError", 500), ErrorWith("HTTPStatusError", 408)}
SourceDefects == {ErrorWith("HTTPStatusError", 403), Error("DecodingError")}

\* What the storage SDK raises; without a status, its credential failed.
StorageOutages == {Error("ServiceRequestError"), Error("ServiceResponseError"),
                   ErrorWith("HttpResponseError", 503), ErrorWith("HttpResponseError", 429)}
StorageDefects == {Error("HttpResponseError")} \cup
                  {ErrorWith("HttpResponseError", s) : s \in {401, 403, 404, 409}}

\* An outage passes by itself; a defect is met again by the next delivery.
Outages == SourceOutages \cup StorageOutages
Defects == SourceDefects \cup StorageDefects

\* raise_for_status comes first, and the download ends before the commit loop.  Of
\* get_blob_properties a 404 only means that there is no blob, of create_container a
\* 409 that there is a container, and of a commit a 409 is a lost race.
MayRaise(l, e) ==
    /\ e.class = "HTTPStatusError" => l = "check"
    /\ e \in SourceOutages \cup SourceDefects => l \in {"check", "stage"}
    /\ e \in StorageDefects => (e.status = 404 => l \in {"stage", "commit"})
                             /\ (e.status = 409 => l = "stage")

\* Any other exception at any await; the host's death, after which the message comes
\* back as after an outage, is one.  Staged blocks stay.
Fail(u) ==
    /\ pc[u] \in Working
    /\ \E e \in Outages \cup Defects :
        /\ MayRaise(pc[u], e)
        /\ RaiseFrom(u, e)
        /\ Meet(u, IF e \in Outages THEN "outage" ELSE "defect")
    /\ UNCHANGED <<blob, staged, count, seen, attempt>>

UploadStep(u) ==
    \/ PreCheck(u) \/ StageBlock(u) \/ ReadIdentity(u) \/ Refuse(u)
    \/ Commit(u) \/ LoseRace(u) \/ CommitInvalid(u)

UploadFault(u) == SourceAbsent(u) \/ CommitUnanswered(u) \/ Fail(u)

Finished ==
    /\ \A u \in Uploads : pc[u] \in Ended
    /\ UNCHANGED vars

Next ==
    \/ \E u \in Uploads : UploadStep(u) \/ UploadFault(u)
    \/ Finished

Spec == Init /\ [][Next]_vars

\* An upload that can go on does: a coroutine on a live host.
FairSpec == Spec /\ \A u \in Uploads : WF_vars(UploadStep(u))
-----------------------------------------------------------------------------
\* The race-proof guard: a path's recorded identity is never replaced.
IdentityKept == [][blob.key # None => blob'.key = blob.key]_vars

\* An upload reports success only while its key owns the path, now and later.
DoneOwnsPath == \A u \in Uploads : pc[u] = "done" => blob.key = KeyOf[u]

\* AdlsBlobIdentityMismatchError, which is never retried, means another key
\* really owns the path.
RefusalIsFinal ==
    \A u \in Uploads : pc[u] = "refused" => blob.key \notin {None, KeyOf[u]}

\* AdlsCommitContentionError, which is retried, never hides a conflict of
\* identities: the writers this upload lost to share its key.
ContentionAmongEquals ==
    \A u \in Uploads : pc[u] = "contention" => blob.key = KeyOf[u]

\* What is redelivered can heal: an outage, whatever it was wrapped in.  What is given
\* up for good met a defect or else finds the path owned: the owner's key is another,
\* or its commit discarded this upload's blocks.  So an outage alone never loses a file.
VerdictIsJustified ==
    \A u \in Uploads :
        /\ pc[u] = "failed" => met[u] = "outage"
        /\ pc[u] \in {"refused", "dropped"} /\ met[u] # "defect" =>
             met[u] = "nothing" /\ blob.key # None

\* The blob is never visible in part: it has every block of a whole file.
WholeFileVisible ==
    blob.key # None =>
        /\ \E u \in Uploads : KeyOf[u] = blob.key /\ LenOf[u] = blob.len
        /\ \A i \in 1 .. blob.len : blob.blocks[i] # None

\* Every upload ends, however the others behave.
EveryUploadEnds == \A u \in Uploads : <>(pc[u] \in Ended)

\* _block_id's claim: one block id per index is enough, so what an upload commits
\* is what it streamed.
CommitStoresOwnBlocks ==
    [][\A u \in Uploads :
         pc[u] # "done" /\ pc'[u] = "done" =>
             \A i \in 1 .. LenOf[u] : blob'.blocks[i] = u]_vars
-----------------------------------------------------------------------------
(* The promise: a register of the path's owner and each upload's outcome. *)
Outcome(l) == CASE l \in Working -> "pending"
                [] l = "done" -> "stored"
                [] l = "refused" -> "refused"
                [] OTHER -> "gaveUp"

Promise == INSTANCE UploadSpec WITH
               owner <- blob.key,
               outcome <- [u \in Uploads |-> Outcome(pc[u])]

ImplementsPromise == Promise!Spec
=============================================================================
