------------------------------ MODULE Worker ------------------------------
(***************************************************************************)
(* historical_worker, one invocation at a time on each host instance.      *)
(* Each call that others can see the effect of is a step of its own:       *)
(* between two of them other instances, the dispatcher, the bucket's       *)
(* owner, the calendar and the broker's lock timer may act.                *)
(*                                                                         *)
(*   resolve -> procV -> procB -> fetch -> stage -> commit -> meta -> emit *)
(*           -> doneV -> doneB -> exit -> ack -> idle                      *)
(*                                                                         *)
(* An exception anywhere in that try region goes through failV, failB and  *)
(* dead, then to ack (deterministic) or nack (transient).                  *)
(***************************************************************************)
EXTENDS FileTracking, WorkQueue, Bronze, Environment

VARIABLES
    pc,         \* where each instance's invocation stands
    job,        \* its locals
    events,     \* CloudEvents on the dataset-available queue
    dead        \* messages with an entry on the application's dead-letter queue

workerVars == <<pc, job>>
outVars    == <<events, dead>>

\* What one exception may interrupt.  A failure of the step after a call also
\* stands for that call taking effect and its answer being lost.
TryRegion == {"resolve", "procV", "procB", "fetch", "stage", "commit",
              "meta", "emit", "doneV", "doneB", "exit"}
PCs == TryRegion \cup {"idle", "failV", "failB", "dead", "ack", "nack"}

Failures == {"transient", "permanent"}      \* what _is_transient tells apart

Job == [msg     : 0 .. MaxMsgs,
        key     : Keys \cup {None},
        version : 0 .. MaxVersion,
        day     : 0 .. MaxDay,
        rev     : 0 .. MaxRev,
        exc     : Failures \cup {"none"}]

NoJob == [msg |-> 0, key |-> None, version |-> 0, day |-> 0, rev |-> 0, exc |-> "none"]

\* A dataset-available envelope; its id is a function of key and version alone,
\* rev is data.file_hash, msg the message whose correlation_id it carries.
Event == [key : Keys, version : Versions, day : Days, rev : Revs, msg : MsgIds]

WorkerTypeOK ==
    /\ pc \in [Workers -> PCs]
    /\ job \in [Workers -> Job]
    /\ events \subseteq Event
    /\ dead \subseteq MsgIds

WorkerInit ==
    /\ pc = [w \in Workers |-> "idle"]
    /\ job = [w \in Workers |-> NoJob]
    /\ events = {}
    /\ dead = {}

Goto(w, l) == pc' = [pc EXCEPT ![w] = l]

\* Step of w from one await to the next that leaves its locals alone.
Step(w, from, to) ==
    /\ pc[w] = from
    /\ Goto(w, to)
    /\ UNCHANGED job

\* An exception reaches the outer except: mark_failed only if a version is known.
Raise(w, kind) ==
    /\ job' = [job EXCEPT ![w].exc = kind]
    /\ Goto(w, IF job[w].version # 0 THEN "failV" ELSE "dead")

Finish(w) ==
    /\ Goto(w, "idle")
    /\ job' = [job EXCEPT ![w] = NoJob]
    /\ UNCHANGED <<trackVars, bronzeVars, outVars>>

BlobPath(w) == PathOf(job[w].key, job[w].day, job[w].version)

EventOf(w) == [key |-> job[w].key, version |-> job[w].version, day |-> job[w].day,
               rev |-> job[w].rev, msg |-> job[w].msg]
---------------------------------------------------------------------------
Receive(w, m) ==
    /\ pc[w] = "idle"
    /\ ReceiveMessage(w, m)
    /\ job' = [job EXCEPT ![w] = [NoJob EXCEPT !.msg = m, !.key = msgs[m].body]]
    /\ Goto(w, "resolve")
    /\ UNCHANGED <<trackVars, bronzeVars, envVars, outVars>>

\* Config, get_body or create_logger failed: nothing to dead-letter with.
ReceiveFails(w) ==
    /\ Step(w, "resolve", "nack")
    /\ Fault
    /\ UNCHANGED <<trackVars, msgs, bronzeVars, outVars>>

\* Unparsable body or invalid work item: dead-lettered, never retried.
RejectBody(w) ==
    /\ pc[w] = "resolve" /\ job[w].key = None
    /\ job' = [job EXCEPT ![w].exc = "permanent"]
    /\ Goto(w, "dead")
    /\ UNCHANGED <<trackVars, msgs, bronzeVars, envVars, outVars>>

\* Slip: while an earlier attempt's version is in processing, the message goes
\* back to the queue without counting a delivery.
ResolveVersionDeferring(w) ==
    /\ pc[w] = "resolve" /\ job[w].key # None
    /\ \/ /\ \E v \in Versions : ver[job[w].key][v].status = "processing"
          /\ Holds(w, job[w].msg)
          /\ msgs' = [msgs EXCEPT ![job[w].msg].status = "ready",
                                  ![job[w].msg].owner = None,
                                  ![job[w].msg].count = @ - 1]
          /\ Finish(w)
       \/ /\ \A v \in Versions : ver[job[w].key][v].status # "processing"
          /\ \E v \in Versions :
              /\ IsNextVersion(job[w].key, v)
              /\ job' = [job EXCEPT ![w].version = v, ![w].day = day]
          /\ Goto(w, "procV")
          /\ UNCHANGED <<trackVars, msgs, bronzeVars, outVars>>
    /\ UNCHANGED envVars

\* get_versions, then today's paths.
ResolveVersion(w) ==
    /\ pc[w] = "resolve" /\ job[w].key # None
    /\ \E v \in Versions :
        /\ IsNextVersion(job[w].key, v)
        /\ job' = [job EXCEPT ![w].version = v, ![w].day = day]
    /\ Goto(w, "procV")
    /\ UNCHANGED <<trackVars, msgs, bronzeVars, envVars, outVars>>

\* mark_processing.
MarkVersionProcessing(w) ==
    /\ Step(w, "procV", "procB")
    /\ SetVersionStatus(job[w].key, job[w].version, "processing")
    /\ UNCHANGED <<msgs, bronzeVars, envVars, outVars>>

MarkBaseProcessing(w) ==
    /\ Step(w, "procB", "fetch")
    /\ SetBaseStatus(job[w].key, "processing")
    /\ UNCHANGED <<msgs, bronzeVars, envVars, outVars>>

\* stream_upload: S3 answers with the object as it is now, then the pre-check.
OpenSource(w) ==
    /\ pc[w] = "fetch"
    /\ MayHold(BlobPath(w), job[w].key)
    /\ job' = [job EXCEPT ![w].rev = src[job[w].key]]
    /\ Goto(w, "stage")
    /\ UNCHANGED <<trackVars, msgs, bronzeVars, envVars, outVars>>

\* AdlsBlobIdentityMismatchError, from the pre-check or from the commit.
RefuseUpload(w) ==
    /\ pc[w] \in {"fetch", "commit"}
    /\ ~ MayHold(BlobPath(w), job[w].key)
    /\ Raise(w, "permanent")
    /\ UNCHANGED <<trackVars, msgs, bronzeVars, envVars, outVars>>

\* Slip: hashes one download and uploads another.
StageSecondDownload(w) ==
    /\ Step(w, "stage", "commit")
    /\ StageBlock(BlobPath(w), [key |-> job[w].key, rev |-> src[job[w].key]])
    /\ UNCHANGED <<trackVars, msgs, envVars, outVars>>

StageFile(w) ==
    /\ Step(w, "stage", "commit")
    /\ StageBlock(BlobPath(w), [key |-> job[w].key, rev |-> job[w].rev])
    /\ UNCHANGED <<trackVars, msgs, envVars, outVars>>

CommitFile(w) ==
    /\ Step(w, "commit", "meta")
    /\ MayHold(BlobPath(w), job[w].key)
    /\ CommitBlob(BlobPath(w), job[w].key)
    /\ UNCHANGED <<trackVars, msgs, envVars, outVars>>

\* Slip: the sidecar's path takes the date anew.
WriteMetadataToday(w) ==
    /\ Step(w, "meta", "emit")
    /\ WriteSidecar(MetaPathOf(job[w].key, day), job[w].key, job[w].version, job[w].rev)
    /\ UNCHANGED <<trackVars, msgs, envVars, outVars>>

\* Slip: records the version as completed before its event is emitted.
WriteMetadataAndRegister(w) ==
    /\ Step(w, "meta", "emit")
    /\ WriteSidecar(MetaPathOf(job[w].key, job[w].day),
                    job[w].key, job[w].version, job[w].rev)
    /\ CompleteVersion(job[w].key, job[w].version, job[w].rev, job[w].day)
    /\ UNCHANGED <<msgs, envVars, outVars>>

WriteMetadata(w) ==
    /\ Step(w, "meta", "emit")
    /\ WriteSidecar(MetaPathOf(job[w].key, job[w].day),
                    job[w].key, job[w].version, job[w].rev)
    /\ UNCHANGED <<trackVars, msgs, envVars, outVars>>

EmitEvent(w) ==
    /\ Step(w, "emit", "doneV")
    /\ events' = events \cup {EventOf(w)}
    /\ UNCHANGED <<trackVars, msgs, bronzeVars, envVars, dead>>

\* mark_completed comes last.
MarkVersionCompleted(w) ==
    /\ Step(w, "doneV", "doneB")
    /\ CompleteVersion(job[w].key, job[w].version, job[w].rev, job[w].day)
    /\ UNCHANGED <<msgs, bronzeVars, envVars, outVars>>

\* Slip: refreshes LastModified from the bucket when it completes.
MarkBaseCompletedFresh(w) ==
    /\ Step(w, "doneB", "exit")
    /\ base' = [base EXCEPT ![job[w].key] = [status |-> "completed", lm |-> src[job[w].key]]]
    /\ UNCHANGED <<ver, msgs, bronzeVars, envVars, outVars>>

MarkBaseCompleted(w) ==
    /\ Step(w, "doneB", "exit")
    /\ SetBaseStatus(job[w].key, "completed")
    /\ UNCHANGED <<msgs, bronzeVars, envVars, outVars>>

\* The stores and the emitter close; the try region ends here.
CloseStores(w) ==
    /\ Step(w, "exit", "ack")
    /\ UNCHANGED <<trackVars, msgs, bronzeVars, envVars, outVars>>
---------------------------------------------------------------------------
Fail(w, kind) ==
    /\ pc[w] \in TryRegion /\ job[w].key # None
    /\ Fault
    /\ Raise(w, kind)
    /\ UNCHANGED <<trackVars, msgs, bronzeVars, outVars>>

\* mark_failed, through a store of its own.
MarkVersionFailed(w) ==
    /\ Step(w, "failV", "failB")
    /\ SetVersionStatus(job[w].key, job[w].version, "failed")
    /\ UNCHANGED <<msgs, bronzeVars, envVars, outVars>>

MarkBaseFailed(w) ==
    /\ Step(w, "failB", "dead")
    /\ SetBaseStatus(job[w].key, "failed")
    /\ UNCHANGED <<msgs, bronzeVars, envVars, outVars>>

\* An exception of mark_failed itself is logged and swallowed.
MarkFailedLost(w) ==
    /\ pc[w] \in {"failV", "failB"}
    /\ Fault
    /\ Goto(w, "dead")
    /\ UNCHANGED <<job, trackVars, msgs, bronzeVars, outVars>>

\* _dead_letter, then raise for the transient and return for the rest.
DeadLetter(w) ==
    /\ pc[w] = "dead"
    /\ dead' = dead \cup {job[w].msg}
    /\ Goto(w, IF job[w].exc = "transient" THEN "nack" ELSE "ack")
    /\ UNCHANGED <<job, trackVars, msgs, bronzeVars, envVars, events>>

\* Slip: DeadLetterSendError is logged and swallowed.
DeadLetterFailsQuietly(w) ==
    /\ Step(w, "dead", "ack")
    /\ Fault
    /\ dead' \in {dead, dead \cup {job[w].msg}}
    /\ UNCHANGED <<trackVars, msgs, bronzeVars, events>>

\* DeadLetterSendError: always raised; the entry may have been sent all the same.
DeadLetterFails(w) ==
    /\ Step(w, "dead", "nack")
    /\ Fault
    /\ dead' \in {dead, dead \cup {job[w].msg}}
    /\ UNCHANGED <<trackVars, msgs, bronzeVars, events>>

Return(w) ==
    /\ pc[w] = "ack"
    /\ CompleteMessage(w, job[w].msg)
    /\ Finish(w)
    /\ UNCHANGED envVars

Escape(w) ==
    /\ pc[w] = "nack"
    /\ AbandonMessage(w, job[w].msg)
    /\ Finish(w)
    /\ UNCHANGED envVars

\* Host crash, recycling or functionTimeout: no except block runs.
Crash(w) ==
    /\ pc[w] # "idle"
    /\ Fault
    /\ OrphanMessage(w, job[w].msg)
    /\ Finish(w)
---------------------------------------------------------------------------
WorkerStep(w) ==
    \/ RejectBody(w) \/ ResolveVersion(w)
    \/ MarkVersionProcessing(w) \/ MarkBaseProcessing(w)
    \/ OpenSource(w) \/ RefuseUpload(w) \/ StageFile(w) \/ CommitFile(w)
    \/ WriteMetadata(w) \/ EmitEvent(w)
    \/ MarkVersionCompleted(w) \/ MarkBaseCompleted(w) \/ CloseStores(w)
    \/ MarkVersionFailed(w) \/ MarkBaseFailed(w) \/ DeadLetter(w)
    \/ Return(w) \/ Escape(w)

WorkerFault(w) ==
    \/ ReceiveFails(w)
    \/ \E kind \in Failures : Fail(w, kind)
    \/ MarkFailedLost(w)
    \/ DeadLetterFails(w)
    \/ Crash(w)
===========================================================================
