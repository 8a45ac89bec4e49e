-------------------------- MODULE IngestionProofs --------------------------
(***************************************************************************)
(* The pipeline's safety, for every number of files, workers, messages,    *)
(* deliveries, days and failures.                                          *)
(*                                                                         *)
(* The safety properties are about shared state, but what makes them hold  *)
(* is what an invocation knows at each step, so the inductive invariant    *)
(* has a part for each worker (WorkerInv).  A worker's part survives the   *)
(* steps of everybody else because shared state only grows in the way that *)
(* SharedGrows says: events and dead letters are never withdrawn, a path   *)
(* never changes its owner, an object never disappears from the bucket.    *)
(***************************************************************************)
EXTENDS Ingestion, TLAPS

Announced == {"doneV", "doneB", "exit"}
Stored    == {"meta", "emit"} \cup Announced
Fetched   == {"stage", "commit"} \cup Stored
Resolved  == {"procV", "procB", "fetch", "failV", "failB"} \cup Fetched

WorkerInv(w) ==
    /\ pc[w] # "idle" => job[w].msg \in MsgIds
    /\ job[w].key # None => src[job[w].key] # 0
    /\ pc[w] = "resolve" => job[w].version = 0
    /\ pc[w] \in Resolved =>
         /\ job[w].key \in Keys
         /\ job[w].version \in Versions
         /\ job[w].day \in Days
         /\ HasPredecessor(job[w].key, job[w].version)
    /\ pc[w] \in Fetched => job[w].rev \in Revs
    /\ pc[w] = "commit" => staged[BlobPath(w)] # NoBytes \/ csv[BlobPath(w)] # NoBlob
    /\ pc[w] \in Stored => csv[BlobPath(w)].key = job[w].key
    /\ pc[w] \in Announced => EventOf(w) \in events
    /\ pc[w] = "ack" => Recorded(job[w].msg)

\* Only objects that exist are listed and queued.
DispatcherInv ==
    /\ \A k \in toCheck \cup toQueue : src[k] # 0
    /\ current # None => src[current] # 0
    /\ dpc = "send" => current \in Keys

QueueInv ==
    \A m \in MsgIds :
        /\ msgs[m].body # None => src[msgs[m].body] # 0
        /\ msgs[m].status = "ready" => msgs[m].count < MaxDeliveries
        /\ msgs[m].status = "unsent" => msgs[m].count = 0

Safety ==
    /\ CompletedMeansPublished
    /\ EventPointsToOwnFile
    /\ SidecarDescribesOwnFile
    /\ PublishedVersionsContiguous
    /\ NoSilentDrop

IInv ==
    /\ TypeOK
    /\ \A w \in Workers : WorkerInv(w)
    /\ DispatcherInv
    /\ QueueInv
    /\ Safety

LEMMA InitIInv == Init => IInv
<1> SUFFICES ASSUME Init PROVE IInv
  OBVIOUS
<1> USE KeysAssumption, BoundsAssumption
<1>1. TypeOK
  <2>1. TrackingTypeOK
    BY DEF Init, TrackingInit, TrackingTypeOK, BaseEntity, VersionEntity, Statuses
  <2>2. QueueTypeOK
    BY DEF Init, QueueInit, QueueTypeOK, Unsent, Message, MsgStates
  <2>3. EnvTypeOK
    BY DEF Init, EnvInit, EnvTypeOK, Days
  <2>4. DispatcherTypeOK
    BY DEF Init, DispatcherInit, NothingListed, DispatcherTypeOK
  <2>5. BronzeTypeOK
    BY DEF Init, BronzeInit, BronzeTypeOK, Blob, Sidecar
  <2>6. WorkerTypeOK
    BY DEF Init, WorkerInit, WorkerTypeOK, PCs, Job, NoJob
  <2> QED BY <2>1, <2>2, <2>3, <2>4, <2>5, <2>6 DEF TypeOK
<1>2. \A w \in Workers : WorkerInv(w)
  BY DEF Init, WorkerInit, WorkerInv, NoJob, Resolved, Fetched, Stored, Announced
<1>3. DispatcherInv
  BY DEF Init, DispatcherInit, DispatcherInv
<1>4. QueueInv
  BY DEF Init, QueueInit, QueueInv, Unsent
<1>5. Safety
  BY DEF Init, TrackingInit, QueueInit, Unsent, BronzeInit, WorkerInit, Safety,
     CompletedMeansPublished, EventPointsToOwnFile, SidecarDescribesOwnFile,
     PublishedVersionsContiguous, NoSilentDrop
<1> QED BY <1>1, <1>2, <1>3, <1>4, <1>5 DEF IInv
---------------------------------------------------------------------------
\* What no step ever takes back.
SharedGrows ==
    /\ events \subseteq events'
    /\ dead \subseteq dead'
    /\ \A k \in Keys : src[k] # 0 => src'[k] # 0
    /\ \A p \in Paths : csv[p].key # None => csv'[p].key = csv[p].key
    /\ \A p \in Paths : csv[p] # NoBlob => csv'[p] # NoBlob
    /\ \A p \in Paths : staged[p] # NoBytes => staged'[p] # NoBytes \/ csv'[p] # NoBlob

LEMMA PathTyped ==
  ASSUME NEW k \in Keys, NEW d \in Days, NEW v \in Versions
  PROVE  PathOf(k, d, v) \in Paths
BY DEF PathOf, Paths, Datasets

\* A worker's part survives any step of the others.
LEMMA OthersKeep ==
  ASSUME IInv, SharedGrows, NEW w \in Workers, pc'[w] = pc[w], job'[w] = job[w]
  PROVE  WorkerInv(w)'
<1> DEFINE j == job[w]
<1>1. WorkerInv(w) /\ j \in Job /\ None \notin Keys
  BY KeysAssumption DEF IInv, TypeOK, WorkerTypeOK
<1>2. pc[w] \in Resolved => BlobPath(w) \in Paths
  BY <1>1, PathTyped DEF WorkerInv, BlobPath
<1>3. BlobPath(w)' = BlobPath(w) /\ EventOf(w)' = EventOf(w)
  BY DEF BlobPath, EventOf
<1>4. \A k, v : HasPredecessor(k, v) => HasPredecessor(k, v)'
  BY DEF HasPredecessor, SharedGrows
<1>5. \A m : Recorded(m) => Recorded(m)'
  BY DEF Recorded, SharedGrows
<1>6. j.key # None => src'[j.key] # 0
  BY <1>1 DEF WorkerInv, SharedGrows, Job
<1>7. pc[w] = "commit" => staged'[BlobPath(w)] # NoBytes \/ csv'[BlobPath(w)] # NoBlob
  BY <1>1, <1>2 DEF WorkerInv, SharedGrows, Resolved, Fetched
<1>8. pc[w] \in Stored => csv'[BlobPath(w)].key = j.key
  BY <1>1, <1>2 DEF WorkerInv, SharedGrows, Resolved, Fetched
<1>9. pc[w] \in Announced => EventOf(w) \in events'
  BY <1>1 DEF WorkerInv, SharedGrows
<1> QED BY <1>1, <1>3, <1>4, <1>5, <1>6, <1>7, <1>8, <1>9
        DEF WorkerInv, Resolved, Fetched, Stored

\* Nor do the dispatcher's and the queue's own parts depend on more than growth.
LEMMA DispatcherKeeps ==
  ASSUME IInv, SharedGrows, UNCHANGED dispatcherVars
  PROVE  DispatcherInv' /\ DispatcherTypeOK'
BY KeysAssumption
DEF IInv, TypeOK, DispatcherTypeOK, DispatcherInv, SharedGrows, dispatcherVars, listVars

LEMMA QueueKeeps ==
  ASSUME IInv, SharedGrows, UNCHANGED msgs
  PROVE  QueueInv' /\ QueueTypeOK'
BY DEF IInv, TypeOK, QueueTypeOK, Message, QueueInv, SharedGrows

\* Properties of what a step leaves alone.
LEMMA SafetyKeeps ==
  ASSUME Safety, UNCHANGED <<ver, msgs, csv, meta, outVars>>
  PROVE  Safety'
BY DEF Safety, CompletedMeansPublished, EventPointsToOwnFile, SidecarDescribesOwnFile,
   PublishedVersionsContiguous, HasPredecessor, NoSilentDrop, Recorded, outVars
---------------------------------------------------------------------------
\* What every queue operation keeps; only CompleteMessage makes a message done.
QueueKept ==
    /\ QueueTypeOK'
    /\ QueueInv'
    /\ \A m \in MsgIds : msgs'[m].status = "done" => msgs[m].status = "done"

LEMMA SendKeepsQueue ==
  ASSUME IInv, src' = src, NEW b \in Keys \cup {None}, b # None => src[b] # 0,
         SendMessage(b)
  PROVE  QueueKept
<1>1. PICK m \in FreeSlots :
        msgs' = [msgs EXCEPT ![m].body = b, ![m].status = "ready"]
  BY DEF SendMessage
<1>2. m \in MsgIds /\ msgs[m].count = 0
  BY <1>1 DEF FreeSlots, IInv, QueueInv
<1>3. QueueTypeOK'
  BY <1>1 DEF IInv, TypeOK, QueueTypeOK, Message, MsgStates
<1>4. \A n \in MsgIds :
        n # m => msgs'[n] = msgs[n]
  BY <1>1 DEF IInv, TypeOK, QueueTypeOK
<1>5. msgs'[m].body = b /\ msgs'[m].status = "ready" /\ msgs'[m].count = 0
  BY <1>1, <1>2 DEF IInv, TypeOK, QueueTypeOK, Message
<1> QED BY <1>3, <1>4, <1>5, BoundsAssumption DEF QueueKept, IInv, QueueInv

LEMMA ReceiveKeepsQueue ==
  ASSUME IInv, src' = src, NEW w \in Workers, NEW m \in MsgIds, ReceiveMessage(w, m)
  PROVE  QueueKept
BY BoundsAssumption
DEF ReceiveMessage, QueueKept, IInv, TypeOK, QueueTypeOK, QueueInv, Message, MsgStates

LEMMA GiveBackKeepsQueue ==
  ASSUME IInv, src' = src, NEW m \in MsgIds, GiveBack(m)
  PROVE  QueueKept
<1>1. QueueTypeOK'
  <2>1. PICK s \in {"ready", "expired"} :
          msgs' = [msgs EXCEPT ![m].status = s, ![m].owner = None]
    BY DEF GiveBack
  <2> QED BY <2>1 DEF IInv, TypeOK, QueueTypeOK, Message, MsgStates
<1>2. \A n \in MsgIds : n # m => msgs'[n] = msgs[n]
  BY DEF GiveBack, IInv, TypeOK, QueueTypeOK
<1>3. /\ msgs'[m].body = msgs[m].body
      /\ msgs'[m].status \in {"ready", "expired"}
      /\ msgs'[m].status = "ready" => msgs'[m].count < MaxDeliveries
  BY DEF GiveBack, IInv, TypeOK, QueueTypeOK, Message
<1> QED BY <1>1, <1>2, <1>3 DEF QueueKept, IInv, QueueInv

LEMMA OrphanKeepsQueue ==
  ASSUME IInv, src' = src, NEW w \in Workers, NEW m \in MsgIds, OrphanMessage(w, m)
  PROVE  QueueKept
BY BoundsAssumption
DEF OrphanMessage, QueueKept, IInv, TypeOK, QueueTypeOK, QueueInv, Message, MsgStates

LEMMA CompleteKeepsQueue ==
  ASSUME IInv, src' = src, NEW w \in Workers, NEW m \in MsgIds, CompleteMessage(w, m)
  PROVE  /\ QueueTypeOK'
         /\ QueueInv'
         /\ \A n \in MsgIds : msgs'[n].status = "done" => n = m \/ msgs[n].status = "done"
BY BoundsAssumption
DEF CompleteMessage, IInv, TypeOK, QueueTypeOK, QueueInv, Message, MsgStates

\* The safety properties after a step that changes nothing but the queue.
LEMMA QueueStepSafety ==
  ASSUME IInv, QueueKept, UNCHANGED <<ver, csv, meta, outVars>>
  PROVE  Safety'
BY DEF IInv, QueueKept, Safety, CompletedMeansPublished, EventPointsToOwnFile,
   SidecarDescribesOwnFile, PublishedVersionsContiguous, HasPredecessor, NoSilentDrop,
   Recorded, outVars
---------------------------------------------------------------------------
(* The steps of the world and of the dispatcher. *)

LEMMA WorldIInv == IInv /\ World => IInv'
<1> SUFFICES ASSUME IInv, World PROVE IInv'
  OBVIOUS
<1> USE KeysAssumption, BoundsAssumption
<1>1. EnvTypeOK' /\ \A k \in Keys : src[k] # 0 => src'[k] # 0
  BY DEF World, PutObject, NextDay, OrphanExpires, Fault, envVars, IInv, TypeOK,
     EnvTypeOK, Days
<1>2. SharedGrows
  BY <1>1 DEF SharedGrows, World, bronzeVars, outVars
<1>3. TrackingTypeOK' /\ BronzeTypeOK' /\ WorkerTypeOK'
  BY DEF World, IInv, TypeOK, trackVars, TrackingTypeOK, bronzeVars, BronzeTypeOK,
     workerVars, outVars, WorkerTypeOK
<1>4. \A w \in Workers : WorkerInv(w)'
  BY <1>2, OthersKeep DEF World, workerVars
<1>5. DispatcherInv' /\ DispatcherTypeOK'
  BY <1>2, DispatcherKeeps DEF World
<1>6. CASE UNCHANGED msgs
  <2>1. QueueInv' /\ QueueTypeOK'
    BY <1>2, <1>6, QueueKeeps
  <2>2. Safety'
    BY <1>6, SafetyKeeps DEF World, trackVars, bronzeVars, IInv
  <2> QED BY <1>1, <1>3, <1>4, <1>5, <2>1, <2>2 DEF IInv, TypeOK
<1>7. CASE src' = src /\ ((\E m \in MsgIds : GiveBack(m)) \/ SendMessage(None))
  <2>1. QueueKept
    BY <1>7, GiveBackKeepsQueue, SendKeepsQueue
  <2>2. Safety'
    BY <2>1, QueueStepSafety DEF World, trackVars, bronzeVars
  <2> QED BY <1>1, <1>3, <1>4, <1>5, <2>1, <2>2 DEF IInv, TypeOK, QueueKept
<1> QED BY <1>6, <1>7 DEF World, OrphanExpires, LockLost, Fault, envVars

\* Whatever a page covers, only objects that exist come to be looked up.
LEMMA PageKeepsDispatcher ==
  ASSUME IInv, src' = src, NEW ks \in SUBSET Pending, CoverKeys(ks),
         \/ unread' = Pending \ ks /\ dpc' = "page"
         \/ EndListing
  PROVE  DispatcherTypeOK' /\ DispatcherInv'
<1>1. Len(SiteIds) \in Nat
  BY SitesAssumption
<1>2. Pending \subseteq Keys
  BY DEF Pending, KeysAt, IInv, TypeOK, DispatcherTypeOK
<1>3. site' \in 0 .. Len(SiteIds)
  BY <1>1 DEF CoverKeys, Listing, IInv, TypeOK, DispatcherTypeOK
<1>4. listed' \in [Keys -> 0 .. MaxRev]
  <2>1. \A k \in Keys : src[k] \in 0 .. MaxRev /\ listed[k] \in 0 .. MaxRev /\ 0 \in 0 .. MaxRev
    BY BoundsAssumption DEF IInv, TypeOK, DispatcherTypeOK, EnvTypeOK
  <2> QED BY <2>1 DEF CoverKeys
<1>5. toCheck' \subseteq Keys /\ \A k \in toCheck' : src[k] # 0
  BY <1>2 DEF CoverKeys, IInv, TypeOK, DispatcherTypeOK, DispatcherInv
<1>6. dpc' \in {"list", "page", "filter"} /\ unread' \subseteq Keys
  BY <1>2 DEF EndListing
<1> QED BY <1>3, <1>4, <1>5, <1>6 DEF CoverKeys, IInv, TypeOK, DispatcherTypeOK, DispatcherInv

LEMMA DispatcherIInv == IInv /\ (Tick \/ Dispatch) => IInv'
<1> SUFFICES ASSUME IInv, Tick \/ Dispatch PROVE IInv'
  OBVIOUS
<1> USE KeysAssumption, BoundsAssumption
<1> USE DEF DispatcherStep, DispatcherFault
<1>1. /\ UNCHANGED <<bronzeVars, workerVars, outVars, ver, src, day>>
      /\ EnvTypeOK'
  BY DEF Tick, Dispatch, TimerTick, ReadPage, ReadLastPage, LoseToken, CoverKeys,
     ListFails, EndRun, FilterFile, QueueFile, SendWorkItem, SkipUndated, RejectWorkItem,
     AbortRun, MarkQueued, trackVars, envVars, Fault, IInv, TypeOK, EnvTypeOK
<1>2. SharedGrows
  BY <1>1 DEF SharedGrows, bronzeVars, outVars
<1>3. BronzeTypeOK' /\ WorkerTypeOK'
  BY <1>1 DEF IInv, TypeOK, bronzeVars, BronzeTypeOK, workerVars, outVars, WorkerTypeOK
<1>4. \A w \in Workers : WorkerInv(w)'
  BY <1>1, <1>2, OthersKeep DEF workerVars
<1>5. TrackingTypeOK'
  <2>1. CASE UNCHANGED trackVars
    BY <2>1 DEF IInv, TypeOK, TrackingTypeOK, trackVars
  <2>2. CASE \E k \in Keys : QueueFile(k)
    BY <2>2 DEF QueueFile, MarkQueued, IInv, TypeOK, TrackingTypeOK, DispatcherTypeOK,
       BaseEntity, Statuses
  <2> QED BY <2>1, <2>2 DEF Tick, Dispatch, TimerTick, ReadPage, ReadLastPage,
             LoseToken, CoverKeys, ListFails, EndRun, FilterFile, SendWorkItem, SkipUndated, RejectWorkItem, AbortRun
<1>6. DispatcherTypeOK' /\ DispatcherInv'
  <2> USE DEF listVars
  <2>0. Len(SiteIds) \in Nat
    BY SitesAssumption
  <2>1. CASE Tick
    BY <2>1, <1>1 DEF Tick, TimerTick, IInv, TypeOK, DispatcherTypeOK, DispatcherInv
  <2>2. CASE (\E ks \in SUBSET Pending : ReadPage(ks) \/ LoseToken(ks)) \/ ReadLastPage
    BY <2>0, <2>2, <1>1, PageKeepsDispatcher DEF ReadPage, ReadLastPage, LoseToken
  <2>6. CASE ListFails
    BY <2>0, <2>6, <1>1 DEF ListFails, Listing, NothingListed, IInv, TypeOK,
       DispatcherTypeOK, DispatcherInv
  <2>3. ASSUME NEW k \in Keys, FilterFile(k) \/ QueueFile(k) \/ SkipUndated(k)
        PROVE  DispatcherTypeOK' /\ DispatcherInv'
    BY <2>3, <1>1 DEF FilterFile, QueueFile, SkipUndated, AfterFilter, AfterQueue, IInv,
       TypeOK, DispatcherTypeOK, DispatcherInv
  <2>4. CASE SendWorkItem \/ RejectWorkItem
    BY <2>4, <1>1 DEF SendWorkItem, RejectWorkItem, AfterQueue, IInv, TypeOK,
       DispatcherTypeOK, DispatcherInv
  <2>5. CASE EndRun \/ AbortRun
    BY <2>0, <2>5, <1>1 DEF EndRun, AbortRun, EndOfRun, NothingListed, DispatcherTypeOK,
       DispatcherInv
  <2> QED BY <2>1, <2>2, <2>3, <2>4, <2>5, <2>6 DEF Dispatch
<1>7. CASE UNCHANGED msgs
  <2>1. QueueInv' /\ QueueTypeOK'
    BY <1>2, <1>7, QueueKeeps
  <2>2. Safety'
    BY <1>1, <1>7, SafetyKeeps DEF bronzeVars, IInv
  <2> QED BY <1>1, <1>3, <1>4, <1>5, <1>6, <2>1, <2>2 DEF IInv, TypeOK
<1>8. CASE SendWorkItem
  <2>1. QueueKept
    BY <1>1, <1>8, SendKeepsQueue DEF SendWorkItem, IInv, DispatcherInv
  <2>2. Safety'
    BY <1>1, <2>1, QueueStepSafety DEF bronzeVars
  <2> QED BY <1>1, <1>3, <1>4, <1>5, <1>6, <2>1, <2>2 DEF IInv, TypeOK, QueueKept
<1> QED BY <1>7, <1>8 DEF Tick, Dispatch, TimerTick, ReadPage, ReadLastPage, LoseToken,
           CoverKeys, ListFails, EndRun, FilterFile, QueueFile, SkipUndated, RejectWorkItem, AbortRun
---------------------------------------------------------------------------
(* The steps of a worker. *)

\* What is left to show of a step of w once the others are out of the way.
LEMMA WorkerFrame ==
  ASSUME IInv, NEW w \in Workers, SharedGrows, UNCHANGED dispatcherVars,
         \A v \in Workers : v # w => pc'[v] = pc[v] /\ job'[v] = job[v],
         TrackingTypeOK', QueueTypeOK', EnvTypeOK', BronzeTypeOK', WorkerTypeOK',
         WorkerInv(w)', QueueInv', Safety'
  PROVE  IInv'
<1>1. \A v \in Workers : WorkerInv(v)'
  BY OthersKeep
<1> QED BY <1>1, DispatcherKeeps DEF IInv, TypeOK

\* A path is never taken from the key that committed it.
LEMMA WorkerGrows ==
  ASSUME IInv, NEW w \in Workers, WorkerStep(w) \/ WorkerFault(w)
  PROVE  SharedGrows
<1> USE KeysAssumption
<1>1. src' = src
  BY DEF WorkerStep, WorkerFault, RejectBody, ResolveVersion, MarkVersionProcessing,
     MarkBaseProcessing, OpenSource, RefuseUpload, StageFile, CommitFile, WriteMetadata,
     EmitEvent, MarkVersionCompleted, MarkBaseCompleted, CloseStores, MarkVersionFailed,
     MarkBaseFailed, DeadLetter, Return, Escape, ReceiveFails, Fail, MarkFailedLost,
     DeadLetterFails, Crash, Fault, envVars
<1>2. events \subseteq events' /\ dead \subseteq dead'
  BY DEF WorkerStep, WorkerFault, RejectBody, ResolveVersion, MarkVersionProcessing,
     MarkBaseProcessing, OpenSource, RefuseUpload, StageFile, CommitFile, WriteMetadata,
     EmitEvent, MarkVersionCompleted, MarkBaseCompleted, CloseStores, MarkVersionFailed,
     MarkBaseFailed, DeadLetter, Return, Escape, ReceiveFails, Fail, MarkFailedLost,
     DeadLetterFails, Crash, Finish, outVars
<1>3. CASE StageFile(w)
  <2> DEFINE c == [key |-> job[w].key, rev |-> job[w].rev]
  <2>1. staged' = [staged EXCEPT ![BlobPath(w)] = c] /\ csv' = csv
    BY <1>3 DEF StageFile, StageBlock
  <2>2. c.key # None /\ NoBytes.key = None
    BY <1>3 DEF StageFile, Step, IInv, WorkerInv, Resolved, Fetched, NoBytes
  <2>3. c # NoBytes
    BY <2>2
  <2>4. \A p \in Paths : staged[p] # NoBytes => staged'[p] # NoBytes
    <3> HIDE DEF c
    <3> QED BY <2>1, <2>3 DEF IInv, TypeOK, BronzeTypeOK
  <2> QED BY <1>1, <1>2, <2>1, <2>4 DEF SharedGrows
<1>4. CASE CommitFile(w)
  <2>1. job[w].key \in Keys
    BY <1>4 DEF CommitFile, Step, IInv, WorkerInv, Resolved, Fetched
  <2>2. \A p \in Paths : \/ csv'[p] = csv[p] /\ staged'[p] = staged[p]
                         \/ /\ csv[p].key \in {None, job[w].key}
                            /\ csv'[p].key = job[w].key
    BY <1>4 DEF CommitFile, CommitBlob, MayHold, IInv, TypeOK, BronzeTypeOK
  <2> QED BY <1>1, <1>2, <2>1, <2>2 DEF SharedGrows, NoBlob
<1>5. CASE ~ StageFile(w) /\ ~ CommitFile(w)
  <2>1. UNCHANGED <<csv, staged>>
    BY <1>5
    DEF WorkerStep, WorkerFault, RejectBody, ResolveVersion, MarkVersionProcessing,
     MarkBaseProcessing, OpenSource, RefuseUpload, WriteMetadata, WriteSidecar,
     EmitEvent, MarkVersionCompleted, MarkBaseCompleted, CloseStores, MarkVersionFailed,
     MarkBaseFailed, DeadLetter, Return, Escape, ReceiveFails, Fail, MarkFailedLost,
     DeadLetterFails, Crash, Finish, bronzeVars
  <2> QED BY <1>1, <1>2, <2>1 DEF SharedGrows
<1> QED BY <1>3, <1>4, <1>5

LEMMA WorkerEnvTyped ==
  ASSUME IInv, NEW w \in Workers, WorkerStep(w) \/ WorkerFault(w)
  PROVE  EnvTypeOK'
BY BoundsAssumption
DEF IInv, TypeOK, EnvTypeOK, WorkerStep, WorkerFault, RejectBody, ResolveVersion,
    MarkVersionProcessing, MarkBaseProcessing, OpenSource, RefuseUpload, StageFile,
    CommitFile, WriteMetadata, EmitEvent, MarkVersionCompleted, MarkBaseCompleted,
    CloseStores, MarkVersionFailed, MarkBaseFailed, DeadLetter, Return, Escape,
    ReceiveFails, Fail, MarkFailedLost, DeadLetterFails, Crash, Fault, envVars

\* Steps that change nothing but the worker's own pc and locals.
LocalStep(w) ==
    \/ ReceiveFails(w) \/ RejectBody(w) \/ ResolveVersion(w) \/ OpenSource(w)
    \/ RefuseUpload(w) \/ CloseStores(w) \/ MarkFailedLost(w)
    \/ \E kind \in Failures : Fail(w, kind)

\* The next version has a predecessor because completed means published.
LEMMA NextVersionHasPredecessor ==
  ASSUME CompletedMeansPublished, NEW k \in Keys, NEW v \in Versions, IsNextVersion(k, v)
  PROVE  HasPredecessor(k, v)
<1>1. v = 1 \/ (v - 1 \in Versions /\ ver[k][v - 1].status = "completed")
  BY DEF IsNextVersion, CompletedVersions
<1> QED BY <1>1 DEF HasPredecessor, CompletedMeansPublished

LEMMA LocalIInv ==
  ASSUME IInv, NEW w \in Workers, LocalStep(w), UNCHANGED dispatcherVars
  PROVE  IInv'
<1> USE KeysAssumption, BoundsAssumption
<1>0. WorkerInv(w) /\ WorkerTypeOK /\ EnvTypeOK
  BY DEF IInv, TypeOK
<1>1. SharedGrows /\ EnvTypeOK'
  BY WorkerGrows, WorkerEnvTyped DEF LocalStep, WorkerStep, WorkerFault
<1>2. UNCHANGED <<trackVars, msgs, bronzeVars, outVars, src>>
  BY DEF LocalStep, ReceiveFails, RejectBody, ResolveVersion, OpenSource, RefuseUpload,
     CloseStores, MarkFailedLost, Fail, Fault, envVars
<1>3. TrackingTypeOK' /\ BronzeTypeOK' /\ Safety'
  BY <1>2, SafetyKeeps DEF IInv, TypeOK, trackVars, TrackingTypeOK, bronzeVars,
     BronzeTypeOK
<1>4. QueueTypeOK' /\ QueueInv'
  BY <1>1, <1>2, QueueKeeps
<1>5. \A v \in Workers : v # w => pc'[v] = pc[v] /\ job'[v] = job[v]
  BY <1>0 DEF LocalStep, ReceiveFails, RejectBody, ResolveVersion, OpenSource,
     RefuseUpload, CloseStores, MarkFailedLost, Fail, Step, Goto, Raise, WorkerTypeOK
<1>6. WorkerTypeOK' /\ WorkerInv(w)'
  <2>1. CASE ReceiveFails(w) \/ MarkFailedLost(w)
    BY <1>0, <1>2, <2>1
    DEF ReceiveFails, MarkFailedLost, Step, Goto, WorkerTypeOK, PCs, TryRegion, WorkerInv,
        Resolved, Fetched, Stored, Announced, outVars
  <2>2. CASE RejectBody(w)
    BY <1>0, <1>2, <2>2
    DEF RejectBody, Goto, WorkerTypeOK, PCs, TryRegion, Job, Failures, WorkerInv,
        Resolved, Fetched, Stored, Announced, outVars
  <2>3. CASE ResolveVersion(w)
    <3>1. PICK v \in Versions :
            /\ IsNextVersion(job[w].key, v)
            /\ job' = [job EXCEPT ![w].version = v, ![w].day = day]
      BY <2>3 DEF ResolveVersion
    <3>2. HasPredecessor(job[w].key, v)'
      BY <1>0, <1>2, <2>3, <3>1, NextVersionHasPredecessor
      DEF ResolveVersion, IInv, Safety, HasPredecessor, WorkerTypeOK, Job, outVars
    <3>3. /\ job'[w].msg = job[w].msg /\ job'[w].key = job[w].key
          /\ job'[w].version = v /\ job'[w].day = day
      BY <1>0, <3>1 DEF WorkerTypeOK, Job
    <3>4. job' \in [Workers -> Job]
      <4>1. v \in 0 .. MaxVersion /\ day \in 0 .. MaxDay
        BY <1>0 DEF EnvTypeOK, Days, Versions
      <4>2. [job[w] EXCEPT !.version = v, !.day = day] \in Job
        <5>1. \A i \in Job, n \in 0 .. MaxVersion, d \in 0 .. MaxDay :
                [i EXCEPT !.version = n, !.day = d] \in Job
          BY DEF Job
        <5> QED BY <1>0, <4>1, <5>1 DEF WorkerTypeOK
      <4>3. job' = [job EXCEPT ![w] = [job[w] EXCEPT !.version = v, !.day = day]]
        BY <1>0, <3>1 DEF WorkerTypeOK
      <4> QED BY <1>0, <4>2, <4>3 DEF WorkerTypeOK
    <3>5. pc' = [pc EXCEPT ![w] = "procV"] /\ pc[w] = "resolve" /\ job[w].key \in Keys
      BY <1>0, <2>3 DEF ResolveVersion, Goto, WorkerTypeOK, Job
    <3>6. WorkerTypeOK'
      BY <1>0, <1>2, <3>4, <3>5 DEF WorkerTypeOK, PCs, TryRegion, outVars
    <3>7. pc'[w] = "procV" /\ day \in Days
      BY <1>0, <3>5 DEF WorkerTypeOK, EnvTypeOK
    <3>8. job[w].msg \in MsgIds /\ src'[job[w].key] # 0
      BY <1>0, <1>2, <3>5 DEF WorkerInv
    <3> QED BY <3>2, <3>3, <3>5, <3>6, <3>7, <3>8
            DEF WorkerInv, HasPredecessor, Resolved, Fetched, Stored, Announced
  <2>4. CASE OpenSource(w)
    BY <1>0, <1>2, <2>4
    DEF OpenSource, Goto, WorkerTypeOK, PCs, TryRegion, Job, EnvTypeOK, Revs, WorkerInv,
        HasPredecessor, Resolved, Fetched, Stored, Announced, outVars
  <2>5. ASSUME NEW kind \in Failures, Raise(w, kind), job[w].key \in Keys,
               pc[w] \in TryRegion
        PROVE  WorkerTypeOK' /\ WorkerInv(w)'
    BY <1>0, <1>2, <2>5
    DEF Raise, Goto, WorkerTypeOK, PCs, TryRegion, Job, WorkerInv,
        HasPredecessor, Resolved, Fetched, Stored, Announced, outVars
  <2>6. CASE CloseStores(w)
    BY <1>0, <1>2, <2>6
    DEF CloseStores, Step, Goto, WorkerTypeOK, PCs, TryRegion, WorkerInv, EventOf, Recorded,
        Resolved, Fetched, Stored, Announced, outVars
  <2>7. CASE RefuseUpload(w)
    BY <1>0, <2>5, <2>7 DEF RefuseUpload, WorkerInv, Resolved, Fetched, Failures, TryRegion
  <2>8. ASSUME NEW kind \in Failures, Fail(w, kind)
        PROVE  WorkerTypeOK' /\ WorkerInv(w)'
    BY <1>0, <2>5, <2>8 DEF Fail, WorkerTypeOK, Job
  <2> QED BY <2>1, <2>2, <2>3, <2>4, <2>6, <2>7, <2>8 DEF LocalStep
<1> QED BY <1>1, <1>3, <1>4, <1>5, <1>6, WorkerFrame

\* A step of w between two awaits that leaves its locals alone.
LEMMA StepTyped ==
  ASSUME IInv, NEW w \in Workers, NEW from, NEW to \in PCs, Step(w, from, to),
         events' \subseteq Event, dead' \subseteq MsgIds
  PROVE  /\ WorkerTypeOK'
         /\ pc[w] = from /\ pc'[w] = to /\ job' = job
         /\ \A v \in Workers : v # w => pc'[v] = pc[v]
BY DEF Step, Goto, IInv, TypeOK, WorkerTypeOK

\* The calls on the tracking table.
TrackStep(w) ==
    \/ MarkVersionProcessing(w) \/ MarkBaseProcessing(w) \/ MarkVersionCompleted(w)
    \/ MarkBaseCompleted(w) \/ MarkVersionFailed(w) \/ MarkBaseFailed(w)

LEMMA TrackIInv ==
  ASSUME IInv, NEW w \in Workers, TrackStep(w), UNCHANGED dispatcherVars
  PROVE  IInv'
<1> USE KeysAssumption, BoundsAssumption
<1>0. WorkerInv(w) /\ WorkerTypeOK /\ TrackingTypeOK
  BY DEF IInv, TypeOK
<1>1. SharedGrows /\ EnvTypeOK'
  BY WorkerGrows, WorkerEnvTyped DEF TrackStep, WorkerStep
<1>2. UNCHANGED <<msgs, bronzeVars, outVars, src>>
  BY DEF TrackStep, MarkVersionProcessing, MarkBaseProcessing, MarkVersionCompleted,
     MarkBaseCompleted, MarkVersionFailed, MarkBaseFailed, envVars
<1>3. BronzeTypeOK' /\ QueueTypeOK' /\ QueueInv'
  BY <1>1, <1>2, QueueKeeps DEF IInv, TypeOK, bronzeVars, BronzeTypeOK
<1>4. PICK from \in PCs, to \in PCs :
        /\ Step(w, from, to)
        /\ <<from, to>> \in {<<"procV", "procB">>, <<"procB", "fetch">>,
                             <<"doneV", "doneB">>, <<"doneB", "exit">>,
                             <<"failV", "failB">>, <<"failB", "dead">>}
  BY DEF TrackStep, MarkVersionProcessing, MarkBaseProcessing, MarkVersionCompleted,
     MarkBaseCompleted, MarkVersionFailed, MarkBaseFailed, PCs, TryRegion
<1>5. /\ WorkerTypeOK'
      /\ pc[w] = from /\ pc'[w] = to /\ job' = job
      /\ \A v \in Workers : v # w => pc'[v] = pc[v]
  BY <1>0, <1>2, <1>4, StepTyped DEF WorkerTypeOK, outVars
<1>6. WorkerInv(w)'
  BY <1>0, <1>2, <1>4, <1>5
  DEF WorkerInv, HasPredecessor, EventOf, BlobPath, Recorded, Resolved, Fetched, Stored,
      Announced, bronzeVars, outVars
<1>7. job[w].key \in Keys /\ job[w].version \in Versions /\ job[w].day \in Days
  BY <1>0, <1>4, <1>5 DEF WorkerInv, Resolved, Fetched, Stored, Announced
<1>8. TrackingTypeOK' /\ CompletedMeansPublished'
  <2>1. ASSUME NEW s \in {"processing", "failed"},
               SetVersionStatus(job[w].key, job[w].version, s)
        PROVE  TrackingTypeOK' /\ CompletedMeansPublished'
    <3>1. TrackingTypeOK'
      <4> DEFINE old == ver[job[w].key]
                 new == [old EXCEPT ![job[w].version] = [@ EXCEPT !.status = s]]
      <4>1. \A e \in VersionEntity : [e EXCEPT !.status = s] \in VersionEntity
        BY DEF VersionEntity, Statuses
      <4>2. old \in [Versions -> VersionEntity]
        BY <1>0, <1>7 DEF TrackingTypeOK
      <4>3. new \in [Versions -> VersionEntity]
        <5> HIDE DEF old
        <5> QED BY <1>7, <4>1, <4>2
      <4>4. ver' = [ver EXCEPT ![job[w].key] = new] /\ base' = base
        BY <1>0, <1>7, <2>1, <4>2 DEF SetVersionStatus, TrackingTypeOK
      <4> HIDE DEF old, new
      <4> QED BY <1>0, <4>3, <4>4 DEF TrackingTypeOK
    <3>2. \A k \in Keys, v \in Versions :
            ver'[k][v].status = "completed" => ver'[k][v] = ver[k][v]
      BY <1>0, <1>7, <2>1 DEF SetVersionStatus, TrackingTypeOK, VersionEntity
    <3> QED BY <1>2, <3>1, <3>2 DEF IInv, Safety, CompletedMeansPublished, outVars
  <2>2. ASSUME NEW s \in {"processing", "completed", "failed"},
               SetBaseStatus(job[w].key, s)
        PROVE  TrackingTypeOK' /\ CompletedMeansPublished'
    <3>1. TrackingTypeOK'
      BY <1>0, <1>7, <2>2 DEF SetBaseStatus, TrackingTypeOK, BaseEntity, Statuses
    <3> QED BY <1>2, <2>2, <3>1
            DEF SetBaseStatus, IInv, Safety, CompletedMeansPublished, outVars
  <2>3. CASE MarkVersionCompleted(w)
    <3> DEFINE k == job[w].key
               v == job[w].version
               done == [status |-> "completed", rev |-> job[w].rev, day |-> job[w].day]
    <3>1. EventOf(w) \in events /\ job[w].rev \in Revs
      BY <1>0, <2>3 DEF MarkVersionCompleted, Step, WorkerInv, Announced, Fetched, Stored
    <3>2. ver' = [ver EXCEPT ![k][v] = done] /\ base' = base
      BY <2>3 DEF MarkVersionCompleted, CompleteVersion
    <3>3. done \in VersionEntity
      BY <1>7, <3>1 DEF VersionEntity, Statuses, Days, Revs
    <3>4. TrackingTypeOK'
      <4> HIDE DEF done
      <4> QED BY <1>0, <1>7, <3>2, <3>3 DEF TrackingTypeOK
    <3>5. ver'[k][v] = done
          /\ \A l \in Keys, u \in Versions : l # k \/ u # v => ver'[l][u] = ver[l][u]
      <4> HIDE DEF done
      <4> QED BY <1>0, <1>7, <3>2 DEF TrackingTypeOK
    <3>6. \E e \in events : /\ e.key = k /\ e.version = v
                            /\ e.rev = done.rev /\ e.day = done.day
      BY <3>1 DEF EventOf
    <3> QED BY <1>2, <3>4, <3>5, <3>6
            DEF IInv, Safety, CompletedMeansPublished, outVars
  <2> QED BY <2>1, <2>2, <2>3
          DEF TrackStep, MarkVersionProcessing, MarkBaseProcessing, MarkBaseCompleted,
              MarkVersionFailed, MarkBaseFailed
<1>9. Safety'
  BY <1>2, <1>8 DEF IInv, Safety, EventPointsToOwnFile, SidecarDescribesOwnFile,
     PublishedVersionsContiguous, HasPredecessor, NoSilentDrop, Recorded, bronzeVars,
     outVars
<1> QED BY <1>1, <1>3, <1>5, <1>6, <1>8, <1>9, WorkerFrame

\* The calls on the bronze container.
BronzeStep(w) == StageFile(w) \/ CommitFile(w) \/ WriteMetadata(w)

LEMMA BronzeIInv ==
  ASSUME IInv, NEW w \in Workers, BronzeStep(w), UNCHANGED dispatcherVars
  PROVE  IInv'
<1> USE KeysAssumption, BoundsAssumption
<1> DEFINE j == job[w]
           p == BlobPath(w)
<1>0. WorkerInv(w) /\ WorkerTypeOK /\ BronzeTypeOK
  BY DEF IInv, TypeOK
<1>1. SharedGrows /\ EnvTypeOK'
  BY WorkerGrows, WorkerEnvTyped DEF BronzeStep, WorkerStep
<1>2. UNCHANGED <<trackVars, msgs, outVars, src>>
  BY DEF BronzeStep, StageFile, CommitFile, WriteMetadata, envVars
<1>3. TrackingTypeOK' /\ QueueTypeOK' /\ QueueInv'
  BY <1>1, <1>2, QueueKeeps DEF IInv, TypeOK, trackVars, TrackingTypeOK
<1>4. PICK from \in PCs, to \in PCs :
        /\ Step(w, from, to)
        /\ <<from, to>> \in {<<"stage", "commit">>, <<"commit", "meta">>, <<"meta", "emit">>}
  BY DEF BronzeStep, StageFile, CommitFile, WriteMetadata, PCs, TryRegion
<1>5. /\ WorkerTypeOK'
      /\ pc[w] = from /\ pc'[w] = to /\ job' = job
      /\ \A v \in Workers : v # w => pc'[v] = pc[v]
  BY <1>0, <1>2, <1>4, StepTyped DEF WorkerTypeOK, outVars
<1>6. /\ j.key \in Keys /\ j.version \in Versions /\ j.day \in Days /\ j.rev \in Revs
      /\ p \in Paths /\ p' = p
  BY <1>0, <1>4, <1>5, PathTyped DEF WorkerInv, Resolved, Fetched, Stored, BlobPath
<1>7. CASE StageFile(w)
  <2> DEFINE c == [key |-> j.key, rev |-> j.rev]
  <2>1. staged' = [staged EXCEPT ![p] = c] /\ csv' = csv /\ meta' = meta
    BY <1>7 DEF StageFile, StageBlock
  <2>2. c \in Content /\ c # NoBytes
    BY <1>6 DEF Content, NoBytes
  <2> HIDE DEF c
  <2>3. BronzeTypeOK' /\ staged'[p] # NoBytes
    BY <1>0, <1>6, <2>1, <2>2 DEF BronzeTypeOK
  <2>4. pc'[w] = "commit"
    BY <1>7, <1>5 DEF StageFile, Step, Goto, PCs, TryRegion, WorkerTypeOK
  <2>5. WorkerInv(w)'
    BY <1>0, <1>2, <1>4, <1>5, <1>6, <2>3, <2>4
    DEF WorkerInv, HasPredecessor, Resolved, Fetched, Stored, Announced, outVars
  <2>6. Safety'
    BY <1>2, <2>1, SafetyKeeps DEF IInv, trackVars
  <2> QED BY <1>1, <1>3, <1>5, <2>3, <2>5, <2>6, WorkerFrame
<1>8. CASE CommitFile(w)
  <2> DEFINE bytes == IF staged[p] = NoBytes THEN csv[p].bytes ELSE staged[p]
             b == [key |-> j.key, bytes |-> bytes]
  <2>1. /\ csv' = [csv EXCEPT ![p] = b] /\ meta' = meta
        /\ staged' = [staged EXCEPT ![p] = NoBytes]
    BY <1>8, <1>0, <1>6 DEF CommitFile, CommitBlob, BronzeTypeOK
  <2>2. staged[p] # NoBytes \/ csv[p] # NoBlob
    BY <1>8, <1>0 DEF CommitFile, Step, WorkerInv
  <2>3. bytes \in Content
    BY <1>0, <1>6, <2>2 DEF BronzeTypeOK, Blob
  <2>4. b \in Blob /\ b.key = j.key
    <3> HIDE DEF bytes
    <3> QED BY <1>6, <2>3 DEF Blob
  <2> HIDE DEF b
  <2>5. BronzeTypeOK' /\ csv'[p].key = j.key
    BY <1>0, <1>6, <2>1, <2>4 DEF BronzeTypeOK
  <2>6. pc'[w] = "meta"
    BY <1>8, <1>5 DEF CommitFile, Step, Goto, PCs, TryRegion, WorkerTypeOK
  <2>7. WorkerInv(w)'
    BY <1>0, <1>2, <1>4, <1>5, <1>6, <2>5, <2>6
    DEF WorkerInv, HasPredecessor, Resolved, Fetched, Stored, Announced, outVars
  <2>8. \A q \in Paths : csv[q].key # None => csv'[q].key = csv[q].key
    BY <1>1 DEF SharedGrows
  <2>9. EventPointsToOwnFile'
    <3> SUFFICES ASSUME NEW e \in events
                 PROVE  csv'[PathOf(e.key, e.day, e.version)].key = e.key
      BY <1>2 DEF EventPointsToOwnFile, outVars
    <3>1. e \in Event
      BY <1>0 DEF WorkerTypeOK
    <3>2. PathOf(e.key, e.day, e.version) \in Paths /\ e.key # None
      BY <3>1, PathTyped DEF Event
    <3> QED BY <2>8, <3>2 DEF IInv, Safety, EventPointsToOwnFile
  <2>10. SidecarDescribesOwnFile'
    <3> SUFFICES ASSUME NEW q \in MetaPaths, meta[q] # NoMeta
                 PROVE  csv'[[dataset |-> q.dataset, day |-> q.day,
                              version |-> meta[q].version]].key = meta[q].key
      BY <2>1 DEF SidecarDescribesOwnFile
    <3>1. meta[q] \in [key : Keys, version : Versions, rev : Revs]
      BY <1>0 DEF BronzeTypeOK, Sidecar
    <3>2. [dataset |-> q.dataset, day |-> q.day, version |-> meta[q].version] \in Paths
      BY <3>1 DEF MetaPaths, Paths
    <3> QED BY <2>8, <3>1, <3>2 DEF IInv, Safety, SidecarDescribesOwnFile
  <2>11. Safety'
    BY <1>2, <2>9, <2>10 DEF IInv, Safety, CompletedMeansPublished,
       PublishedVersionsContiguous, HasPredecessor, NoSilentDrop, Recorded, trackVars, outVars
  <2> QED BY <1>1, <1>3, <1>5, <2>5, <2>7, <2>11, WorkerFrame
<1>9. CASE WriteMetadata(w)
  <2> DEFINE q == MetaPathOf(j.key, j.day)
             d == [key |-> j.key, version |-> j.version, rev |-> j.rev]
  <2>1. meta' = [meta EXCEPT ![q] = d] /\ csv' = csv /\ staged' = staged
    BY <1>9 DEF WriteMetadata, WriteSidecar
  <2>2. q \in MetaPaths /\ d \in Sidecar
    BY <1>6 DEF MetaPathOf, MetaPaths, Datasets, Sidecar
  <2>3. BronzeTypeOK'
    <3> HIDE DEF q, d
    <3> QED BY <1>0, <2>1, <2>2 DEF BronzeTypeOK
  <2>4. pc'[w] = "emit" /\ csv[p].key = j.key
    BY <1>9, <1>0, <1>5
    DEF WriteMetadata, Step, Goto, PCs, TryRegion, WorkerTypeOK, WorkerInv, Stored
  <2>5. WorkerInv(w)'
    BY <1>0, <1>2, <1>4, <1>5, <1>6, <2>1, <2>4
    DEF WorkerInv, HasPredecessor, Resolved, Fetched, Stored, Announced, outVars
  <2>6. p = [dataset |-> q.dataset, day |-> q.day, version |-> d.version]
    BY DEF BlobPath, PathOf, MetaPathOf
  <2>7. SidecarDescribesOwnFile'
    <3> SUFFICES ASSUME NEW r \in MetaPaths, meta'[r] # NoMeta
                 PROVE  csv[[dataset |-> r.dataset, day |-> r.day,
                             version |-> meta'[r].version]].key = meta'[r].key
      BY <2>1 DEF SidecarDescribesOwnFile
    <3>1. CASE r = q
      <4>1. meta'[q] = d
        <5> HIDE DEF q, d
        <5> QED BY <1>0, <2>1, <2>2 DEF BronzeTypeOK
      <4> QED BY <2>4, <2>6, <3>1, <4>1
    <3>2. CASE r # q
      <4>1. meta'[r] = meta[r]
        <5> HIDE DEF q, d
        <5> QED BY <1>0, <2>1, <3>2 DEF BronzeTypeOK
      <4> QED BY <4>1 DEF IInv, Safety, SidecarDescribesOwnFile
    <3> QED BY <3>1, <3>2
  <2>8. Safety'
    BY <1>2, <2>1, <2>7 DEF IInv, Safety, CompletedMeansPublished, EventPointsToOwnFile,
       PublishedVersionsContiguous, HasPredecessor, NoSilentDrop, Recorded, trackVars, outVars
  <2> QED BY <1>1, <1>3, <1>5, <2>3, <2>5, <2>8, WorkerFrame
<1> QED BY <1>7, <1>8, <1>9 DEF BronzeStep

\* The two queues the worker writes to.
OutStep(w) == EmitEvent(w) \/ DeadLetter(w) \/ DeadLetterFails(w)

LEMMA OutIInv ==
  ASSUME IInv, NEW w \in Workers, OutStep(w), UNCHANGED dispatcherVars
  PROVE  IInv'
<1> USE KeysAssumption, BoundsAssumption
<1>0. WorkerInv(w) /\ WorkerTypeOK
  BY DEF IInv, TypeOK
<1>1. SharedGrows /\ EnvTypeOK'
  BY WorkerGrows, WorkerEnvTyped DEF OutStep, WorkerStep, WorkerFault
<1>2. UNCHANGED <<trackVars, msgs, bronzeVars, src>> /\ job' = job
  BY DEF OutStep, EmitEvent, DeadLetter, DeadLetterFails, Step, Fault, envVars
<1>3. TrackingTypeOK' /\ QueueTypeOK' /\ QueueInv' /\ BronzeTypeOK'
  BY <1>1, <1>2, QueueKeeps DEF IInv, TypeOK, trackVars, TrackingTypeOK, bronzeVars,
     BronzeTypeOK
<1>4. /\ events' = events \/ (EmitEvent(w) /\ events' = events \cup {EventOf(w)})
      /\ EventOf(w)' = EventOf(w)
      /\ EmitEvent(w) => /\ EventOf(w) \in Event
                         /\ csv[BlobPath(w)].key = job[w].key
                         /\ HasPredecessor(job[w].key, job[w].version)
  BY <1>0, <1>2 DEF OutStep, EmitEvent, DeadLetter, DeadLetterFails, Step, EventOf, Event,
     WorkerInv, Resolved, Fetched, Stored
<1>5. dead' \subseteq dead \cup {job[w].msg} /\ pc[w] # "idle"
  BY <1>0 DEF OutStep, EmitEvent, DeadLetter, DeadLetterFails, Step
<1>6. WorkerTypeOK' /\ \A v \in Workers : v # w => pc'[v] = pc[v]
  <2>1. events' \subseteq Event /\ dead' \subseteq MsgIds
    BY <1>0, <1>4, <1>5 DEF WorkerTypeOK, WorkerInv
  <2> QED BY <1>0, <1>2, <2>1 DEF OutStep, EmitEvent, DeadLetter, DeadLetterFails, Step,
             Goto, WorkerTypeOK, PCs, TryRegion
<1>7. WorkerInv(w)'
  <2>1. CASE EmitEvent(w)
    <3>1. pc[w] = "emit" /\ pc'[w] = "doneV" /\ EventOf(w) \in events'
      BY <1>0, <2>1 DEF EmitEvent, Step, Goto, WorkerTypeOK
    <3>2. \A k, v : HasPredecessor(k, v) => HasPredecessor(k, v)'
      BY <1>1 DEF HasPredecessor, SharedGrows
    <3> QED BY <1>0, <1>2, <1>4, <3>1, <3>2
            DEF WorkerInv, Resolved, Fetched, Stored, Announced, BlobPath, bronzeVars
  <2>2. CASE DeadLetter(w)
    <3>1. pc[w] = "dead" /\ pc'[w] \in {"ack", "nack"} /\ job[w].msg \in dead'
      BY <1>0, <2>2 DEF DeadLetter, Goto, WorkerTypeOK
    <3> QED BY <1>0, <1>2, <3>1
            DEF WorkerInv, Resolved, Fetched, Stored, Announced, Recorded
  <2>3. CASE DeadLetterFails(w)
    <3>1. pc[w] = "dead" /\ pc'[w] = "nack"
      BY <1>0, <2>3 DEF DeadLetterFails, Step, Goto, WorkerTypeOK
    <3> QED BY <1>0, <1>2, <3>1
            DEF WorkerInv, Resolved, Fetched, Stored, Announced
  <2> QED BY <2>1, <2>2, <2>3 DEF OutStep
<1>8. Safety'
  <2>1. CompletedMeansPublished'
    BY <1>1, <1>2 DEF IInv, Safety, CompletedMeansPublished, SharedGrows, trackVars
  <2>2. EventPointsToOwnFile' /\ SidecarDescribesOwnFile'
    BY <1>2, <1>4 DEF IInv, Safety, EventPointsToOwnFile, SidecarDescribesOwnFile, EventOf,
       BlobPath, bronzeVars
  <2>3. PublishedVersionsContiguous'
    <3>1. \A k, v : HasPredecessor(k, v) => HasPredecessor(k, v)'
      BY <1>1 DEF HasPredecessor, SharedGrows
    <3> QED BY <1>4, <3>1 DEF IInv, Safety, PublishedVersionsContiguous, EventOf
  <2>4. NoSilentDrop'
    BY <1>1, <1>2 DEF IInv, Safety, NoSilentDrop, Recorded, SharedGrows
  <2> QED BY <2>1, <2>2, <2>3, <2>4 DEF Safety
<1> QED BY <1>1, <1>2, <1>3, <1>6, <1>7, <1>8, WorkerFrame

\* The end of an invocation: returned, raised or crashed.
EndStep(w) == Return(w) \/ Escape(w) \/ Crash(w)

LEMMA EndIInv ==
  ASSUME IInv, NEW w \in Workers, EndStep(w), UNCHANGED dispatcherVars
  PROVE  IInv'
<1> USE KeysAssumption, BoundsAssumption
<1>0. WorkerInv(w) /\ WorkerTypeOK
  BY DEF IInv, TypeOK
<1>1. SharedGrows /\ EnvTypeOK'
  BY WorkerGrows, WorkerEnvTyped DEF EndStep, WorkerStep, WorkerFault
<1>2. Finish(w) /\ UNCHANGED src
  BY DEF EndStep, Return, Escape, Crash, Fault, envVars
<1>3. UNCHANGED <<trackVars, bronzeVars, outVars>>
  BY <1>2 DEF Finish
<1>4. TrackingTypeOK' /\ BronzeTypeOK'
  BY <1>3 DEF IInv, TypeOK, trackVars, TrackingTypeOK, bronzeVars, BronzeTypeOK
<1>5. /\ pc' = [pc EXCEPT ![w] = "idle"] /\ job' = [job EXCEPT ![w] = NoJob]
      /\ NoJob \in Job
  BY <1>2 DEF Finish, Goto, NoJob, Job, Failures
<1>6. WorkerTypeOK' /\ \A v \in Workers : v # w => pc'[v] = pc[v] /\ job'[v] = job[v]
  BY <1>0, <1>3, <1>5 DEF WorkerTypeOK, PCs, outVars
<1>7. WorkerInv(w)'
  BY <1>0, <1>5
  DEF WorkerTypeOK, WorkerInv, NoJob, Resolved, Fetched, Stored, Announced
<1>8. QueueTypeOK' /\ QueueInv' /\ NoSilentDrop'
  <2>1. job[w].msg \in MsgIds
    BY <1>0 DEF EndStep, Return, Escape, Crash, WorkerInv
  <2>2. \A m \in MsgIds : Recorded(m) => Recorded(m)'
    BY <1>3 DEF Recorded, outVars
  <2>3. CASE Return(w)
    <3>1. Recorded(job[w].msg) /\ CompleteMessage(w, job[w].msg)
      BY <1>0, <2>3 DEF Return, WorkerInv
    <3> QED BY <1>2, <2>1, <2>2, <3>1, CompleteKeepsQueue DEF IInv, Safety, NoSilentDrop
  <2>4. CASE Escape(w) \/ Crash(w)
    <3>1. UNCHANGED msgs \/ GiveBack(job[w].msg) \/ OrphanMessage(w, job[w].msg)
      BY <2>4 DEF Escape, Crash, AbandonMessage
    <3>2. CASE UNCHANGED msgs
      BY <1>1, <2>2, <3>2, QueueKeeps DEF IInv, Safety, NoSilentDrop
    <3>3. CASE GiveBack(job[w].msg) \/ OrphanMessage(w, job[w].msg)
      BY <1>2, <2>1, <2>2, <3>3, GiveBackKeepsQueue, OrphanKeepsQueue
      DEF IInv, Safety, NoSilentDrop, QueueKept
    <3> QED BY <3>1, <3>2, <3>3
  <2> QED BY <2>3, <2>4 DEF EndStep
<1>9. Safety'
  BY <1>3, <1>8 DEF IInv, Safety, CompletedMeansPublished, EventPointsToOwnFile,
     SidecarDescribesOwnFile, PublishedVersionsContiguous, HasPredecessor, trackVars,
     bronzeVars, outVars
<1> QED BY <1>1, <1>4, <1>6, <1>7, <1>8, <1>9, WorkerFrame

\* A message reaches an idle instance.
LEMMA DeliverIInv ==
  ASSUME IInv, NEW w \in Workers, Deliver(w)
  PROVE  IInv'
<1> USE KeysAssumption, BoundsAssumption
<1>0. WorkerInv(w) /\ WorkerTypeOK /\ QueueTypeOK /\ QueueInv
  BY DEF IInv, TypeOK
<1>1. PICK m \in MsgIds : Receive(w, m)
  BY DEF Deliver
<1>2. UNCHANGED <<trackVars, bronzeVars, envVars, outVars, dispatcherVars>>
  BY <1>1 DEF Receive, Deliver
<1>3. SharedGrows
  BY <1>2 DEF SharedGrows, bronzeVars, envVars, outVars
<1>4. TrackingTypeOK' /\ BronzeTypeOK' /\ EnvTypeOK'
  BY <1>2 DEF IInv, TypeOK, trackVars, TrackingTypeOK, bronzeVars, BronzeTypeOK, envVars,
     EnvTypeOK
<1>5. QueueKept
  BY <1>1, <1>2, ReceiveKeepsQueue DEF Receive, envVars
<1>6. Safety'
  BY <1>2, <1>5, QueueStepSafety DEF trackVars, bronzeVars
<1>7. /\ pc' = [pc EXCEPT ![w] = "resolve"]
      /\ job' = [job EXCEPT ![w] = [NoJob EXCEPT !.msg = m, !.key = msgs[m].body]]
  BY <1>1 DEF Receive, Goto
<1>8. [NoJob EXCEPT !.msg = m, !.key = msgs[m].body] \in Job
  <2>1. NoJob \in Job
    BY DEF NoJob, Job, Failures
  <2>2. \A i \in Job, n \in 0 .. MaxMsgs, k \in Keys \cup {None} :
          [i EXCEPT !.msg = n, !.key = k] \in Job
    BY DEF Job
  <2>3. m \in 0 .. MaxMsgs /\ msgs[m].body \in Keys \cup {None}
    BY <1>0 DEF QueueTypeOK, Message, MsgIds
  <2> QED BY <2>1, <2>2, <2>3
<1>9. WorkerTypeOK' /\ \A v \in Workers : v # w => pc'[v] = pc[v] /\ job'[v] = job[v]
  BY <1>0, <1>2, <1>7, <1>8 DEF WorkerTypeOK, PCs, TryRegion, outVars
<1>10. WorkerInv(w)'
  BY <1>0, <1>2, <1>7 DEF WorkerTypeOK, WorkerInv, NoJob, QueueInv, Resolved, Fetched,
     Stored, Announced, envVars
<1> QED BY <1>2, <1>3, <1>4, <1>5, <1>6, <1>9, <1>10, WorkerFrame DEF QueueKept
---------------------------------------------------------------------------
LEMMA NextIInv == IInv /\ [Next]_vars => IInv'
<1> SUFFICES ASSUME IInv, [Next]_vars PROVE IInv'
  OBVIOUS
<1>1. ASSUME NEW w \in Workers, Work(w)
      PROVE  IInv'
  BY <1>1, LocalIInv, TrackIInv, BronzeIInv, OutIInv, EndIInv
  DEF Work, WorkerStep, WorkerFault, LocalStep, TrackStep, BronzeStep, OutStep, EndStep
<1>2. CASE Finished \/ UNCHANGED vars
  <2>1. UNCHANGED <<trackVars, msgs, envVars, dispatcherVars, workerVars, bronzeVars, outVars>>
    BY <1>2 DEF Finished, vars
  <2>2. SharedGrows
    BY <2>1 DEF SharedGrows, envVars, bronzeVars, outVars
  <2>3. \A w \in Workers : WorkerInv(w)'
    BY <2>1, <2>2, OthersKeep DEF workerVars
  <2>4. Safety'
    BY <2>1, SafetyKeeps DEF IInv, trackVars, bronzeVars
  <2>5. EnvTypeOK' /\ TrackingTypeOK' /\ BronzeTypeOK' /\ WorkerTypeOK'
    BY <2>1 DEF IInv, TypeOK, trackVars, TrackingTypeOK, bronzeVars, BronzeTypeOK, envVars,
       EnvTypeOK, workerVars, outVars, WorkerTypeOK
  <2> QED BY <2>1, <2>2, <2>3, <2>4, <2>5, DispatcherKeeps, QueueKeeps DEF IInv, TypeOK
<1> QED BY <1>1, <1>2, DispatcherIInv, DeliverIInv, WorldIInv DEF Next

\* The inductive invariant holds in every reachable state.
THEOREM Invariance == Spec => []IInv
BY InitIInv, NextIInv, PTL DEF Spec

\* The state of every component always has its type.
THEOREM TypeCorrect == Spec => []TypeOK
<1>1. IInv => TypeOK
  BY DEF IInv
<1> QED BY Invariance, <1>1, PTL

\* What the tracking table calls completed was announced, as it records it.
THEOREM CompletedIsPublished == Spec => []CompletedMeansPublished
<1>1. IInv => CompletedMeansPublished
  BY DEF IInv, Safety
<1> QED BY Invariance, <1>1, PTL

\* An event always points to a blob of its own S3 key.
THEOREM EventsPointHome == Spec => []EventPointsToOwnFile
<1>1. IInv => EventPointsToOwnFile
  BY DEF IInv, Safety
<1> QED BY Invariance, <1>1, PTL

\* A sidecar always describes a stored file of its own S3 key.
THEOREM SidecarsDescribeFiles == Spec => []SidecarDescribesOwnFile
<1>1. IInv => SidecarDescribesOwnFile
  BY DEF IInv, Safety
<1> QED BY Invariance, <1>1, PTL

\* The versions announced for a key have no gap.
THEOREM VersionsHaveNoGap == Spec => []PublishedVersionsContiguous
<1>1. IInv => PublishedVersionsContiguous
  BY DEF IInv, Safety
<1> QED BY Invariance, <1>1, PTL

\* No work item is completed without its event or a dead-letter entry.
THEOREM NothingIsDropped == Spec => []NoSilentDrop
<1>1. IInv => NoSilentDrop
  BY DEF IInv, Safety
<1> QED BY Invariance, <1>1, PTL
===========================================================================
