-------------------------- MODULE FaultFreeProofs --------------------------
(***************************************************************************)
(* What the pipeline guarantees until something fails, when runs do not    *)
(* overlap the work of the runs before them and no site is configured      *)
(* twice: every id, record and path is written once.                       *)
(*                                                                         *)
(* Until then a file has one message and one invocation at a time (Alone), *)
(* the version an attempt resolved stays the next one until that attempt   *)
(* completes it, and what was announced is recorded or about to be.        *)
(***************************************************************************)
EXTENDS SlowTimerProofs

OneMessagePerFile ==
    \A m, n \in MsgIds :
        Live(m) /\ Live(n) /\ msgs[m].body = msgs[n].body /\ msgs[m].body \in Keys => m = n

HoldsItsMessage(w) ==
    pc[w] # "idle" => /\ Holds(w, job[w].msg)
                      /\ msgs[job[w].msg].body = job[w].key

Undone == {"procV", "procB", "fetch", "stage", "commit", "meta", "emit", "doneV", "failV"}

VersionIsNext(w) == pc[w] \in Undone => IsNextVersion(job[w].key, job[w].version)

EventsAreRecorded ==
    \A e \in events : \/ ver[e.key][e.version].status = "completed"
                      \/ \E w \in Workers : pc[w] = "doneV" /\ EventOf(w) = e

QuietInv ==
    /\ OneMessagePerFile
    /\ \A w \in Workers : HoldsItsMessage(w) /\ VersionIsNext(w)
    /\ EventsAreRecorded
    /\ OneEventPerId

\* Where moreover no two files share a dataset, nobody else writes to a path.
OneFilePerDataset == \A k, l \in Keys : DatasetOf[k] = DatasetOf[l] => k = l

OwnBytes(w) ==
    LET bytes == [key |-> job[w].key, rev |-> job[w].rev]
    IN  /\ pc[w] = "commit" => staged[BlobPath(w)] = bytes
        /\ pc[w] \in {"meta", "emit"} => csv[BlobPath(w)].bytes = bytes

BytesInv ==
    /\ \A w \in Workers : OwnBytes(w)
    /\ EventMatchesBytes
---------------------------------------------------------------------------
(* The steps that do not fail. *)

LEMMA FaultCounts ==
  ASSUME IInv, Fault
  PROVE  faults \in Nat /\ faults' \in Nat /\ faults' # 0
BY BoundsAssumption DEF IInv, TypeOK, EnvTypeOK, Fault

LEMMA QuietWork ==
  ASSUME IInv, NEW w \in Workers, Work(w), faults' = 0
  PROVE  faults = 0 /\ WorkerStep(w)
<1>1. ~ Fault
  BY FaultCounts
<1>2. WorkerStep(w)
  BY <1>1 DEF Work, WorkerFault, ReceiveFails, Fail, MarkFailedLost, DeadLetterFails, Crash
<1>3. faults' = faults
  BY <1>2 DEF WorkerStep, RejectBody, ResolveVersion, MarkVersionProcessing, MarkBaseProcessing,
     OpenSource, RefuseUpload, StageFile, CommitFile, WriteMetadata, EmitEvent,
     MarkVersionCompleted, MarkBaseCompleted, CloseStores, MarkVersionFailed,
     MarkBaseFailed, DeadLetter, Return, Escape, envVars
<1> QED BY <1>2, <1>3

\* Steps that touch neither the messages nor anything the workers do.
QuietFrame == UNCHANGED <<msgs, ver, workerVars, outVars, bronzeVars>>

LEMMA QuietRest ==
  ASSUME IInv, Tick \/ Dispatch \/ World \/ Finished \/ UNCHANGED vars, faults' = 0
  PROVE  /\ faults = 0
         /\ \/ QuietFrame
            \/ /\ SendWorkItem \/ \E m \in MsgIds : OrphanExpires(m)
               /\ UNCHANGED <<ver, workerVars, outVars, bronzeVars>>
<1>1. ~ Fault
  BY FaultCounts
<1>2. CASE Tick \/ Finished \/ UNCHANGED vars
  BY <1>2 DEF Tick, TimerTick, Finished, vars, trackVars, envVars, QuietFrame
<1>3. CASE World
  BY <1>1, <1>3 DEF World, PutObject, NextDay, LockLost, trackVars, envVars, QuietFrame
<1>4. CASE Dispatch
  <2>1. UNCHANGED <<ver, workerVars, outVars, bronzeVars>>
    BY <1>4 DEF Dispatch, DispatcherStep, DispatcherFault, ReadPage, ReadLastPage, LoseToken,
       CoverKeys, ListFails, EndRun, FilterFile, QueueFile, MarkQueued, SendWorkItem,
       SkipUndated, RejectWorkItem, AbortRun, trackVars
  <2>2. faults' = faults
    BY <1>1, <1>4 DEF Dispatch, DispatcherStep, DispatcherFault, ReadPage, ReadLastPage,
       LoseToken, ListFails, EndRun, FilterFile, QueueFile, SendWorkItem,
       SkipUndated, RejectWorkItem, AbortRun, envVars
  <2>3. SendWorkItem \/ UNCHANGED msgs
    BY <1>4 DEF Dispatch, DispatcherStep, DispatcherFault, ReadPage, ReadLastPage, LoseToken,
       CoverKeys, ListFails, EndRun, FilterFile, QueueFile,
       SkipUndated, RejectWorkItem, AbortRun
  <2> QED BY <2>1, <2>2, <2>3 DEF QuietFrame
<1> QED BY <1>2, <1>3, <1>4

LEMMA QuietDeliver ==
  ASSUME NEW w \in Workers, Deliver(w), faults' = 0
  PROVE  faults = 0 /\ UNCHANGED <<ver, outVars, bronzeVars>>
BY DEF Deliver, Receive, envVars, trackVars
---------------------------------------------------------------------------
(* One message and one invocation per file. *)

LEMMA Alone ==
  ASSUME IInv, QuietInv, NEW v \in Workers, NEW w \in Workers,
         pc[v] # "idle", pc[w] # "idle", job[v].key = job[w].key, job[v].key \in Keys
  PROVE  v = w
<1>1. job[v].msg \in MsgIds /\ job[w].msg \in MsgIds
  BY DEF IInv, WorkerInv
<1> QED BY <1>1 DEF QuietInv, HoldsItsMessage, OneMessagePerFile, Holds, Live

\* What an instance holds, no one else touches.
LEMMA OthersHold ==
  ASSUME IInv, NEW m \in MsgIds, NEW v \in Workers, NEW n \in MsgIds, Holds(v, n),
         \/ OrphanExpires(m)
         \/ \E w \in Workers \ {v} : \/ CompleteMessage(w, m) \/ AbandonMessage(w, m)
                                     \/ ReceiveMessage(w, m)
  PROVE  msgs'[n] = msgs[n]
<1>1. msgs \in [MsgIds -> Message] /\ v # None
  BY KeysAssumption DEF IInv, TypeOK, QueueTypeOK
<1>2. CASE OrphanExpires(m)
  BY <1>1, <1>2 DEF OrphanExpires, GiveBack, Holds
<1>3. ASSUME NEW w \in Workers \ {v},
             CompleteMessage(w, m) \/ AbandonMessage(w, m) \/ ReceiveMessage(w, m)
      PROVE  msgs'[n] = msgs[n]
  BY <1>1, <1>3 DEF CompleteMessage, AbandonMessage, ReceiveMessage, GiveBack, Holds
<1> QED BY <1>2, <1>3

LEMMA NoNewMessageKeepsOne ==
  ASSUME QuietInv, NoNewMessage
  PROVE  OneMessagePerFile'
BY DEF QuietInv, NoNewMessage, OneMessagePerFile

\* A file is sent only when nobody is at work on it.
LEMMA SendKeepsOne ==
  ASSUME IInv, SlowInv, QuietInv, SendWorkItem, UNCHANGED workerVars
  PROVE  OneMessagePerFile' /\ \A w \in Workers : HoldsItsMessage(w)'
<1>1. dpc = "send" /\ current \in Keys /\ SendMessage(current)
  BY DEF SendWorkItem, IInv, DispatcherInv
<1>2. ~ AtWork(current)
  BY <1>1, KeysAssumption DEF SlowInv, Ahead, InHand
<1>3. PICK s \in FreeSlots : msgs' = [msgs EXCEPT ![s].body = current, ![s].status = "ready"]
  BY <1>1 DEF SendMessage
<1>4. s \in MsgIds /\ msgs[s].status = "unsent" /\ \A m \in MsgIds \ {s} : msgs'[m] = msgs[m]
  BY <1>3 DEF FreeSlots, IInv, TypeOK, QueueTypeOK
<1>5. msgs'[s].body = current
  BY <1>3, <1>4 DEF IInv, TypeOK, QueueTypeOK, Message
<1>6. OneMessagePerFile'
  BY <1>2, <1>4, <1>5 DEF QuietInv, OneMessagePerFile, AtWork, Live
<1>7. ASSUME NEW w \in Workers
      PROVE  HoldsItsMessage(w)'
  <2>1. pc[w] # "idle" => job[w].msg \in MsgIds
    BY DEF IInv, WorkerInv
  <2> QED BY <1>4, <2>1 DEF QuietInv, HoldsItsMessage, Holds, workerVars
<1> QED BY <1>6, <1>7

LEMMA FrameKeepsQuiet ==
  ASSUME QuietInv, UNCHANGED <<ver, workerVars, outVars>>,
         OneMessagePerFile', \A w \in Workers : HoldsItsMessage(w)'
  PROVE  QuietInv'
<1>1. \A w \in Workers : EventOf(w)' = EventOf(w)
  BY DEF EventOf, workerVars
<1>2. EventsAreRecorded'
  BY <1>1 DEF QuietInv, EventsAreRecorded, workerVars, outVars
<1> QED BY <1>2 DEF QuietInv, VersionIsNext, IsNextVersion, CompletedVersions, OneEventPerId,
           workerVars, outVars

LEMMA RestKeepsQuiet ==
  ASSUME IInv, SlowInv, QuietInv, faults' = 0,
         Tick \/ Dispatch \/ World \/ Finished \/ UNCHANGED vars
  PROVE  QuietInv'
<1>1. CASE QuietFrame
  <2>1. OneMessagePerFile' /\ \A w \in Workers : HoldsItsMessage(w)'
    BY <1>1 DEF QuietFrame, QuietInv, OneMessagePerFile, HoldsItsMessage, Holds, Live, workerVars
  <2> QED BY <1>1, <2>1, FrameKeepsQuiet DEF QuietFrame
<1>2. CASE SendWorkItem /\ UNCHANGED <<ver, workerVars, outVars>>
  BY <1>2, SendKeepsOne, FrameKeepsQuiet
<1>3. ASSUME NEW m \in MsgIds, OrphanExpires(m), UNCHANGED <<ver, workerVars, outVars>>
      PROVE  QuietInv'
  <2>1. OneMessagePerFile'
    BY <1>3, GiveBackTakesNothingIn, NoNewMessageKeepsOne DEF OrphanExpires
  <2>2. ASSUME NEW w \in Workers
        PROVE  HoldsItsMessage(w)'
    <3>1. pc[w] # "idle" => job[w].msg \in MsgIds
      BY DEF IInv, WorkerInv
    <3> QED BY <1>3, <3>1, OthersHold DEF QuietInv, HoldsItsMessage, Holds, workerVars
  <2> QED BY <1>3, <2>1, <2>2, FrameKeepsQuiet
<1> QED BY <1>1, <1>2, <1>3, QuietRest

LEMMA DeliverKeepsQuiet ==
  ASSUME IInv, QuietInv, NEW w \in Workers, Deliver(w), faults' = 0
  PROVE  QuietInv'
<1> USE DEF Undone
<1>0. /\ pc \in [Workers -> PCs] /\ job \in [Workers -> Job] /\ msgs \in [MsgIds -> Message]
  BY DEF IInv, TypeOK, WorkerTypeOK, QueueTypeOK
<1>1. PICK m \in MsgIds : Receive(w, m)
  BY DEF Deliver
<1>2. /\ pc[w] = "idle" /\ pc' = [pc EXCEPT ![w] = "resolve"]
      /\ job' = [job EXCEPT ![w] = [NoJob EXCEPT !.msg = m, !.key = msgs[m].body]]
      /\ ReceiveMessage(w, m) /\ UNCHANGED <<ver, events>>
  BY <1>1, QuietDeliver DEF Receive, Goto, outVars
<1>3. OneMessagePerFile'
  BY <1>2, QueueTakesNothingIn, NoNewMessageKeepsOne
<1>4. job'[w].msg = m /\ job'[w].key = msgs[m].body /\ pc'[w] = "resolve"
  BY <1>0, <1>2 DEF NoJob
<1>5. HoldsItsMessage(w)'
  BY <1>0, <1>2, <1>4 DEF HoldsItsMessage, Holds, ReceiveMessage, Message
<1>6. ASSUME NEW v \in Workers, v # w
      PROVE  HoldsItsMessage(v)' /\ pc'[v] = pc[v] /\ job'[v] = job[v]
  <2>1. pc'[v] = pc[v] /\ job'[v] = job[v]
    BY <1>0, <1>2, <1>6
  <2>2. pc[v] # "idle" => job[v].msg \in MsgIds
    BY DEF IInv, WorkerInv
  <2>3. pc[v] # "idle" => msgs'[job[v].msg] = msgs[job[v].msg]
    BY <1>2, <1>6, <2>2, OthersHold DEF QuietInv, HoldsItsMessage
  <2> QED BY <2>1, <2>3 DEF QuietInv, HoldsItsMessage, Holds
<1>7. \A v \in Workers : VersionIsNext(v)'
  BY <1>2, <1>4, <1>6 DEF QuietInv, VersionIsNext, IsNextVersion, CompletedVersions
<1>8. EventsAreRecorded'
  BY <1>2, <1>4, <1>6 DEF QuietInv, EventsAreRecorded, EventOf
<1> QED BY <1>2, <1>3, <1>5, <1>6, <1>7, <1>8 DEF QuietInv, OneEventPerId
---------------------------------------------------------------------------
(* The records of a file are its one attempt's. *)

\* The version an attempt is still working on is not completed.
LEMMA NextIsOpen ==
  ASSUME NEW k \in Keys, NEW v \in Versions, IsNextVersion(k, v)
  PROVE  ver[k][v].status # "completed"
BY DEF IsNextVersion, CompletedVersions, Versions

LEMMA UndoneIsOpen ==
  ASSUME IInv, QuietInv, NEW w \in Workers, pc[w] \in Undone
  PROVE  /\ job[w].key \in Keys /\ job[w].version \in Versions
         /\ ver[job[w].key][job[w].version].status # "completed"
<1>1. job[w].key \in Keys /\ job[w].version \in Versions
  BY DEF IInv, WorkerInv, Resolved, Fetched, Stored, Announced, Undone
<1> QED BY <1>1, NextIsOpen DEF QuietInv, VersionIsNext

\* Nor was it announced.
LEMMA NotAnnounced ==
  ASSUME IInv, QuietInv, NEW w \in Workers, pc[w] \in Undone \ {"doneV"},
         NEW e \in events, e.key = job[w].key
  PROVE  e.version # job[w].version
<1>1. job[w].key \in Keys
  BY UndoneIsOpen
<1>2. ASSUME NEW v \in Workers, pc[v] = "doneV", EventOf(v) = e
      PROVE  FALSE
  <2>1. job[v].key = job[w].key
    BY <1>2 DEF EventOf
  <2> QED BY <1>1, <1>2, <2>1, Alone DEF Undone
<1> QED BY <1>2, UndoneIsOpen DEF QuietInv, EventsAreRecorded

\* An attempt writes the record of its own version, three times at most.
LEMMA WorkOnRecords ==
  ASSUME IInv, NEW w \in Workers, Work(w)
  PROVE  /\ \A k \in Keys, v \in Versions :
              ver'[k][v] # ver[k][v] =>
                /\ k = job[w].key /\ v = job[w].version
                /\ pc[w] \in {"procV", "failV", "doneV"}
                /\ pc[w] # "doneV" => ver'[k][v].status # "completed"
         /\ MarkVersionCompleted(w) => ver'[job[w].key][job[w].version].status = "completed"
<1>0. ver \in [Keys -> [Versions -> VersionEntity]]
  BY DEF IInv, TypeOK, TrackingTypeOK
<1>1. CASE MarkVersionProcessing(w) \/ MarkVersionFailed(w)
  <2>1. PICK s \in {"processing", "failed"} :
          ver' = [ver EXCEPT ![job[w].key][job[w].version].status = s]
    BY <1>1 DEF MarkVersionProcessing, MarkVersionFailed, SetVersionStatus
  <2>2. pc[w] \in {"procV", "failV"}
    BY <1>1 DEF MarkVersionProcessing, MarkVersionFailed, Step
  <2> QED BY <1>0, <2>1, <2>2 DEF VersionEntity, MarkVersionCompleted, Step
<1>2. CASE MarkVersionCompleted(w)
  <2>1. pc[w] = "doneV" /\ job[w].key \in Keys /\ job[w].version \in Versions
    BY <1>2 DEF MarkVersionCompleted, Step, IInv, WorkerInv, Resolved, Fetched, Stored, Announced
  <2> QED BY <1>0, <1>2, <2>1 DEF MarkVersionCompleted, CompleteVersion
<1>3. CASE ~ (MarkVersionProcessing(w) \/ MarkVersionFailed(w) \/ MarkVersionCompleted(w))
  <2>1. UNCHANGED ver
    BY <1>3 DEF Work, WorkerStep, WorkerFault, RejectBody, ResolveVersion,
     MarkBaseProcessing, OpenSource, RefuseUpload, StageFile, CommitFile, WriteMetadata,
     EmitEvent, MarkBaseCompleted, CloseStores, MarkBaseFailed, DeadLetter, Return, Escape,
     ReceiveFails, Fail, MarkFailedLost, DeadLetterFails, Crash, Finish, SetBaseStatus, trackVars
  <2> QED BY <1>3, <2>1
<1> QED BY <1>1, <1>2, <1>3

\* A completed record is not touched.
LEMMA RecordsStay ==
  ASSUME IInv, QuietInv, NEW w \in Workers, Work(w),
         NEW k \in Keys, NEW v \in Versions, ver[k][v].status = "completed"
  PROVE  ver'[k][v] = ver[k][v]
BY WorkOnRecords, UndoneIsOpen DEF Undone

\* An attempt starts with the next version, and keeps it.
LEMMA StepOnVersion ==
  ASSUME IInv, NEW w \in Workers, WorkerStep(w), pc'[w] \in Undone
  PROVE  \/ /\ pc[w] \in Undone \ {"doneV"}
            /\ job'[w].key = job[w].key /\ job'[w].version = job[w].version
         \/ /\ UNCHANGED ver
            /\ IsNextVersion(job'[w].key, job'[w].version)
<1> USE DEF Undone
<1>0. job \in [Workers -> Job] /\ pc \in [Workers -> PCs] /\ WorkerInv(w)
  BY DEF IInv, TypeOK, WorkerTypeOK
<1>1. CASE ResolveVersion(w)
  <2>1. PICK v \in Versions :
          IsNextVersion(job[w].key, v) /\ job' = [job EXCEPT ![w].version = v, ![w].day = day]
    BY <1>1 DEF ResolveVersion
  <2>2. job'[w].key = job[w].key /\ job'[w].version = v
    BY <1>0, <2>1 DEF Job
  <2> QED BY <1>1, <2>1, <2>2 DEF ResolveVersion, trackVars
<1>2. CASE TrackStep(w) \/ BronzeStep(w) \/ EmitEvent(w) \/ CloseStores(w)
  <2>1. PICK from, to : Step(w, from, to) /\ (to \in Undone => from \in Undone \ {"doneV"})
    BY <1>2
    DEF TrackStep, BronzeStep, CloseStores, MarkVersionProcessing,
        MarkBaseProcessing, StageFile, CommitFile, WriteMetadata, EmitEvent,
        MarkVersionCompleted, MarkBaseCompleted, MarkVersionFailed, MarkBaseFailed
  <2> QED BY <1>0, <2>1 DEF Step, Goto
<1>3. CASE OpenSource(w)
  BY <1>0, <1>3 DEF OpenSource, Job
<1>4. CASE RefuseUpload(w)
  BY <1>0, <1>4 DEF RefuseUpload, Raise, Job
<1>5. CASE RejectBody(w) \/ DeadLetter(w) \/ Return(w) \/ Escape(w)
  BY <1>0, <1>5 DEF RejectBody, DeadLetter, Return, Escape, Finish, Goto
<1> QED BY <1>1, <1>2, <1>3, <1>4, <1>5 DEF WorkerStep, TrackStep, BronzeStep

\* The messages after a step of an invocation.
LEMMA StepOnMessages ==
  ASSUME IInv, QuietInv, NEW w \in Workers, Work(w), WorkerStep(w)
  PROVE  OneMessagePerFile' /\ \A v \in Workers : HoldsItsMessage(v)'
<1>0. /\ job \in [Workers -> Job] /\ pc \in [Workers -> PCs]
      /\ \A v \in Workers : v # w => job'[v] = job[v] /\ pc'[v] = pc[v]
      /\ \A v \in Workers : pc[v] # "idle" => job[v].msg \in MsgIds
      /\ NoNewMessage
  BY WorkKeepsKey DEF IInv, TypeOK, WorkerTypeOK, WorkerInv
<1>1. OneMessagePerFile'
  BY <1>0, NoNewMessageKeepsOne
<1>2. CASE Return(w) \/ Escape(w)
  <2>1. /\ pc'[w] = "idle" /\ pc[w] # "idle"
        /\ CompleteMessage(w, job[w].msg) \/ AbandonMessage(w, job[w].msg)
    BY <1>0, <1>2 DEF Return, Escape, Finish, Goto
  <2>2. ASSUME NEW v \in Workers, v # w, pc[v] # "idle"
        PROVE  msgs'[job[v].msg] = msgs[job[v].msg]
    <3>1. Holds(v, job[v].msg)
      BY <2>2 DEF QuietInv, HoldsItsMessage
    <3> QED BY <1>0, <2>1, <2>2, <3>1, OthersHold
  <2>3. \A v \in Workers : HoldsItsMessage(v)'
    BY <1>0, <2>1, <2>2 DEF QuietInv, HoldsItsMessage, Holds
  <2> QED BY <1>1, <2>3
<1>3. CASE ~ (Return(w) \/ Escape(w))
  <2>1. UNCHANGED msgs /\ pc[w] # "idle"
    BY <1>3 DEF WorkerStep, RejectBody, ResolveVersion, MarkVersionProcessing, MarkBaseProcessing,
       OpenSource, RefuseUpload, StageFile, CommitFile, WriteMetadata, EmitEvent,
       MarkVersionCompleted, MarkBaseCompleted, CloseStores, MarkVersionFailed,
       MarkBaseFailed, DeadLetter, Step
  <2>2. \/ job' = job
        \/ \E v, d : job' = [job EXCEPT ![w].version = v, ![w].day = d]
        \/ \E r : job' = [job EXCEPT ![w].rev = r]
        \/ \E e : job' = [job EXCEPT ![w].exc = e]
    BY <1>3 DEF WorkerStep, RejectBody, ResolveVersion, MarkVersionProcessing, MarkBaseProcessing,
       OpenSource, RefuseUpload, StageFile, CommitFile, WriteMetadata, EmitEvent,
       MarkVersionCompleted, MarkBaseCompleted, CloseStores, MarkVersionFailed,
       MarkBaseFailed, DeadLetter, Step, Raise
  <2>3. job'[w].msg = job[w].msg /\ job'[w].key = job[w].key
    BY <1>0, <2>2 DEF Job
  <2>4. \A v \in Workers : HoldsItsMessage(v)'
    BY <1>0, <2>1, <2>3 DEF QuietInv, HoldsItsMessage, Holds
  <2> QED BY <1>1, <2>4
<1> QED BY <1>2, <1>3

\* Only EmitEvent announces.
LEMMA StepOnEvents ==
  ASSUME IInv, NEW w \in Workers, WorkerStep(w)
  PROVE  \/ UNCHANGED events
         \/ /\ events' = events \cup {EventOf(w)} /\ UNCHANGED ver
            /\ pc[w] = "emit" /\ pc'[w] = "doneV" /\ EventOf(w)' = EventOf(w)
<1>0. pc \in [Workers -> PCs]
  BY DEF IInv, TypeOK, WorkerTypeOK
<1>1. CASE EmitEvent(w)
  BY <1>0, <1>1 DEF EmitEvent, Step, Goto, EventOf, trackVars
<1>2. CASE ~ EmitEvent(w)
  BY <1>2 DEF WorkerStep, RejectBody, ResolveVersion, MarkVersionProcessing, MarkBaseProcessing,
     OpenSource, RefuseUpload, StageFile, CommitFile, WriteMetadata,
     MarkVersionCompleted, MarkBaseCompleted, CloseStores, MarkVersionFailed,
     MarkBaseFailed, DeadLetter, Return, Escape, Finish, outVars
<1> QED BY <1>1, <1>2

LEMMA WorkKeepsQuiet ==
  ASSUME IInv, QuietInv, NEW w \in Workers, Work(w), faults' = 0
  PROVE  QuietInv'
<1>0. WorkerStep(w) /\ \A v \in Workers : v # w => job'[v] = job[v] /\ pc'[v] = pc[v]
  BY QuietWork, WorkKeepsKey
<1>1. OneMessagePerFile' /\ \A v \in Workers : HoldsItsMessage(v)'
  BY <1>0, StepOnMessages
<1>2. \A v \in Workers : pc[v] \in Undone => /\ job[v].key \in Keys /\ job[v].version \in Versions
                                             /\ pc[v] # "idle"
  BY DEF IInv, WorkerInv, Resolved, Fetched, Stored, Announced, Undone
<1>3. ASSUME NEW v \in Workers, v # w
      PROVE  VersionIsNext(v)'
  <2>1. pc[v] \in Undone => job[v].key # job[w].key
    <3>1. pc[w] # "idle"
      BY <1>0 DEF WorkerStep, RejectBody, ResolveVersion, MarkVersionProcessing,
         MarkBaseProcessing, OpenSource, RefuseUpload, StageFile, CommitFile, WriteMetadata,
         EmitEvent, MarkVersionCompleted, MarkBaseCompleted, CloseStores, MarkVersionFailed,
         MarkBaseFailed, DeadLetter, Return, Escape, Step
    <3> QED BY <1>2, <1>3, <3>1, Alone
  <2>2. pc[v] \in Undone => CompletedVersions(job[v].key)' = CompletedVersions(job[v].key)
    BY <1>0, <1>2, <1>3, <2>1, WorkOnRecords DEF CompletedVersions
  <2> QED BY <1>0, <1>3, <2>2 DEF QuietInv, VersionIsNext, IsNextVersion
<1>4. VersionIsNext(w)'
  <2>1. CASE pc'[w] \in Undone /\ UNCHANGED ver /\ IsNextVersion(job'[w].key, job'[w].version)
    BY <2>1 DEF VersionIsNext, IsNextVersion, CompletedVersions
  <2>2. CASE /\ pc[w] \in Undone \ {"doneV"}
             /\ job'[w].key = job[w].key /\ job'[w].version = job[w].version
    <3>1. \A u \in Versions : ver'[job[w].key][u].status = "completed"
                              <=> ver[job[w].key][u].status = "completed"
      BY <1>2, <2>2, UndoneIsOpen, WorkOnRecords
    <3>2. CompletedVersions(job[w].key)' = CompletedVersions(job[w].key)
      BY <2>2, <3>1 DEF CompletedVersions
    <3> QED BY <2>2, <3>2 DEF QuietInv, VersionIsNext, IsNextVersion
  <2> QED BY <1>0, <2>1, <2>2, StepOnVersion DEF VersionIsNext
<1>5. \A e \in Event : e.key \in Keys /\ e.version \in Versions
  BY DEF Event
<1>6. ASSUME NEW e \in events
      PROVE  \/ ver'[e.key][e.version].status = "completed"
             \/ \E v \in Workers : pc'[v] = "doneV" /\ EventOf(v)' = e
  <2>1. e.key \in Keys /\ e.version \in Versions
    BY <1>5 DEF IInv, TypeOK, WorkerTypeOK
  <2>2. CASE ver[e.key][e.version].status = "completed"
    BY <2>1, <2>2, RecordsStay
  <2>3. ASSUME NEW v \in Workers, pc[v] = "doneV", EventOf(v) = e
        PROVE  \/ ver'[e.key][e.version].status = "completed"
               \/ \E u \in Workers : pc'[u] = "doneV" /\ EventOf(u)' = e
    <3>1. CASE v # w
      BY <1>0, <2>3, <3>1 DEF EventOf
    <3>2. CASE v = w
      <4>1. MarkVersionCompleted(w)
        BY <1>0, <2>3, <3>2 DEF WorkerStep, RejectBody, ResolveVersion, MarkVersionProcessing,
           MarkBaseProcessing, OpenSource, RefuseUpload, StageFile, CommitFile, WriteMetadata,
           EmitEvent, MarkBaseCompleted, CloseStores, MarkVersionFailed,
           MarkBaseFailed, DeadLetter, Return, Escape, Step
      <4>2. e.key = job[w].key /\ e.version = job[w].version
        BY <2>3, <3>2 DEF EventOf
      <4> QED BY <4>1, <4>2, WorkOnRecords
    <3> QED BY <3>1, <3>2
  <2> QED BY <2>2, <2>3 DEF QuietInv, EventsAreRecorded
<1>7. EventsAreRecorded'
  BY <1>0, <1>6, StepOnEvents DEF EventsAreRecorded
<1>8. OneEventPerId'
  <2>1. pc[w] = "emit" =>
          \A e \in events : ~ (e.key = EventOf(w).key /\ e.version = EventOf(w).version)
    BY NotAnnounced DEF EventOf, Undone
  <2> QED BY <1>0, <2>1, StepOnEvents DEF QuietInv, OneEventPerId
<1> QED BY <1>1, <1>3, <1>4, <1>7, <1>8 DEF QuietInv

LEMMA NextQuietInv ==
  ASSUME IInv, SlowInv, faults = 0 => QuietInv, [Next]_vars, faults' = 0
  PROVE  QuietInv'
<1>1. ASSUME NEW w \in Workers, Work(w)
      PROVE  QuietInv'
  BY <1>1, QuietWork, WorkKeepsQuiet
<1>2. ASSUME NEW w \in Workers, Deliver(w)
      PROVE  QuietInv'
  BY <1>2, QuietDeliver, DeliverKeepsQuiet
<1>3. CASE Tick \/ Dispatch \/ World \/ Finished \/ UNCHANGED vars
  BY <1>3, QuietRest, RestKeepsQuiet
<1> QED BY <1>1, <1>2, <1>3, Zenon DEF Next

Quiet == IInv /\ SlowInv /\ (faults = 0 => QuietInv)

LEMMA InitQuiet == Init => Quiet
<1>1. Init => QuietInv
  BY DEF Init, QueueInit, Unsent, WorkerInit, QuietInv, OneMessagePerFile, Live,
     HoldsItsMessage, VersionIsNext, Undone, EventsAreRecorded, OneEventPerId
<1> QED BY <1>1, InitIInv, InitSlowInv DEF Quiet

LEMMA NextQuiet ==
  ASSUME SlowTimer, SitesOnce
  PROVE  Quiet /\ [Next]_vars => Quiet'
BY NextIInv, NextSlowInv, NextQuietInv DEF Quiet

\* Until something fails, no CloudEvents id is used for two events: two
\* attempts never resolve the same version of a file.
THEOREM IdsAreUnique ==
  ASSUME SlowTimer, SitesOnce
  PROVE  Spec => [](faults = 0 => OneEventPerId)
<1>1. Quiet => (faults = 0 => OneEventPerId)
  BY DEF Quiet, QuietInv
<1> QED BY InitQuiet, NextQuiet, <1>1, PTL DEF Spec

OneAttemptPerFile ==
    \A v, w \in Workers :
        /\ pc[v] # "idle" /\ pc[w] # "idle"
        /\ job[v].key = job[w].key /\ job[v].key \in Keys
        => v = w

\* Until something fails, no two invocations of historical_worker are ever at
\* the same file, however many instances take messages: a file is queued anew
\* only when all that was queued before is done, and a lock keeps others off.
THEOREM AttemptsAreAlone ==
  ASSUME SlowTimer, SitesOnce
  PROVE  Spec => [](faults = 0 => OneAttemptPerFile)
<1>1. Quiet => (faults = 0 => OneAttemptPerFile)
  BY Alone DEF Quiet, OneAttemptPerFile
<1> QED BY InitQuiet, NextQuiet, <1>1, PTL DEF Spec

NoFailures == MaxFaults = 0

LEMMA NeverFails ==
  ASSUME NoFailures
  PROVE  IInv => faults = 0
BY DEF NoFailures, IInv, TypeOK, EnvTypeOK

\* Where nothing fails, a record once completed is never written again.
THEOREM RecordsAreImmutable ==
  ASSUME SlowTimer, SitesOnce, NoFailures
  PROVE  Spec => RecordsImmutable
<1> DEFINE Kept == \A k \in Keys, v \in Versions :
                     ver[k][v].status = "completed" => ver'[k][v] = ver[k][v]
<1>1. Quiet /\ [Next]_vars => [Kept]_vars
  <2> SUFFICES ASSUME Quiet, [Next]_vars PROVE Kept
    OBVIOUS
  <2>0. IInv /\ IInv'
    BY NextIInv DEF Quiet
  <2>1. IInv /\ QuietInv /\ faults' = 0
    BY <2>0, NeverFails DEF Quiet, NoFailures, IInv, TypeOK, EnvTypeOK
  <2>2. CASE UNCHANGED ver
    BY <2>2
  <2>3. ASSUME NEW w \in Workers, Work(w)
        PROVE  Kept
    BY <2>1, <2>3, RecordsStay
  <2>4. ASSUME NEW w \in Workers, Deliver(w)
        PROVE  UNCHANGED ver
    BY <2>4, QuietDeliver, <2>1
  <2>5. CASE Tick \/ Dispatch \/ World \/ Finished \/ UNCHANGED vars
    BY <2>1, <2>2, <2>5, QuietRest DEF QuietFrame
  <2> QED BY <2>2, <2>3, <2>4, <2>5 DEF Next
<1> QED BY InitQuiet, NextQuiet, <1>1, PTL DEF Spec, RecordsImmutable
---------------------------------------------------------------------------
(* The bytes of a path are its one attempt's. *)

LEMMA PathIsOwn ==
  ASSUME OneFilePerDataset, NEW k \in Keys, NEW l \in Keys, NEW d, NEW e, NEW u, NEW v,
         PathOf(k, d, u) = PathOf(l, e, v)
  PROVE  k = l /\ d = e /\ u = v
BY DEF OneFilePerDataset, PathOf

\* An attempt writes to its own path only.
LEMMA StepOnBronze ==
  ASSUME IInv, NEW w \in Workers, WorkerStep(w)
  PROVE  \/ UNCHANGED <<csv, staged>> /\ pc'[w] # "commit" /\ (pc'[w] = "meta" => FALSE)
         \/ StageFile(w) /\ UNCHANGED csv /\ \A p \in Paths \ {BlobPath(w)} : staged'[p] = staged[p]
         \/ CommitFile(w) /\ \A p \in Paths \ {BlobPath(w)} :
                               staged'[p] = staged[p] /\ csv'[p] = csv[p]
<1>0. pc \in [Workers -> PCs] /\ csv \in [Paths -> Blob]
      /\ staged \in [Paths -> Content \cup {NoBytes}]
  BY DEF IInv, TypeOK, WorkerTypeOK, BronzeTypeOK
<1>1. CASE StageFile(w)
  BY <1>0, <1>1 DEF StageFile, StageBlock
<1>2. CASE CommitFile(w)
  BY <1>0, <1>2 DEF CommitFile, CommitBlob
<1>3. CASE ~ StageFile(w) /\ ~ CommitFile(w)
  <2>1. UNCHANGED <<csv, staged>>
    BY <1>3 DEF WorkerStep, RejectBody, ResolveVersion, MarkVersionProcessing, MarkBaseProcessing,
       OpenSource, RefuseUpload, WriteMetadata, WriteSidecar, EmitEvent,
       MarkVersionCompleted, MarkBaseCompleted, CloseStores, MarkVersionFailed,
       MarkBaseFailed, DeadLetter, Return, Escape, Finish, bronzeVars
  <2>2. pc'[w] # "commit" /\ pc'[w] # "meta"
    BY <1>0, <1>3 DEF WorkerStep, RejectBody, ResolveVersion, MarkVersionProcessing,
       MarkBaseProcessing, OpenSource, RefuseUpload, WriteMetadata, EmitEvent,
       MarkVersionCompleted, MarkBaseCompleted, CloseStores, MarkVersionFailed,
       MarkBaseFailed, DeadLetter, Return, Escape, Finish, Step, Goto, Raise
  <2> QED BY <2>1, <2>2
<1> QED BY <1>1, <1>2, <1>3

LEMMA OthersKeepBytes ==
  ASSUME OneFilePerDataset, IInv, QuietInv, BytesInv,
         NEW w \in Workers, WorkerStep(w), NEW v \in Workers, v # w,
         pc'[v] = pc[v], job'[v] = job[v]
  PROVE  OwnBytes(v)'
<1> DEFINE p == BlobPath(v)
<1>1. BlobPath(v)' = p
  BY DEF BlobPath
<1>2. SUFFICES ASSUME pc[v] \in {"commit", "meta", "emit"}
               PROVE  csv'[p] = csv[p] /\ staged'[p] = staged[p]
  BY <1>1 DEF BytesInv, OwnBytes
<1>3. job[v].key \in Keys /\ p \in Paths /\ pc[v] # "idle"
  BY <1>2, PathTyped DEF IInv, WorkerInv, Resolved, Fetched, Stored, BlobPath
<1>4. CASE StageFile(w) \/ CommitFile(w)
  <2>1. job[w].key \in Keys /\ pc[w] # "idle"
    BY <1>4 DEF StageFile, CommitFile, Step, IInv, WorkerInv, Resolved, Fetched
  <2>2. p # BlobPath(w)
    BY <1>3, <2>1, PathIsOwn, Alone DEF BlobPath
  <2> QED BY <1>3, <1>4, <2>2, StepOnBronze DEF StageFile, StageBlock
<1>5. CASE ~ (StageFile(w) \/ CommitFile(w))
  BY <1>5, StepOnBronze
<1> QED BY <1>4, <1>5

LEMMA WorkKeepsBytes ==
  ASSUME OneFilePerDataset, IInv, QuietInv, BytesInv, NEW w \in Workers, Work(w), faults' = 0
  PROVE  BytesInv'
<1> USE KeysAssumption
<1> DEFINE p     == BlobPath(w)
           bytes == [key |-> job[w].key, rev |-> job[w].rev]
<1>0. /\ pc \in [Workers -> PCs] /\ csv \in [Paths -> Blob]
      /\ staged \in [Paths -> Content \cup {NoBytes}] /\ events \subseteq Event
      /\ WorkerInv(w) /\ OwnBytes(w)
  BY DEF IInv, TypeOK, WorkerTypeOK, BronzeTypeOK, BytesInv
<1>1. WorkerStep(w) /\ \A v \in Workers : v # w => job'[v] = job[v] /\ pc'[v] = pc[v]
  BY QuietWork, WorkKeepsKey
<1>2. \A v \in Workers : v # w => OwnBytes(v)'
  BY <1>1, OthersKeepBytes
<1>3. \A e \in events : e.key \in Keys /\ PathOf(e.key, e.day, e.version) \in Paths
  BY <1>0, PathTyped DEF Event
<1>4. CASE StageFile(w)
  <2>1. staged' = [staged EXCEPT ![p] = bytes] /\ csv' = csv /\ pc'[w] = "commit" /\ job' = job
        /\ p \in Paths /\ events' = events
    BY <1>0, <1>4, PathTyped DEF StageFile, StageBlock, Step, Goto, WorkerInv, Resolved, Fetched,
       BlobPath, outVars
  <2>2. staged'[p] = bytes
    <3> HIDE DEF p, bytes
    <3> QED BY <1>0, <2>1
  <2>3. OwnBytes(w)'
    BY <2>1, <2>2 DEF OwnBytes, BlobPath
  <2> QED BY <1>2, <2>1, <2>3 DEF BytesInv, EventMatchesBytes
<1>5. CASE CommitFile(w)
  <2>1. /\ csv' = [csv EXCEPT ![p] = [key |-> job[w].key,
                                      bytes |-> IF staged[p] = NoBytes THEN @.bytes ELSE staged[p]]]
        /\ pc[w] = "commit" /\ pc'[w] = "meta" /\ job' = job /\ events' = events /\ p \in Paths
        /\ job[w].key \in Keys
    BY <1>0, <1>5, PathTyped DEF CommitFile, CommitBlob, Step, Goto, WorkerInv, Resolved, Fetched,
       BlobPath, outVars
  <2>2. staged[p] = bytes /\ bytes # NoBytes
    BY <1>0, <2>1 DEF OwnBytes, NoBytes
  <2>3. csv'[p].bytes = bytes
    <3> HIDE DEF p, bytes
    <3> QED BY <1>0, <2>1, <2>2
  <2>4. OwnBytes(w)'
    BY <2>1, <2>3 DEF OwnBytes, BlobPath
  <2>5. ASSUME NEW e \in events
        PROVE  PathOf(e.key, e.day, e.version) # p
    <3>1. e.key = job[w].key => e.version # job[w].version
      BY <2>1, NotAnnounced DEF Undone
    <3> QED BY <1>3, <2>1, <3>1, PathIsOwn DEF BlobPath
  <2>6. \A q \in Paths \ {p} : csv'[q] = csv[q]
    <3> HIDE DEF p
    <3> QED BY <1>0, <2>1
  <2>7. EventMatchesBytes'
    <3>1. events' = events
      BY <2>1
    <3>2. \A e \in events : LET q == PathOf(e.key, e.day, e.version) IN csv'[q] = csv[q]
      BY <1>3, <2>5, <2>6
    <3> QED BY <3>1, <3>2 DEF BytesInv, EventMatchesBytes
  <2> QED BY <1>2, <2>4, <2>7 DEF BytesInv
<1>6. CASE ~ (StageFile(w) \/ CommitFile(w))
  <2>1. UNCHANGED <<csv, staged>> /\ pc'[w] # "commit" /\ pc'[w] # "meta"
    BY <1>1, <1>6, StepOnBronze
  <2>2. pc'[w] = "emit" => pc[w] = "meta" /\ job' = job
    BY <1>0, <1>1, <1>6 DEF WorkerStep, RejectBody, ResolveVersion, MarkVersionProcessing,
       MarkBaseProcessing, OpenSource, RefuseUpload, WriteMetadata, EmitEvent,
       MarkVersionCompleted, MarkBaseCompleted, CloseStores, MarkVersionFailed,
       MarkBaseFailed, DeadLetter, Return, Escape, Finish, Step, Goto, Raise
  <2>3. OwnBytes(w)'
    BY <1>0, <2>1, <2>2 DEF OwnBytes, BlobPath
  <2>4. EventMatchesBytes'
    <3>1. CASE UNCHANGED events
      BY <2>1, <3>1 DEF BytesInv, EventMatchesBytes
    <3>2. CASE events' = events \cup {EventOf(w)} /\ pc[w] = "emit"
      <4>1. /\ EventOf(w).key = job[w].key /\ EventOf(w).rev = job[w].rev
            /\ PathOf(EventOf(w).key, EventOf(w).day, EventOf(w).version) = p
        BY DEF EventOf, BlobPath
      <4>2. csv[p].bytes = bytes
        BY <1>0, <3>2 DEF OwnBytes
      <4> QED BY <2>1, <3>2, <4>1, <4>2 DEF BytesInv, EventMatchesBytes
    <3> QED BY <1>1, <3>1, <3>2, StepOnEvents
  <2> QED BY <1>2, <2>3, <2>4 DEF BytesInv
<1> QED BY <1>4, <1>5, <1>6

LEMMA NextBytes ==
  ASSUME SlowTimer, SitesOnce, OneFilePerDataset
  PROVE  Quiet /\ (faults = 0 => BytesInv) /\ [Next]_vars => (faults = 0 => BytesInv)'
<1> SUFFICES ASSUME Quiet, faults = 0 => BytesInv, [Next]_vars, faults' = 0
             PROVE  BytesInv'
  OBVIOUS
<1>0. IInv
  BY DEF Quiet
<1>1. ASSUME NEW w \in Workers, Work(w)
      PROVE  BytesInv'
  BY <1>0, <1>1, QuietWork, WorkKeepsBytes DEF Quiet
<1>2. ASSUME faults = 0, UNCHANGED <<outVars, bronzeVars>>,
             \A v \in Workers : \/ pc'[v] = pc[v] /\ job'[v] = job[v]
                                \/ pc'[v] = "resolve"
      PROVE  BytesInv'
  <2>1. \A v \in Workers : OwnBytes(v)'
    BY <1>2 DEF BytesInv, OwnBytes, BlobPath, bronzeVars
  <2> QED BY <1>2, <2>1 DEF BytesInv, EventMatchesBytes, outVars, bronzeVars
<1>3. ASSUME NEW w \in Workers, Deliver(w)
      PROVE  BytesInv'
  <2>1. pc \in [Workers -> PCs] /\ job \in [Workers -> Job]
    BY <1>0 DEF IInv, TypeOK, WorkerTypeOK
  <2>2. \A v \in Workers : \/ pc'[v] = pc[v] /\ job'[v] = job[v]
                           \/ pc'[v] = "resolve"
    BY <1>3, <2>1 DEF Deliver, Receive, Goto
  <2> QED BY <1>2, <1>3, <2>2, QuietDeliver
<1>4. CASE Tick \/ Dispatch \/ World \/ Finished \/ UNCHANGED vars
  BY <1>0, <1>2, <1>4, QuietRest DEF QuietFrame, workerVars
<1> QED BY <1>1, <1>3, <1>4, Zenon DEF Next

\* Until something fails, an event's hash is that of the bytes at its path:
\* hashing, staging and committing are steps that no other attempt comes
\* between, and no later attempt overwrites a path that was announced.
THEOREM HashesMatchBytes ==
  ASSUME SlowTimer, SitesOnce, OneFilePerDataset
  PROVE  Spec => [](faults = 0 => EventMatchesBytes)
<1>1. Init => (faults = 0 => BytesInv)
  BY DEF Init, WorkerInit, BytesInv, OwnBytes, EventMatchesBytes
<1>2. BytesInv => EventMatchesBytes
  BY DEF BytesInv
<1> QED BY InitQuiet, NextQuiet, NextBytes, <1>1, <1>2, PTL DEF Spec
===========================================================================
