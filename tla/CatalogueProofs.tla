-------------------------- MODULE CatalogueProofs --------------------------
(***************************************************************************)
(* The pipeline implements Catalogue: every step shows its users nothing   *)
(* or one step of the catalogue.  Most of what a step of a worker has to   *)
(* justify (the path it announces is its own, the version before was       *)
(* announced, what it records or acknowledges was announced or dead-       *)
(* lettered) is its WorkerInv; the orderly catalogue also needs QuietInv.  *)
(***************************************************************************)
EXTENDS FaultFreeProofs

\* What w announces and records.
Own(w) == Announcement(job[w].key, job[w].version, job[w])

SameOwners == /\ DOMAIN csv' = DOMAIN csv
              /\ \A p \in DOMAIN csv : csv'[p].key = csv[p].key

SameDone == \A m \in MsgIds : msgs'[m].status = "done" <=> msgs[m].status = "done"
---------------------------------------------------------------------------
(* What is shown changes only with what it is made of. *)

RecordsIn(table) ==
    {Announcement(r[1], r[2], table[r[1]][r[2]]) :
       r \in {s \in Keys \X Versions : table[s[1]][s[2]].status = "completed"}}

LEMMA RecordsOfTable ==
  ASSUME NEW table, NEW b
  PROVE  b \in RecordsIn(table) <=>
           \E k \in Keys, v \in Versions :
             table[k][v].status = "completed" /\ b = Announcement(k, v, table[k][v])
<1> DEFINE Rows == {s \in Keys \X Versions : table[s[1]][s[2]].status = "completed"}
           Row(r) == Announcement(r[1], r[2], table[r[1]][r[2]])
<1>1. ASSUME NEW k \in Keys, NEW v \in Versions, table[k][v].status = "completed"
      PROVE  <<k, v>> \in Rows /\ Row(<<k, v>>) = Announcement(k, v, table[k][v])
  BY <1>1
<1>2. \A r \in Rows : /\ r[1] \in Keys /\ r[2] \in Versions
                      /\ table[r[1]][r[2]].status = "completed"
  OBVIOUS
<1> QED BY <1>1, <1>2 DEF RecordsIn

LEMMA RecordedIff ==
  ASSUME NEW b
  PROVE  /\ b \in ShownRecorded <=>
              \E k \in Keys, v \in Versions :
                ver[k][v].status = "completed" /\ b = Announcement(k, v, ver[k][v])
         /\ b \in ShownRecorded' <=>
              \E k \in Keys, v \in Versions :
                ver'[k][v].status = "completed" /\ b = Announcement(k, v, ver'[k][v])
<1>1. ShownRecorded = RecordsIn(ver) /\ ShownRecorded' = RecordsIn(ver')
  BY DEF ShownRecorded, CompletedRecords, RecordsIn
<1> QED BY <1>1, RecordsOfTable

LEMMA OwnersFrame == SameOwners => ShownOwner' = ShownOwner
BY DEF SameOwners, ShownOwner

LEMMA SidecarsFrame == meta' = meta => ShownSidecars' = ShownSidecars
BY DEF ShownSidecars

LEMMA RecordsFrame == ver' = ver => ShownRecorded' = ShownRecorded
BY DEF ShownRecorded, CompletedRecords

LEMMA OutFrame ==
  UNCHANGED outVars => ShownAnnounced' = ShownAnnounced /\ ShownAnswered' = ShownAnswered
BY DEF outVars, ShownAnnounced, ShownAnswered, Recorded

LEMMA SettledFrame == SameDone => ShownSettled' = ShownSettled
BY DEF SameDone, ShownSettled

LEMMA NothingShown ==
  ASSUME SameOwners, SameDone, UNCHANGED <<meta, ver, outVars>>
  PROVE  UNCHANGED Shown!vars
BY OwnersFrame, SidecarsFrame, RecordsFrame, OutFrame, SettledFrame
DEF Shown!vars, Shown!recordVars, Shown!pathVars, Shown!itemVars
---------------------------------------------------------------------------
(* The silent steps. *)

LEMMA GiveBackSettlesNothing ==
  ASSUME IInv, NEW m \in MsgIds, msgs[m].status = "locked", GiveBack(m)
  PROVE  SameDone
BY DEF GiveBack, SameDone, Message, IInv, TypeOK, QueueTypeOK

LEMMA QueueSettlesNothing ==
  ASSUME IInv, NEW m \in MsgIds, NEW w \in Workers,
         AbandonMessage(w, m) \/ OrphanMessage(w, m) \/ ReceiveMessage(w, m)
  PROVE  SameDone
<1>0. msgs \in [MsgIds -> Message]
  BY DEF IInv, TypeOK, QueueTypeOK
<1>1. CASE AbandonMessage(w, m)
  BY <1>1, GiveBackSettlesNothing DEF AbandonMessage, Holds, SameDone
<1>2. CASE OrphanMessage(w, m) \/ ReceiveMessage(w, m)
  BY <1>0, <1>2 DEF OrphanMessage, ReceiveMessage, Holds, SameDone, Message
<1> QED BY <1>1, <1>2

LEMMA SendSettlesNothing ==
  ASSUME IInv, NEW b, SendMessage(b)
  PROVE  SameDone
<1>1. PICK m \in FreeSlots : msgs' = [msgs EXCEPT ![m].body = b, ![m].status = "ready"]
  BY DEF SendMessage
<1> QED BY <1>1 DEF FreeSlots, SameDone, Message, IInv, TypeOK, QueueTypeOK

\* What the dispatcher, the broker and the rest of the world do is not shown.
LEMMA RestShowsNothing ==
  ASSUME IInv, \/ Tick \/ Dispatch \/ World \/ Finished \/ UNCHANGED vars
               \/ \E w \in Workers : Deliver(w)
  PROVE  UNCHANGED Shown!vars
<1>1. UNCHANGED <<ver, bronzeVars, outVars>>
  BY DEF Tick, TimerTick, Dispatch, DispatcherStep, DispatcherFault, ReadPage, ReadLastPage,
     LoseToken, CoverKeys, ListFails, EndRun, FilterFile, QueueFile, MarkQueued, SendWorkItem,
     SkipUndated, RejectWorkItem, AbortRun, World, Finished, Deliver, Receive, vars, trackVars
<1>2. \/ UNCHANGED msgs
      \/ \E b : SendMessage(b)
      \/ \E m \in MsgIds : msgs[m].status = "locked" /\ GiveBack(m)
      \/ \E w \in Workers, m \in MsgIds : ReceiveMessage(w, m)
  BY DEF Tick, TimerTick, Dispatch, DispatcherStep, DispatcherFault, ReadPage, ReadLastPage,
     LoseToken, CoverKeys, ListFails, EndRun, FilterFile, QueueFile, SendWorkItem,
     SkipUndated, RejectWorkItem, AbortRun, World, OrphanExpires, LockLost, Finished,
     Deliver, Receive, vars
<1>3. SameDone
  BY <1>2, SendSettlesNothing, GiveBackSettlesNothing, QueueSettlesNothing DEF SameDone
<1> QED BY <1>1, <1>3, NothingShown DEF SameOwners, bronzeVars

Silent(w) ==
    \/ RejectBody(w) \/ ResolveVersion(w) \/ MarkBaseProcessing(w)
    \/ OpenSource(w) \/ RefuseUpload(w) \/ StageFile(w)
    \/ MarkBaseCompleted(w) \/ CloseStores(w) \/ MarkBaseFailed(w) \/ Escape(w)
    \/ ReceiveFails(w) \/ (\E kind \in Failures : Fail(w, kind))
    \/ MarkFailedLost(w) \/ Crash(w)

LEMMA SilentShowsNothing ==
  ASSUME IInv, NEW w \in Workers, Silent(w)
  PROVE  UNCHANGED Shown!vars
<1>1. UNCHANGED <<csv, meta, ver, outVars>>
  BY DEF Silent, RejectBody, ResolveVersion, MarkBaseProcessing, OpenSource, RefuseUpload,
     StageFile, StageBlock, MarkBaseCompleted, CloseStores, MarkBaseFailed, Escape,
     ReceiveFails, Fail, MarkFailedLost, Crash, Finish, SetBaseStatus, trackVars, bronzeVars
<1>2. \/ UNCHANGED msgs
      \/ pc[w] # "idle" /\ (AbandonMessage(w, job[w].msg) \/ OrphanMessage(w, job[w].msg))
  BY DEF Silent, RejectBody, ResolveVersion, MarkBaseProcessing, OpenSource, RefuseUpload,
     StageFile, MarkBaseCompleted, CloseStores, MarkBaseFailed, Escape,
     ReceiveFails, Fail, MarkFailedLost, Crash
<1>3. pc[w] # "idle" => job[w].msg \in MsgIds
  BY DEF IInv, WorkerInv
<1>4. SameDone
  BY <1>2, <1>3, QueueSettlesNothing DEF SameDone
<1> QED BY <1>1, <1>4, NothingShown DEF SameOwners
---------------------------------------------------------------------------
(* The steps that show something. *)

LEMMA WorkerTyped ==
  ASSUME IInv, NEW w \in Workers
  PROVE  /\ WorkerInv(w) /\ job[w] \in Job
         /\ csv \in [Paths -> Blob] /\ meta \in [MetaPaths -> Sidecar]
         /\ ver \in [Keys -> [Versions -> VersionEntity]]
BY DEF IInv, TypeOK, WorkerTypeOK, BronzeTypeOK, TrackingTypeOK

\* A file is shown as stored while an attempt describes and announces it.
LEMMA OwnIsStored ==
  ASSUME IInv, NEW w \in Workers, pc[w] \in {"meta", "emit"}
  PROVE  /\ Shown!StoredFor(job[w].key, job[w].day, job[w].version)
         /\ job[w].key \in Keys /\ job[w].day \in Days /\ job[w].version \in Versions
         /\ job[w].rev \in Revs /\ job[w].msg \in MsgIds
<1>1. /\ job[w].key \in Keys /\ job[w].day \in Days /\ job[w].version \in Versions
      /\ job[w].rev \in Revs /\ job[w].msg \in MsgIds
      /\ csv[BlobPath(w)].key = job[w].key
  BY WorkerTyped DEF WorkerInv, Stored, Fetched, Resolved
<1>2. BlobPath(w) \in DOMAIN csv
  BY <1>1, WorkerTyped, PathTyped DEF BlobPath
<1> QED BY <1>1, <1>2 DEF ShownOwner, Shown!StoredFor, BlobPath, PathOf

\* A commit claims its path, unless the path already is its key's.
LEMMA CommitShows ==
  ASSUME IInv, NEW w \in Workers, CommitFile(w)
  PROVE  Shown!ShowFile \/ UNCHANGED Shown!vars
<1> DEFINE p == BlobPath(w)
           k == job[w].key
<1>1. /\ pc[w] = "commit" /\ csv[p].key \in {None, k}
      /\ \E b : csv' = [csv EXCEPT ![p] = [key |-> k, bytes |-> b]]
      /\ UNCHANGED <<meta, ver, outVars, msgs>>
  BY DEF CommitFile, Step, MayHold, CommitBlob, trackVars
<1>2. k \in Keys /\ p \in Paths /\ csv \in [Paths -> Blob] /\ DatasetOf[k] = p.dataset
  BY <1>1, WorkerTyped, PathTyped DEF WorkerInv, Resolved, Fetched, BlobPath, PathOf
<1>3. p \in Shown!Paths
  BY <1>2 DEF Paths, Datasets, Shown!Paths, Shown!Datasets
<1> HIDE DEF p, k
<1>4. DOMAIN csv' = DOMAIN csv /\ csv'[p].key = k
      /\ \A q \in DOMAIN csv : q # p => csv'[q] = csv[q]
  BY <1>1, <1>2
<1>5. CASE csv[p].key = k
  <2>1. SameOwners
    BY <1>4, <1>5 DEF SameOwners
  <2> QED BY <1>1, <2>1, NothingShown DEF SameDone
<1>6. CASE csv[p].key = None
  <2>1. ShownOwner[p] = None /\ ShownOwner' = [ShownOwner EXCEPT ![p] = k]
    BY <1>2, <1>4, <1>6 DEF ShownOwner
  <2>2. UNCHANGED <<ShownSidecars, Shown!recordVars, Shown!itemVars>>
    BY <1>1, SidecarsFrame, RecordsFrame, OutFrame, SettledFrame
    DEF SameDone, Shown!recordVars, Shown!itemVars
  <2>3. Shown!Claim(p)
    BY <1>2, <2>1, <2>2 DEF Shown!Claim
  <2> QED BY <1>3, <2>3 DEF Shown!ShowFile
<1> QED BY <1>1, <1>5, <1>6

LEMMA SidecarShows ==
  ASSUME IInv, NEW w \in Workers, WriteMetadata(w)
  PROVE  Shown!ShowFile
<1> DEFINE k == job[w].key
           d == job[w].day
           v == job[w].version
           q == MetaPathOf(k, d)
<1>1. /\ pc[w] = "meta"
      /\ meta' = [meta EXCEPT ![q] = [key |-> k, version |-> v, rev |-> job[w].rev]]
      /\ UNCHANGED <<csv, ver, outVars, msgs>>
  BY DEF WriteMetadata, Step, WriteSidecar, trackVars
<1>2. Shown!StoredFor(k, d, v) /\ k \in Keys /\ d \in Days /\ v \in Versions
  BY <1>1, OwnIsStored
<1>3. meta \in [MetaPaths -> Sidecar] /\ q \in MetaPaths
  BY <1>2, WorkerTyped DEF MetaPathOf, MetaPaths, Datasets
<1>4. ShownSidecars' = [ShownSidecars EXCEPT ![q] = [key |-> k, version |-> v]]
  <2> HIDE DEF k, v, q
  <2> QED BY <1>1, <1>3 DEF ShownSidecars
<1>5. UNCHANGED <<ShownOwner, Shown!recordVars, Shown!itemVars>>
  BY <1>1, OwnersFrame, RecordsFrame, OutFrame, SettledFrame
  DEF SameOwners, SameDone, Shown!recordVars, Shown!itemVars
<1>6. Shown!Describe(k, d, v)
  BY <1>2, <1>4, <1>5 DEF Shown!Describe, MetaPathOf
<1> QED BY <1>2, <1>6 DEF Shown!ShowFile

\* An attempt announces its own file, after the version before.
LEMMA EmitShows ==
  ASSUME IInv, NEW w \in Workers, EmitEvent(w)
  PROVE  /\ Own(w) \in Shown!Announcement /\ job[w].msg \in MsgIds
         /\ Shown!Announce(Own(w), job[w].msg)
<1> DEFINE a == Own(w)
<1>1. /\ pc[w] = "emit" /\ events' = events \cup {EventOf(w)}
      /\ UNCHANGED <<csv, meta, ver, msgs, dead>>
  BY DEF EmitEvent, Step, trackVars, bronzeVars
<1>2. /\ Shown!StoredFor(job[w].key, job[w].day, job[w].version)
      /\ a \in Shown!Announcement /\ job[w].msg \in MsgIds
  BY <1>1, OwnIsStored DEF Own, Announcement, Shown!Announcement
<1>3. HasPredecessor(job[w].key, job[w].version)
  BY <1>1, WorkerTyped DEF WorkerInv, Stored, Fetched, Resolved
<1>4. Shown!HasForerunner(a)
  <2>1. SUFFICES ASSUME job[w].version > 1
                 PROVE  \E b \in ShownAnnounced : /\ b.key = job[w].key
                                                  /\ b.version = job[w].version - 1
    BY DEF Shown!HasForerunner, Own, Announcement
  <2>2. PICK e \in events : e.key = job[w].key /\ e.version = job[w].version - 1
    BY <1>3, <2>1 DEF HasPredecessor
  <2>3. Announcement(e.key, e.version, e) \in ShownAnnounced
    BY DEF ShownAnnounced
  <2> QED BY <2>2, <2>3 DEF Announcement
<1>5. ShownAnnounced' = ShownAnnounced \cup {a}
  <2>1. Announcement(EventOf(w).key, EventOf(w).version, EventOf(w)) = a
    BY DEF EventOf, Own, Announcement
  <2> HIDE DEF a
  <2> QED BY <1>1, <2>1 DEF ShownAnnounced
<1>6. ShownAnswered' = ShownAnswered \cup {job[w].msg}
  <2>1. EventOf(w).msg = job[w].msg
    BY DEF EventOf
  <2>2. \A m : Recorded(m)' <=> Recorded(m) \/ m = job[w].msg
    BY <1>1, <2>1 DEF Recorded
  <2> QED BY <1>2, <2>2 DEF ShownAnswered
<1>7. UNCHANGED <<ShownRecorded, ShownSettled, Shown!pathVars>>
  BY <1>1, OwnersFrame, SidecarsFrame, RecordsFrame, SettledFrame
  DEF SameOwners, SameDone, Shown!pathVars
<1> QED BY <1>2, <1>4, <1>5, <1>6, <1>7 DEF Shown!Announce, Own, Announcement

\* What is recorded is what was announced.
LEMMA CompletionShows ==
  ASSUME IInv, NEW w \in Workers, MarkVersionCompleted(w)
  PROVE  Own(w) \in ShownAnnounced /\ Shown!Record(Own(w))
<1> DEFINE k == job[w].key
           v == job[w].version
           a == Own(w)
<1>1. /\ pc[w] = "doneV"
      /\ ver' = [ver EXCEPT ![k][v] =
                   [status |-> "completed", rev |-> job[w].rev, day |-> job[w].day]]
      /\ UNCHANGED <<csv, meta, msgs, outVars>>
  BY DEF MarkVersionCompleted, Step, CompleteVersion, bronzeVars
<1>2. k \in Keys /\ v \in Versions /\ EventOf(w) \in events
      /\ ver \in [Keys -> [Versions -> VersionEntity]]
  BY <1>1, WorkerTyped DEF WorkerInv, Announced, Stored, Fetched, Resolved
<1>3. a \in ShownAnnounced
  BY <1>2 DEF ShownAnnounced, EventOf, Own, Announcement
<1>4. /\ ver'[k][v] = [status |-> "completed", rev |-> job[w].rev, day |-> job[w].day]
      /\ \A l \in Keys, u \in Versions : l # k \/ u # v => ver'[l][u] = ver[l][u]
  <2> HIDE DEF k, v
  <2> QED BY <1>1, <1>2
<1>5. a = Announcement(k, v, ver'[k][v]) /\ a.key = k /\ a.version = v
  BY <1>4 DEF Own, Announcement
<1>6. ASSUME NEW b
      PROVE  b \in ShownRecorded' <=>
               b = a \/ (b \in ShownRecorded /\ (b.key # k \/ b.version # v))
  <2>1. \A l, u, e : Announcement(l, u, e).key = l /\ Announcement(l, u, e).version = u
    BY DEF Announcement
  <2>2. CASE b.key = k /\ b.version = v
    BY <1>2, <1>4, <1>5, <2>1, <2>2, RecordedIff
  <2>3. CASE b.key # k \/ b.version # v
    BY <1>4, <1>5, <2>1, <2>3, RecordedIff
  <2> QED BY <2>2, <2>3
<1>7. ShownRecorded' = {b \in ShownRecorded : b.key # a.key \/ b.version # a.version} \cup {a}
  BY <1>5, <1>6
<1>8. UNCHANGED <<ShownAnnounced, Shown!pathVars, Shown!itemVars>>
  BY <1>1, OwnersFrame, SidecarsFrame, OutFrame, SettledFrame
  DEF SameOwners, SameDone, Shown!pathVars, Shown!itemVars
<1> QED BY <1>3, <1>7, <1>8 DEF Shown!Record

\* An attempt that finds its version completed takes the record back.
LEMMA StatusShows ==
  ASSUME IInv, NEW w \in Workers, MarkVersionProcessing(w) \/ MarkVersionFailed(w)
  PROVE  \/ UNCHANGED Shown!vars
         \/ /\ ver[job[w].key][job[w].version].status = "completed"
            /\ \E a \in ShownRecorded : Shown!Withdraw(a)
<1> DEFINE k == job[w].key
           v == job[w].version
           a == Announcement(k, v, ver[k][v])
<1>1. PICK s \in {"processing", "failed"} : ver' = [ver EXCEPT ![k][v].status = s]
  BY DEF MarkVersionProcessing, MarkVersionFailed, SetVersionStatus
<1>2. pc[w] \in {"procV", "failV"} /\ UNCHANGED <<csv, meta, msgs, outVars>>
  BY DEF MarkVersionProcessing, MarkVersionFailed, Step, bronzeVars
<1>3. k \in Keys /\ v \in Versions /\ ver \in [Keys -> [Versions -> VersionEntity]]
  BY <1>2, WorkerTyped DEF WorkerInv, Resolved
<1>4. /\ ver'[k][v].status # "completed"
      /\ \A l \in Keys, u \in Versions : l # k \/ u # v => ver'[l][u] = ver[l][u]
  <2>1. ver'[k] = [ver[k] EXCEPT ![v].status = s] /\ \A l \in Keys : l # k => ver'[l] = ver[l]
    <3> HIDE DEF k, v
    <3> QED BY <1>1, <1>3
  <2>2. ver[k] \in [Versions -> VersionEntity] /\ ver[k][v] \in VersionEntity
    BY <1>3
  <2>3. /\ ver'[k][v] = [ver[k][v] EXCEPT !.status = s]
        /\ \A u \in Versions : u # v => ver'[k][u] = ver[k][u]
    <3> HIDE DEF k, v
    <3> QED BY <1>3, <2>1, <2>2
  <2>4. ver'[k][v].status = s
    <3> HIDE DEF k, v
    <3> QED BY <2>2, <2>3 DEF VersionEntity
  <2> QED BY <1>1, <2>1, <2>3, <2>4
<1>5. \A l, u, e : Announcement(l, u, e).key = l /\ Announcement(l, u, e).version = u
  BY DEF Announcement
<1>6. UNCHANGED <<ShownAnnounced, Shown!pathVars, Shown!itemVars>>
  BY <1>2, OwnersFrame, SidecarsFrame, OutFrame, SettledFrame
  DEF SameOwners, SameDone, Shown!pathVars, Shown!itemVars
<1>7. CASE ver[k][v].status = "completed"
  <2>1. a \in ShownRecorded
    BY <1>3, <1>7, RecordedIff
  <2>2. ASSUME NEW b
        PROVE  b \in ShownRecorded' <=> b \in ShownRecorded /\ b # a
    BY <1>3, <1>4, <1>5, RecordedIff
  <2>3. ShownRecorded' = ShownRecorded \ {a}
    BY <2>2
  <2> QED BY <1>6, <1>7, <2>1, <2>3 DEF Shown!Withdraw
<1>8. CASE ver[k][v].status # "completed"
  <2>1. ASSUME NEW b
        PROVE  b \in ShownRecorded' <=> b \in ShownRecorded
    BY <1>3, <1>4, <1>8, RecordedIff
  <2>2. ShownRecorded' = ShownRecorded
    BY <2>1
  <2> QED BY <1>6, <2>2 DEF Shown!vars, Shown!recordVars
<1> QED BY <1>7, <1>8

LEMMA DeadLetterShows ==
  ASSUME IInv, NEW w \in Workers, DeadLetter(w) \/ DeadLetterFails(w)
  PROVE  Shown!ShowFile \/ UNCHANGED Shown!vars
<1>1. /\ dead' \in {dead, dead \cup {job[w].msg}} /\ pc[w] = "dead"
      /\ UNCHANGED <<csv, meta, ver, msgs, events>>
  BY DEF DeadLetter, DeadLetterFails, Step, trackVars, bronzeVars
<1>2. job[w].msg \in MsgIds
  BY <1>1, WorkerTyped DEF WorkerInv
<1>3. CASE dead' = dead
  BY <1>1, <1>3, NothingShown DEF SameOwners, SameDone, outVars
<1>4. CASE dead' = dead \cup {job[w].msg}
  <2>1. ShownAnswered' = ShownAnswered \cup {job[w].msg}
    BY <1>1, <1>2, <1>4 DEF ShownAnswered, Recorded
  <2>2. UNCHANGED <<ShownSettled, Shown!recordVars, Shown!pathVars>>
    BY <1>1, OwnersFrame, SidecarsFrame, RecordsFrame, SettledFrame
    DEF SameOwners, SameDone, ShownAnnounced, Shown!recordVars, Shown!pathVars
  <2>3. Shown!Bury(job[w].msg)
    BY <2>1, <2>2 DEF Shown!Bury
  <2> QED BY <1>2, <2>3 DEF Shown!ShowFile
<1> QED BY <1>1, <1>3, <1>4

\* A message is settled after its answer.
LEMMA ReturnShows ==
  ASSUME IInv, NEW w \in Workers, Return(w)
  PROVE  Shown!ShowFile \/ UNCHANGED Shown!vars
<1> DEFINE m == job[w].msg
<1>1. /\ pc[w] = "ack" /\ CompleteMessage(w, m)
      /\ UNCHANGED <<csv, meta, ver, outVars>>
  BY DEF Return, Finish, trackVars, bronzeVars
<1>2. m \in MsgIds /\ Recorded(m) /\ msgs \in [MsgIds -> Message]
  BY <1>1, WorkerTyped DEF WorkerInv, IInv, TypeOK, QueueTypeOK
<1>3. CASE ~ Holds(w, m)
  BY <1>1, <1>3, NothingShown DEF CompleteMessage, SameOwners, SameDone
<1>4. CASE Holds(w, m)
  <2>1. \A n \in MsgIds : msgs'[n].status = "done" <=> msgs[n].status = "done" \/ n = m
    <3> HIDE DEF m
    <3> QED BY <1>1, <1>2, <1>4 DEF CompleteMessage, Message
  <2>2. ShownSettled' = ShownSettled \cup {m} /\ m \in ShownAnswered
    BY <1>2, <2>1 DEF ShownSettled, ShownAnswered
  <2>3. UNCHANGED <<ShownAnswered, Shown!recordVars, Shown!pathVars>>
    BY <1>1, OwnersFrame, SidecarsFrame, RecordsFrame, OutFrame
    DEF SameOwners, Shown!recordVars, Shown!pathVars
  <2>4. Shown!Settle(m)
    BY <2>2, <2>3 DEF Shown!Settle
  <2> QED BY <1>2, <2>4 DEF Shown!ShowFile
<1> QED BY <1>3, <1>4

\* The steps of an attempt that show something else than a record or an event.
LEMMA FileStepShows ==
  ASSUME IInv, NEW w \in Workers, Work(w),
         ~ EmitEvent(w), ~ MarkVersionCompleted(w),
         ~ (MarkVersionProcessing(w) \/ MarkVersionFailed(w))
  PROVE  Shown!ShowFile \/ UNCHANGED Shown!vars
<1>1. \/ Silent(w) \/ CommitFile(w) \/ WriteMetadata(w)
      \/ DeadLetter(w) \/ DeadLetterFails(w) \/ Return(w)
  BY DEF Work, WorkerStep, WorkerFault, Silent
<1> QED BY <1>1, SilentShowsNothing, CommitShows, SidecarShows, DeadLetterShows, ReturnShows
---------------------------------------------------------------------------
LEMMA InitShown == Init => Shown!Init
<1> SUFFICES ASSUME Init PROVE Shown!Init
  OBVIOUS
<1>1. ShownOwner = [p \in Shown!Paths |-> None]
  BY DEF Init, BronzeInit, NoBlob, ShownOwner, Paths, Datasets, Shown!Paths, Shown!Datasets
<1>2. ShownSidecars = [q \in Shown!MetaPaths |-> Shown!NoVersion]
  BY DEF Init, BronzeInit, NoMeta, ShownSidecars, MetaPaths, Datasets,
     Shown!MetaPaths, Shown!Datasets, Shown!NoVersion
<1>3. ShownRecorded = {}
  BY RecordedIff DEF Init, TrackingInit
<1>4. ShownAnnounced = {} /\ ShownAnswered = {} /\ ShownSettled = {}
  BY DEF Init, WorkerInit, QueueInit, Unsent, ShownAnnounced, ShownAnswered, ShownSettled, Recorded
<1> QED BY <1>1, <1>2, <1>3, <1>4 DEF Shown!Init

LEMMA NextShown == IInv /\ [Next]_vars => [Shown!Next]_(Shown!vars)
<1> SUFFICES ASSUME IInv, [Next]_vars PROVE Shown!Next \/ UNCHANGED Shown!vars
  OBVIOUS
<1>1. ASSUME NEW w \in Workers, Work(w)
      PROVE  Shown!Next \/ UNCHANGED Shown!vars
  <2>1. CASE EmitEvent(w)
    BY <2>1, EmitShows DEF Shown!Next
  <2>2. CASE MarkVersionCompleted(w)
    BY <2>2, CompletionShows DEF Shown!Next
  <2>3. CASE MarkVersionProcessing(w) \/ MarkVersionFailed(w)
    BY <2>3, StatusShows DEF Shown!Next
  <2> QED BY <1>1, <2>1, <2>2, <2>3, FileStepShows DEF Shown!Next
<1>2. CASE \/ Tick \/ Dispatch \/ World \/ Finished \/ UNCHANGED vars
           \/ \E w \in Workers : Deliver(w)
  BY <1>2, RestShowsNothing
<1> QED BY <1>1, <1>2, Zenon DEF Next

\* To those who use its data the pipeline is the catalogue, whatever fails and
\* however attempts of historical_worker interleave: paths never change hands,
\* a sidecar or an event is of a stored file, versions are announced in turn,
\* records repeat announcements, and work items are settled after their answer.
THEOREM PipelineIsCatalogue == Spec => ImplementsCatalogue
BY Invariance, InitShown, NextShown, PTL DEF Spec, ImplementsCatalogue, Shown!Spec
---------------------------------------------------------------------------
(* Where nothing fails. *)

\* No later version of the file is recorded.
LEMMA OwnIsLatest ==
  ASSUME IInv, QuietInv, NEW w \in Workers, pc[w] \in Undone
  PROVE  Shown!Latest(Own(w))
<1>1. IsNextVersion(job[w].key, job[w].version)
  BY DEF QuietInv, VersionIsNext
<1>2. ASSUME NEW b \in ShownRecorded, b.key = job[w].key
      PROVE  b.version < job[w].version
  <2>1. PICK k \in Keys, v \in Versions :
          ver[k][v].status = "completed" /\ b = Announcement(k, v, ver[k][v])
    BY RecordedIff
  <2>2. k = job[w].key /\ b.version = v
    BY <1>2, <2>1 DEF Announcement
  <2> QED BY <1>1, <2>1, <2>2 DEF IsNextVersion, CompletedVersions
<1> QED BY <1>2 DEF Shown!Latest, Own, Announcement

\* What is announced of a file when its next version is, is recorded.
LEMMA EarlierAreRecorded ==
  ASSUME IInv, QuietInv, NEW w \in Workers, pc[w] = "emit",
         NEW b \in ShownAnnounced, b.key = job[w].key
  PROVE  b \in ShownRecorded
<1>1. PICK e \in events : b = Announcement(e.key, e.version, e)
  BY DEF ShownAnnounced
<1>2. e.key = job[w].key /\ e.key \in Keys /\ e.version \in Versions
  BY <1>1 DEF Announcement, IInv, TypeOK, WorkerTypeOK, Event
<1>3. ver[e.key][e.version].status = "completed"
  <2>1. ASSUME NEW v \in Workers, pc[v] = "doneV", EventOf(v) = e
        PROVE  FALSE
    <3>1. job[v].key = job[w].key
      BY <1>2, <2>1 DEF EventOf
    <3> QED BY <1>2, <2>1, <3>1, Alone
  <2> QED BY <2>1 DEF QuietInv, EventsAreRecorded
<1>4. PICK f \in events : /\ f.key = e.key /\ f.version = e.version
                          /\ f.rev = ver[e.key][e.version].rev
                          /\ f.day = ver[e.key][e.version].day
  BY <1>2, <1>3 DEF IInv, Safety, CompletedMeansPublished
<1>5. f = e
  BY <1>4 DEF QuietInv, OneEventPerId
<1>6. b = Announcement(e.key, e.version, ver[e.key][e.version])
  BY <1>1, <1>4, <1>5 DEF Announcement
<1> QED BY <1>2, <1>3, <1>6, RecordedIff

LEMMA NextShownOrderly ==
  ASSUME Quiet, [Next]_vars, faults' = 0
  PROVE  [Shown!OrderlyNext]_(Shown!vars)
<1> SUFFICES Shown!OrderlyNext \/ UNCHANGED Shown!vars
  OBVIOUS
<1> USE DEF Undone
<1>1. ASSUME NEW w \in Workers, Work(w)
      PROVE  Shown!OrderlyNext \/ UNCHANGED Shown!vars
  <2>0. IInv /\ QuietInv
    BY <1>1, QuietWork DEF Quiet
  <2>1. CASE EmitEvent(w)
    <3>1. pc[w] = "emit"
      BY <2>1 DEF EmitEvent, Step
    <3>2. \A b \in ShownAnnounced : b.key = Own(w).key => b \in ShownRecorded
      BY <2>0, <3>1, EarlierAreRecorded DEF Own, Announcement
    <3>3. Shown!AnnounceNext(Own(w), job[w].msg)
      BY <2>0, <2>1, <3>1, <3>2, OwnIsLatest, EmitShows DEF Shown!AnnounceNext
    <3> QED BY <2>0, <2>1, <3>3, EmitShows DEF Shown!OrderlyNext
  <2>2. CASE MarkVersionCompleted(w)
    <3>1. pc[w] = "doneV"
      BY <2>2 DEF MarkVersionCompleted, Step
    <3>2. Shown!RecordNext(Own(w))
      BY <2>0, <2>2, <3>1, OwnIsLatest, CompletionShows DEF Shown!RecordNext
    <3> QED BY <2>0, <2>2, <3>2, CompletionShows DEF Shown!OrderlyNext
  <2>3. CASE MarkVersionProcessing(w) \/ MarkVersionFailed(w)
    <3>1. pc[w] \in {"procV", "failV"}
      BY <2>3 DEF MarkVersionProcessing, MarkVersionFailed, Step
    <3> QED BY <2>0, <2>3, <3>1, StatusShows, UndoneIsOpen
  <2> QED BY <1>1, <2>0, <2>1, <2>2, <2>3, FileStepShows DEF Shown!OrderlyNext
<1>2. CASE \/ Tick \/ Dispatch \/ World \/ Finished \/ UNCHANGED vars
           \/ \E w \in Workers : Deliver(w)
  BY <1>2, RestShowsNothing DEF Quiet
<1> QED BY <1>1, <1>2, Zenon DEF Next

\* With failures too, the pipeline is the orderly catalogue up to the first one.
THEOREM OrderlyUntilFailure ==
  ASSUME SlowTimer, SitesOnce
  PROVE  Spec => [][faults' = 0 => [Shown!OrderlyNext]_(Shown!vars)]_vars
<1>1. Quiet /\ [Next]_vars => (faults' = 0 => [Shown!OrderlyNext]_(Shown!vars))
  BY NextShownOrderly
<1> QED BY InitQuiet, NextQuiet, <1>1, PTL DEF Spec

LEMMA NextOrderly ==
  ASSUME SlowTimer, SitesOnce, NoFailures
  PROVE  Quiet /\ [Next]_vars => [Shown!OrderlyNext]_(Shown!vars)
<1> SUFFICES ASSUME Quiet, [Next]_vars PROVE [Shown!OrderlyNext]_(Shown!vars)
  OBVIOUS
<1>1. IInv'
  BY NextIInv DEF Quiet
<1>2. faults' = 0
  BY <1>1 DEF NoFailures, IInv, TypeOK, EnvTypeOK
<1> QED BY <1>2, NextShownOrderly

\* Where nothing fails, runs do not overlap their work and no site is listed
\* twice, a file's versions are announced and recorded strictly in turn, the
\* next only once all before it are recorded, and no record is taken back.
THEOREM PipelineIsOrderly ==
  ASSUME SlowTimer, SitesOnce, NoFailures
  PROVE  Spec => ImplementsOrderly
BY InitQuiet, NextQuiet, InitShown, NextOrderly, PTL
DEF Spec, ImplementsOrderly, Shown!OrderlySpec
===========================================================================
