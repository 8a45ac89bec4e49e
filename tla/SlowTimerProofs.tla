-------------------------- MODULE SlowTimerProofs --------------------------
(***************************************************************************)
(* What the pipeline guarantees when runs do not overlap the work of the   *)
(* runs before them, as the schedule intends, and no site is configured    *)
(* twice: what is skipped was ingested.                                    *)
(*                                                                         *)
(* It rests on the order of a run: a file that the run may still queue     *)
(* (Ahead) has no message and no invocation (AtWork).                      *)
(***************************************************************************)
EXTENDS IngestionProofs

SlowTimer == ~ TimerOverlaps
SitesOnce == \A i, j \in DOMAIN SiteIds : SiteIds[i] = SiteIds[j] => i = j

Live(m) == msgs[m].status \in {"ready", "locked"}

AtWork(k) == \/ \E m \in MsgIds : Live(m) /\ msgs[m].body = k
             \/ \E w \in Workers : job[w].key = k

\* Files the run has listed or is listing, and has not sent.
InHand == unread \cup toCheck \cup toQueue \cup ({current} \ {None})

Later == {k \in Keys : \E i \in site + 1 .. Len(SiteIds) : k \in KeysAt(i)}

Ahead == IF dpc = "idle" THEN {} ELSE InHand \cup Later

RunOrder ==
    /\ InHand \subseteq KeysAt(site)
    /\ dpc # "page" => unread = {}
    /\ dpc \notin {"page", "filter"} => toCheck = {}
    /\ dpc \notin {"filter", "queue", "send"} => toQueue = {}
    /\ current # None <=> dpc = "send"
    /\ current \notin toQueue
    /\ \A k \in Keys : listed[k] <= src[k]

\* A revision once fetched is at least the one the table shows.
FetchedIsFresh(w) ==
    /\ pc[w] = "idle" => job[w].key = None
    /\ pc[w] \in Fetched => job[w].rev >= base[job[w].key].lm

SlowInv ==
    /\ RunOrder
    /\ \A k \in Ahead : ~ AtWork(k)
    /\ \A k \in Keys : base[k].lm <= src[k]
    /\ \A w \in Workers : FetchedIsFresh(w)
    /\ SkippedMeansIngested
---------------------------------------------------------------------------
(* The order of a run. *)

LEMMA SitesTyped ==
  /\ Len(SiteIds) \in Nat /\ DOMAIN SiteIds = 1 .. Len(SiteIds)
  /\ \A i : KeysAt(i) = {k \in Keys : i \in 1 .. Len(SiteIds) /\ SiteOf[k] = SiteIds[i]}
BY SitesAssumption DEF KeysAt

\* A page is of the site the run is at, once it is read.
LEMMA PageKeepsOrder ==
  ASSUME IInv, RunOrder, src' = src, NEW ks \in SUBSET Pending, CoverKeys(ks),
         \/ unread' = Pending \ ks /\ dpc' = "page"
         \/ EndListing
  PROVE  RunOrder' /\ Ahead' \subseteq Ahead
<1> USE SitesTyped, KeysAssumption
<1>1. /\ current' = current /\ toQueue' = toQueue
      /\ toCheck' \subseteq toCheck \cup ks
      /\ site' = IF dpc = "list" THEN site + 1 ELSE site
      /\ dpc = "page" \/ (dpc = "list" /\ site < Len(SiteIds))
  BY DEF CoverKeys, Listing
<1>2. toQueue = {} /\ current = None /\ (dpc = "list" => toCheck = {} /\ unread = {})
  BY <1>1 DEF RunOrder
<1>3. site \in Nat /\ listed \in [Keys -> 0 .. MaxRev] /\ src \in [Keys -> 0 .. MaxRev]
  BY DEF IInv, TypeOK, DispatcherTypeOK, EnvTypeOK
<1>4. /\ unread' \subseteq Pending /\ dpc' \in {"page", "list", "filter"}
      /\ dpc' = "list" => toCheck' = {}
      /\ dpc' # "page" => unread' = {}
  BY DEF EndListing
<1>5. Pending \subseteq KeysAt(site') /\ toCheck' \cup unread' \subseteq KeysAt(site')
  BY <1>1, <1>2, <1>3, <1>4 DEF Pending, RunOrder, InHand
<1>6. \A k \in Keys : listed'[k] <= src[k]
  BY <1>3 DEF CoverKeys, RunOrder
<1>7. RunOrder'
  BY <1>1, <1>2, <1>4, <1>5, <1>6 DEF RunOrder, InHand
<1>8. Later' \cup (KeysAt(site') \ KeysAt(site)) \subseteq Later
  BY <1>1, <1>3 DEF Later
<1>9. Pending \subseteq InHand \cup Later /\ toCheck' \cup unread' \subseteq InHand \cup Later
  BY <1>1, <1>3, <1>4 DEF Pending, InHand, Later
<1> QED BY <1>1, <1>2, <1>7, <1>8, <1>9 DEF Ahead, InHand

\* The other steps of a run only take files out of hand.
LEMMA DispatchKeepsOrder ==
  ASSUME IInv, RunOrder, Dispatch
  PROVE  RunOrder' /\ Ahead' \subseteq Ahead /\ src' = src
<1> USE SitesTyped, KeysAssumption
<1> USE DEF RunOrder, InHand
<1>0. /\ site \in Nat /\ src \in [Keys -> 0 .. MaxRev]
      /\ toCheck \subseteq Keys /\ toQueue \subseteq Keys /\ current \in Keys \cup {None}
  BY DEF IInv, TypeOK, DispatcherTypeOK, EnvTypeOK
<1>1. src' = src
  BY DEF Dispatch, DispatcherStep, DispatcherFault, ReadPage, ReadLastPage, LoseToken,
     ListFails, EndRun, FilterFile, QueueFile, SendWorkItem, SkipUndated, RejectWorkItem,
     AbortRun, Fault, envVars
<1>2. CASE (\E ks \in SUBSET Pending : ReadPage(ks) \/ LoseToken(ks)) \/ ReadLastPage
  BY <1>1, <1>2, PageKeepsOrder DEF ReadPage, ReadLastPage, LoseToken
<1>3. CASE ListFails
  <2>1. /\ unread' = {} /\ toCheck' = {} /\ toQueue' = toQueue /\ current' = current
        /\ dpc' = "list" /\ listed' = NothingListed
        /\ dpc = "page" \/ dpc = "list"
        /\ site' = IF dpc = "list" THEN site + 1 ELSE site
    BY <1>3 DEF ListFails, Listing
  <2>2. InHand' = {} /\ Later' \subseteq Later
    BY <1>0, <2>1 DEF Later
  <2>3. RunOrder'
    BY <1>0, <1>1, <2>1, <2>2 DEF NothingListed
  <2> QED BY <1>1, <2>1, <2>2, <2>3 DEF Ahead
<1>4. ASSUME NEW k \in Keys, FilterFile(k) \/ QueueFile(k) \/ SkipUndated(k)
      PROVE  RunOrder' /\ Ahead' \subseteq Ahead
  <2>1. site' = site /\ unread' = unread /\ listed' = listed /\ Later' = Later
    BY <1>4 DEF FilterFile, QueueFile, SkipUndated, listVars, Later
  <2>2. RunOrder' /\ InHand' \subseteq InHand
    <3>1. CASE FilterFile(k)
      BY <1>0, <1>1, <2>1, <3>1 DEF FilterFile, AfterFilter, AfterQueue
    <3>2. CASE QueueFile(k)
      BY <1>0, <1>1, <2>1, <3>2 DEF QueueFile
    <3>3. CASE SkipUndated(k)
      BY <1>0, <1>1, <2>1, <3>3 DEF SkipUndated, AfterQueue
    <3> QED BY <1>4, <3>1, <3>2, <3>3
  <2>3. dpc # "idle"
    BY <1>4 DEF FilterFile, QueueFile, SkipUndated
  <2> QED BY <2>1, <2>2, <2>3 DEF Ahead
<1>5. CASE SendWorkItem \/ RejectWorkItem
  <2>1. /\ site' = site /\ unread' = unread /\ listed' = listed /\ Later' = Later
        /\ toQueue' = toQueue /\ toCheck' = toCheck /\ current' = None
        /\ dpc = "send" /\ dpc' \in {"queue", "list"} /\ (dpc' = "list" => toQueue = {})
    BY <1>5 DEF SendWorkItem, RejectWorkItem, listVars, Later, AfterQueue
  <2>2. RunOrder' /\ InHand' \subseteq InHand
    BY <1>0, <1>1, <2>1
  <2> QED BY <1>1, <2>1, <2>2 DEF Ahead
<1>6. CASE EndRun \/ AbortRun
  <2>1. /\ dpc' = "idle" /\ unread' = {} /\ toCheck' = {} /\ toQueue' = {}
        /\ current' = None /\ listed' = NothingListed
    BY <1>6 DEF EndRun, AbortRun, EndOfRun
  <2>2. \A k \in Keys : listed'[k] <= src'[k]
    BY <1>0, <1>1, <2>1 DEF NothingListed
  <2>3. InHand' = {}
    BY <2>1
  <2> QED BY <1>1, <2>1, <2>2, <2>3 DEF Ahead
<1> HIDE DEF RunOrder, InHand
<1> QED BY <1>1, <1>2, <1>3, <1>4, <1>5, <1>6 DEF Dispatch, DispatcherStep, DispatcherFault

\* What is sent was the last of its file in this run.
LEMMA SentOnce ==
  ASSUME IInv, RunOrder, SitesOnce, SendWorkItem
  PROVE  current \in Ahead /\ current \notin Ahead'
<1> USE SitesTyped, KeysAssumption
<1>1. /\ dpc = "send" /\ dpc' \in {"queue", "list"} /\ current' = None
      /\ UNCHANGED <<site, unread, toQueue, toCheck>>
  BY DEF SendWorkItem, listVars, AfterQueue
<1>2. current \in KeysAt(site) /\ current \in InHand /\ site \in Nat
  BY <1>1 DEF RunOrder, InHand, IInv, TypeOK, DispatcherTypeOK
<1>3. current \notin Later'
  BY <1>1, <1>2 DEF Later, SitesOnce
<1>4. current \notin InHand'
  BY <1>1, <1>2 DEF RunOrder, InHand
<1> QED BY <1>1, <1>2, <1>3, <1>4 DEF Ahead
---------------------------------------------------------------------------
(* Who is at work on a file. *)

NoNewMessage ==
    \A m \in MsgIds : Live(m)' => Live(m) /\ msgs'[m].body = msgs[m].body

LEMMA GiveBackTakesNothingIn ==
  ASSUME IInv, NEW m \in MsgIds, msgs[m].status = "locked", GiveBack(m)
  PROVE  NoNewMessage
BY DEF GiveBack, NoNewMessage, Live, Message, IInv, TypeOK, QueueTypeOK

LEMMA QueueTakesNothingIn ==
  ASSUME IInv, NEW m \in MsgIds, NEW w \in Workers,
         \/ CompleteMessage(w, m) \/ AbandonMessage(w, m) \/ OrphanMessage(w, m)
         \/ ReceiveMessage(w, m)
  PROVE  NoNewMessage
<1>0. msgs \in [MsgIds -> Message]
  BY DEF IInv, TypeOK, QueueTypeOK
<1>2. CASE CompleteMessage(w, m) \/ OrphanMessage(w, m) \/ ReceiveMessage(w, m)
  BY <1>0, <1>2
  DEF CompleteMessage, OrphanMessage, ReceiveMessage, Holds, NoNewMessage, Live, Message
<1>3. CASE AbandonMessage(w, m)
  BY <1>3, GiveBackTakesNothingIn DEF AbandonMessage, Holds, NoNewMessage, Live
<1> QED BY <1>2, <1>3

LEMMA SendTakesOneIn ==
  ASSUME IInv, NEW b \in Keys \cup {None}, SendMessage(b)
  PROVE  \A m \in MsgIds :
           Live(m)' => msgs'[m].body = b \/ (Live(m) /\ msgs'[m].body = msgs[m].body)
BY DEF SendMessage, FreeSlots, IInv, TypeOK, QueueTypeOK, Message, Live

\* An invocation keeps its file until it ends.
LEMMA WorkKeepsKey ==
  ASSUME IInv, NEW w \in Workers, Work(w)
  PROVE  /\ \A v \in Workers : v # w => job'[v] = job[v] /\ pc'[v] = pc[v]
         /\ job'[w].key \in {job[w].key, None}
         /\ NoNewMessage
         /\ UNCHANGED <<dispatcherVars, src>>
<1>0. job \in [Workers -> Job] /\ pc \in [Workers -> PCs] /\ NoJob.key = None
  BY DEF IInv, TypeOK, WorkerTypeOK, NoJob
<1>1. UNCHANGED <<dispatcherVars, src>>
  BY DEF Work, WorkerStep, WorkerFault, RejectBody, ResolveVersion, MarkVersionProcessing,
     MarkBaseProcessing, OpenSource, RefuseUpload, StageFile, CommitFile, WriteMetadata,
     EmitEvent, MarkVersionCompleted, MarkBaseCompleted, CloseStores, MarkVersionFailed,
     MarkBaseFailed, DeadLetter, Return, Escape, ReceiveFails, Fail, MarkFailedLost,
     DeadLetterFails, Crash, Fault, envVars
<1>2. CASE EndStep(w)
  <2>1. Finish(w) /\ job[w].msg \in MsgIds
    BY <1>2 DEF EndStep, Return, Escape, Crash, IInv, WorkerInv
  <2>2. NoNewMessage
    BY <1>2, <2>1, QueueTakesNothingIn DEF EndStep, Return, Escape, Crash
  <2> QED BY <1>0, <1>1, <2>1, <2>2 DEF Finish, Goto
<1>3. CASE ~ EndStep(w)
  <2>1. UNCHANGED msgs
    BY <1>3 DEF EndStep, Work, WorkerStep, WorkerFault, RejectBody, ResolveVersion,
       MarkVersionProcessing, MarkBaseProcessing, OpenSource, RefuseUpload, StageFile,
       CommitFile, WriteMetadata, EmitEvent, MarkVersionCompleted, MarkBaseCompleted,
       CloseStores, MarkVersionFailed, MarkBaseFailed, DeadLetter, ReceiveFails, Fail,
       MarkFailedLost, DeadLetterFails
  <2>2. \E l \in PCs : Goto(w, l)
    <3>1. \A k : Raise(w, k) => \E l \in PCs : Goto(w, l)
      BY DEF Raise, PCs
    <3> QED BY <1>3, <3>1 DEF EndStep, Work, WorkerStep, WorkerFault, RejectBody, ResolveVersion,
       MarkVersionProcessing, MarkBaseProcessing, OpenSource, RefuseUpload, StageFile,
       CommitFile, WriteMetadata, EmitEvent, MarkVersionCompleted, MarkBaseCompleted,
       CloseStores, MarkVersionFailed, MarkBaseFailed, DeadLetter, ReceiveFails, Fail,
       MarkFailedLost, DeadLetterFails, Step, PCs, TryRegion
  <2>3. \/ job' = job
        \/ \E v, d : job' = [job EXCEPT ![w].version = v, ![w].day = d]
        \/ \E r : job' = [job EXCEPT ![w].rev = r]
        \/ \E e : job' = [job EXCEPT ![w].exc = e]
    BY <1>3 DEF EndStep, Work, WorkerStep, WorkerFault, RejectBody, ResolveVersion,
       MarkVersionProcessing, MarkBaseProcessing, OpenSource, RefuseUpload, StageFile,
       CommitFile, WriteMetadata, EmitEvent, MarkVersionCompleted, MarkBaseCompleted,
       CloseStores, MarkVersionFailed, MarkBaseFailed, DeadLetter, ReceiveFails, Fail,
       MarkFailedLost, DeadLetterFails, Step, Raise
  <2>4. job'[w].key = job[w].key /\ \A v \in Workers : v # w => job'[v] = job[v]
    BY <1>0, <2>3 DEF Job
  <2>5. NoNewMessage
    BY <2>1 DEF NoNewMessage, Live
  <2> QED BY <1>0, <1>1, <2>2, <2>4, <2>5 DEF Goto
<1> QED BY <1>2, <1>3

\* Only a send puts a file to work that was not.
LEMMA NewWorkIsSent ==
  ASSUME IInv, [Next]_vars, NEW k \in Keys, AtWork(k)'
  PROVE  AtWork(k) \/ (SendWorkItem /\ k = current)
<1> USE KeysAssumption
<1>1. CASE UNCHANGED job /\ NoNewMessage
  BY <1>1 DEF AtWork, NoNewMessage
<1>2. ASSUME NEW w \in Workers, Deliver(w)
      PROVE  AtWork(k)
  <2>1. PICK m \in MsgIds : Receive(w, m)
    BY <1>2 DEF Deliver
  <2>2. /\ job' = [job EXCEPT ![w] = [NoJob EXCEPT !.msg = m, !.key = msgs[m].body]]
        /\ ReceiveMessage(w, m) /\ Live(m)
    BY <2>1 DEF Receive, ReceiveMessage, Live
  <2>3. \A v \in Workers : job'[v].key \in {job[v].key, msgs[m].body}
    BY <2>2 DEF IInv, TypeOK, WorkerTypeOK, NoJob
  <2>4. NoNewMessage
    BY <2>2, QueueTakesNothingIn
  <2> QED BY <2>2, <2>3, <2>4 DEF AtWork, NoNewMessage
<1>3. ASSUME NEW w \in Workers, Work(w)
      PROVE  AtWork(k)
  BY <1>3, WorkKeepsKey DEF AtWork, NoNewMessage
<1>4. CASE World
  <2>1. job' = job
    BY <1>4 DEF World, workerVars
  <2>2. CASE SendMessage(None)
    BY <2>1, <2>2, SendTakesOneIn DEF AtWork
  <2>3. CASE UNCHANGED msgs
    BY <1>1, <2>1, <2>3 DEF NoNewMessage, Live
  <2>4. CASE \E m \in MsgIds : msgs[m].status = "locked" /\ GiveBack(m)
    BY <1>1, <2>1, <2>4, GiveBackTakesNothingIn
  <2> QED BY <1>4, <2>2, <2>3, <2>4 DEF World, OrphanExpires, LockLost
<1>5. CASE Dispatch /\ SendWorkItem
  <2>1. job' = job
    BY <1>5 DEF Dispatch, workerVars
  <2>2. SendMessage(current) /\ current \in Keys
    BY <1>5 DEF SendWorkItem, IInv, DispatcherInv
  <2> QED BY <1>5, <2>1, <2>2, SendTakesOneIn DEF AtWork
<1>6. CASE Tick \/ (Dispatch /\ ~ SendWorkItem) \/ Finished \/ UNCHANGED vars
  <2>1. UNCHANGED <<job, msgs>>
    BY <1>6 DEF Tick, TimerTick, Dispatch, DispatcherStep, DispatcherFault, ReadPage,
       ReadLastPage, LoseToken, CoverKeys, ListFails, EndRun, FilterFile, QueueFile,
       SkipUndated, RejectWorkItem, AbortRun, Finished, vars, workerVars
  <2> QED BY <1>1, <2>1 DEF NoNewMessage, Live
<1> QED BY <1>2, <1>3, <1>4, <1>5, <1>6, Zenon DEF Next
---------------------------------------------------------------------------
(* What is skipped was ingested. *)

LEMMA InitSlowInv == Init => SlowInv
<1> SUFFICES ASSUME Init PROVE SlowInv
  OBVIOUS
<1> USE DEF Init, DispatcherInit, TrackingInit, EnvInit, WorkerInit
<1>1. RunOrder /\ Ahead = {}
  BY DEF RunOrder, InHand, NothingListed, Ahead
<1>2. \A w \in Workers : FetchedIsFresh(w)
  BY DEF FetchedIsFresh, NoJob, Fetched, Stored, Announced
<1> QED BY <1>1, <1>2 DEF SlowInv, SkippedMeansIngested

\* A run starts when nobody is at work.
LEMMA NobodyAtWork ==
  ASSUME IInv, SlowInv, Settled, NEW k \in Keys
  PROVE  ~ AtWork(k)
BY KeysAssumption DEF SlowInv, FetchedIsFresh, Settled, Drained, AtWork, Live

\* No file the run may still queue is at work after any step.
LEMMA NextAhead ==
  ASSUME IInv, SlowInv, [Next]_vars, SlowTimer, SitesOnce
  PROVE  RunOrder' /\ \A k \in Ahead' : ~ AtWork(k)'
<1> USE SitesTyped, KeysAssumption
<1>0. RunOrder /\ src \in [Keys -> 0 .. MaxRev] /\ listed \in [Keys -> 0 .. MaxRev]
      /\ Ahead \subseteq Keys
  BY DEF SlowInv, IInv, TypeOK, EnvTypeOK, DispatcherTypeOK, Ahead, InHand, Later
<1>1. CASE Tick
  <2>1. RunOrder'
    BY <1>0, <1>1 DEF Tick, TimerTick, RunOrder, InHand, listVars, envVars
  <2>2. Settled /\ UNCHANGED <<job, msgs>>
    BY <1>1 DEF Tick, TimerTick, SlowTimer, workerVars
  <2>3. \A k : AtWork(k)' = AtWork(k)
    BY <2>2 DEF AtWork, Live
  <2>4. Ahead' \subseteq Keys
    BY <1>0, <1>1 DEF Tick, TimerTick, Ahead, InHand, Later, listVars, IInv, TypeOK,
       DispatcherTypeOK
  <2> QED BY <2>1, <2>2, <2>3, <2>4, NobodyAtWork
<1>2. CASE Dispatch
  <2>1. RunOrder' /\ Ahead' \subseteq Ahead
    BY <1>0, <1>2, DispatchKeepsOrder
  <2>2. \A k \in Ahead' : AtWork(k)' => AtWork(k)
    BY <1>0, <2>1, NewWorkIsSent, SentOnce
  <2> QED BY <2>1, <2>2 DEF SlowInv
<1>3. CASE UNCHANGED dispatcherVars /\ \A k \in Keys : src'[k] >= src[k] /\ src'[k] \in Nat
  <2>1. RunOrder' /\ Ahead' = Ahead
    BY <1>0, <1>3 DEF RunOrder, Ahead, InHand, Later, dispatcherVars, listVars
  <2>2. ~ SendWorkItem
    BY <1>3 DEF SendWorkItem, AfterQueue, dispatcherVars
  <2>3. \A k \in Ahead' : AtWork(k)' => AtWork(k)
    BY <1>0, <2>1, <2>2, NewWorkIsSent
  <2> QED BY <2>1, <2>3 DEF SlowInv
<1>4. ASSUME NEW w \in Workers, Deliver(w) \/ Work(w)
      PROVE  UNCHANGED dispatcherVars /\ \A k \in Keys : src'[k] >= src[k] /\ src'[k] \in Nat
  <2>1. src' = src
    BY <1>4, WorkKeepsKey DEF Deliver, Receive, envVars
  <2>2. UNCHANGED dispatcherVars
    BY <1>4 DEF Deliver, Work
  <2> QED BY <1>0, <2>1, <2>2, BoundsAssumption
<1>5. CASE World \/ Finished \/ UNCHANGED vars
  <2>1. \A k \in Keys : src'[k] >= src[k] /\ src'[k] \in Nat
    BY <1>0, <1>5 DEF World, PutObject, NextDay, OrphanExpires, Fault, Finished, vars, envVars
  <2> QED BY <1>3, <1>5, <2>1 DEF World, Finished, vars
<1> QED BY <1>1, <1>2, <1>3, <1>4, <1>5, Zenon DEF Next

\* A step of an invocation on the base entity of its file.
LEMMA WorkOnBase ==
  ASSUME IInv, NEW w \in Workers, Work(w)
  PROVE  /\ \A k \in Keys : base'[k].lm = base[k].lm
         /\ \A k \in Keys : base'[k].status = "completed" =>
              \/ base[k].status = "completed"
              \/ pc[w] = "doneB" /\ job[w].key = k
         /\ events \subseteq events'
<1>1. events \subseteq events'
  BY WorkerGrows DEF Work, SharedGrows
<1>2. CASE UNCHANGED base
  BY <1>1, <1>2
<1>3. CASE MarkBaseProcessing(w) \/ MarkBaseCompleted(w) \/ MarkBaseFailed(w)
  <2>1. base \in [Keys -> BaseEntity] /\ job[w].key \in Keys \cup {None}
    BY DEF IInv, TypeOK, TrackingTypeOK, WorkerTypeOK, Job
  <2>2. PICK s : SetBaseStatus(job[w].key, s) /\ (s = "completed" => pc[w] = "doneB")
    BY <1>3 DEF MarkBaseProcessing, MarkBaseCompleted, MarkBaseFailed, Step
  <2> QED BY <1>1, <2>1, <2>2 DEF SetBaseStatus, BaseEntity
<1>4. ASSUME ~ (MarkBaseProcessing(w) \/ MarkBaseCompleted(w) \/ MarkBaseFailed(w))
      PROVE  UNCHANGED base
  BY <1>4 DEF Work, WorkerStep, WorkerFault, RejectBody, ResolveVersion, MarkVersionProcessing,
     OpenSource, RefuseUpload, StageFile, CommitFile, WriteMetadata,
     EmitEvent, MarkVersionCompleted, CloseStores, MarkVersionFailed,
     DeadLetter, Return, Escape, ReceiveFails, Fail, MarkFailedLost,
     DeadLetterFails, Crash, Finish, SetVersionStatus, CompleteVersion, trackVars
<1> QED BY <1>2, <1>3, <1>4

\* An invocation fetches the revision the bucket shows and keeps it.
LEMMA WorkOnRevision ==
  ASSUME IInv, NEW w \in Workers, Work(w)
  PROVE  /\ pc'[w] = "idle" => job'[w].key = None
         /\ pc'[w] \in Fetched =>
              /\ job'[w].key = job[w].key /\ job[w].key \in Keys
              /\ \/ pc[w] \in Fetched /\ job'[w].rev = job[w].rev
                 \/ job'[w].rev = src[job[w].key]
<1> USE DEF Fetched, Stored, Announced
<1>0. /\ job \in [Workers -> Job] /\ pc \in [Workers -> PCs] /\ NoJob.key = None
      /\ WorkerInv(w)
  BY DEF IInv, TypeOK, WorkerTypeOK, NoJob
<1>1. CASE EndStep(w)
  BY <1>0, <1>1 DEF EndStep, Return, Escape, Crash, Finish, Goto
<1>2. CASE OpenSource(w)
  BY <1>0, <1>2 DEF OpenSource, Goto, Job, WorkerInv, Resolved
<1>3. CASE \/ TrackStep(w) \/ BronzeStep(w) \/ CloseStores(w)
           \/ EmitEvent(w) \/ DeadLetterFails(w)
  <2>1. PICK from, to : /\ Step(w, from, to)
                        /\ to # "idle" /\ (to \in Fetched => from \in Fetched)
    BY <1>3
    DEF TrackStep, BronzeStep, CloseStores, MarkVersionProcessing,
        MarkBaseProcessing, StageFile, CommitFile, WriteMetadata, EmitEvent,
        MarkVersionCompleted, MarkBaseCompleted, MarkVersionFailed, MarkBaseFailed,
        DeadLetterFails
  <2> QED BY <1>0, <2>1 DEF Step, Goto, WorkerInv, Resolved
<1>4. CASE LocalStep(w) /\ ~ OpenSource(w) /\ ~ CloseStores(w)
  BY <1>0, <1>4
  DEF LocalStep, ReceiveFails, RejectBody, ResolveVersion, RefuseUpload, MarkFailedLost,
      Fail, Step, Goto, Raise
<1>5. CASE DeadLetter(w)
  BY <1>0, <1>5 DEF DeadLetter, Goto
<1> QED BY <1>1, <1>2, <1>3, <1>4, <1>5
        DEF Work, WorkerStep, WorkerFault, LocalStep, TrackStep, BronzeStep, OutStep, EndStep

LEMMA NextSlowInv ==
  ASSUME SlowTimer, SitesOnce
  PROVE  IInv /\ SlowInv /\ [Next]_vars => SlowInv'
<1> SUFFICES ASSUME IInv, SlowInv, [Next]_vars PROVE SlowInv'
  OBVIOUS
<1> USE KeysAssumption
<1> DEFINE Order == RunOrder' /\ \A k \in Ahead' : ~ AtWork(k)'
           Base  == \A k \in Keys : base'[k].lm <= src'[k]
           Fresh == \A v \in Workers : FetchedIsFresh(v)'
<1>0. /\ base \in [Keys -> BaseEntity] /\ src \in [Keys -> 0 .. MaxRev]
      /\ listed \in [Keys -> 0 .. MaxRev]
      /\ job \in [Workers -> Job]
      /\ \A k \in Keys : base[k].lm \in Nat /\ src[k] \in Nat
      /\ \A w \in Workers : job[w].rev \in Nat /\ job[w].key \in Keys \cup {None}
      /\ \A e \in events : e.rev \in Nat
      /\ \A w \in Workers : pc[w] \in Fetched => job[w].key \in Keys
      /\ \A k \in Keys : base[k].lm <= src[k]
      /\ SkippedMeansIngested
  <2>1. TypeOK /\ \A w \in Workers : WorkerInv(w)
    BY DEF IInv
  <2>2. /\ base \in [Keys -> BaseEntity] /\ src \in [Keys -> 0 .. MaxRev]
        /\ listed \in [Keys -> 0 .. MaxRev] /\ job \in [Workers -> Job]
        /\ events \subseteq Event
    BY <2>1 DEF TypeOK, TrackingTypeOK, EnvTypeOK, DispatcherTypeOK, WorkerTypeOK
  <2>3. \A k \in Keys : base[k].lm \in Nat /\ src[k] \in Nat
    BY <2>2, BoundsAssumption DEF BaseEntity
  <2>4. \A w \in Workers : job[w].rev \in Nat /\ job[w].key \in Keys \cup {None}
    BY <2>2, BoundsAssumption DEF Job
  <2>5. \A e \in events : e.rev \in Nat
    BY <2>2 DEF Event, Revs
  <2>6. \A w \in Workers : pc[w] \in Fetched => job[w].key \in Keys
    BY <2>1 DEF WorkerInv, Resolved
  <2> QED BY <2>2, <2>3, <2>4, <2>5, <2>6 DEF SlowInv
<1>1. Order
  BY NextAhead
<1>2. ASSUME NEW k \in Keys, QueueFile(k), UNCHANGED <<workerVars, outVars>>
      PROVE  Base /\ Fresh /\ SkippedMeansIngested'
  <2>1. base' = [base EXCEPT ![k] = [status |-> "queued", lm |-> listed[k]]]
    BY <1>2 DEF QueueFile, MarkQueued
  <2>2. src' = src /\ events' = events /\ job' = job /\ pc' = pc
    BY <1>2 DEF QueueFile, envVars, workerVars, outVars
  <2>3. ~ AtWork(k)
    BY <1>2 DEF QueueFile, SlowInv, Ahead, InHand
  <2>4. \A l \in Keys : l # k => base'[l] = base[l]
    BY <1>0, <2>1
  <2>5. base'[k].status = "queued" /\ base'[k].lm = listed[k] /\ listed[k] <= src[k]
    BY <1>0, <2>1 DEF SlowInv, RunOrder
  <2>6. Base
    BY <1>0, <2>2, <2>4, <2>5
  <2>7. Fresh
    BY <1>0, <2>2, <2>3, <2>4 DEF SlowInv, FetchedIsFresh, AtWork
  <2>8. SkippedMeansIngested'
    BY <1>0, <2>2, <2>4, <2>5 DEF SkippedMeansIngested
  <2> QED BY <2>6, <2>7, <2>8
<1>3. ASSUME UNCHANGED base, events' = events, \A k \in Keys : src'[k] \in Nat /\ src'[k] >= src[k],
             \A v \in Workers : \/ pc'[v] = pc[v] /\ job'[v] = job[v]
                                \/ pc'[v] = "resolve"
      PROVE  Base /\ Fresh /\ SkippedMeansIngested'
  <2>1. Base /\ SkippedMeansIngested'
    BY <1>0, <1>3 DEF SkippedMeansIngested
  <2>2. Fresh
    BY <1>0, <1>3 DEF SlowInv, FetchedIsFresh, Fetched, Stored, Announced
  <2> QED BY <2>1, <2>2
<1>4. ASSUME Tick \/ Dispatch
      PROVE  Base /\ Fresh /\ SkippedMeansIngested'
  <2>1. UNCHANGED <<workerVars, outVars>> /\ src' = src
    BY <1>4, DispatchKeepsOrder DEF SlowInv, Tick, TimerTick, Dispatch, envVars
  <2>2. CASE UNCHANGED base
    BY <1>0, <1>3, <2>1, <2>2 DEF workerVars, outVars
  <2>3. CASE \E k \in Keys : QueueFile(k)
    BY <1>2, <2>1, <2>3
  <2> QED BY <1>4, <2>2, <2>3
      DEF Tick, TimerTick, Dispatch, DispatcherStep, DispatcherFault, ReadPage,
          ReadLastPage, LoseToken, CoverKeys, ListFails, EndRun, FilterFile, SendWorkItem,
          SkipUndated, RejectWorkItem, AbortRun, trackVars
<1>5. ASSUME NEW w \in Workers, Deliver(w)
      PROVE  Base /\ Fresh /\ SkippedMeansIngested'
  <2>1. /\ UNCHANGED <<base, events, src>>
        /\ \A v \in Workers : \/ pc'[v] = pc[v] /\ job'[v] = job[v]
                              \/ pc'[v] = "resolve"
    BY <1>5 DEF Deliver, Receive, Goto, trackVars, outVars, envVars, IInv, TypeOK, WorkerTypeOK
  <2> QED BY <1>0, <1>3, <2>1
<1>6. ASSUME NEW w \in Workers, Work(w)
      PROVE  Base /\ Fresh /\ SkippedMeansIngested'
  <2>1. src' = src /\ \A v \in Workers : v # w => job'[v] = job[v] /\ pc'[v] = pc[v]
    BY <1>6, WorkKeepsKey
  <2>2. /\ \A k \in Keys : base'[k].lm = base[k].lm
        /\ \A k \in Keys : base'[k].status = "completed" =>
             base[k].status = "completed" \/ (pc[w] = "doneB" /\ job[w].key = k)
        /\ events \subseteq events'
    BY <1>6, WorkOnBase
  <2>3. Base
    BY <1>0, <2>1, <2>2
  <2>4. FetchedIsFresh(w)'
    BY <1>0, <1>6, <2>1, <2>2, WorkOnRevision DEF SlowInv, FetchedIsFresh
  <2>5. Fresh
    BY <1>0, <2>1, <2>2, <2>4 DEF SlowInv, FetchedIsFresh
  <2>6. SkippedMeansIngested'
    <3> SUFFICES ASSUME NEW k \in Keys, base'[k].status = "completed"
                 PROVE  \E e \in events' : e.key = k /\ e.rev >= base'[k].lm
      BY DEF SkippedMeansIngested
    <3>1. CASE base[k].status = "completed"
      BY <1>0, <2>2, <3>1 DEF SkippedMeansIngested
    <3>2. CASE pc[w] = "doneB" /\ job[w].key = k
      <4>1. EventOf(w) \in events /\ job[w].rev >= base[k].lm
        BY <3>2 DEF IInv, WorkerInv, SlowInv, FetchedIsFresh, Fetched, Stored, Announced
      <4>2. EventOf(w).key = k /\ EventOf(w).rev = job[w].rev
        BY <3>2 DEF EventOf
      <4> QED BY <2>2, <4>1, <4>2
    <3> QED BY <2>2, <3>1, <3>2
  <2> QED BY <2>3, <2>5, <2>6
<1>7. ASSUME World \/ Finished \/ UNCHANGED vars
      PROVE  Base /\ Fresh /\ SkippedMeansIngested'
  <2>1. \A k \in Keys : src'[k] \in Nat /\ src'[k] >= src[k]
    BY <1>0, <1>7 DEF World, PutObject, NextDay, OrphanExpires, Fault, Finished, vars, envVars
  <2>2. UNCHANGED <<trackVars, workerVars, outVars>>
    BY <1>7 DEF World, Finished, vars
  <2> QED BY <1>0, <1>3, <2>1, <2>2 DEF trackVars, workerVars, outVars
<1>8. Base /\ Fresh /\ SkippedMeansIngested'
  <2> HIDE DEF Base, Fresh
  <2> QED BY <1>4, <1>5, <1>6, <1>7, Zenon DEF Next
<1> QED BY <1>1, <1>8 DEF SlowInv

\* What the dispatcher skips as already processed was announced, at the listed
\* revision or a later one, provided no run starts before the work of the last
\* is done and no site is configured twice: whatever fails, is redelivered,
\* republished or runs in parallel.
THEOREM SkippedIsIngested ==
  ASSUME SlowTimer, SitesOnce
  PROVE  Spec => []SkippedMeansIngested
<1>1. SlowInv => SkippedMeansIngested
  BY DEF SlowInv
<1> QED BY Invariance, InitSlowInv, NextSlowInv, <1>1, PTL DEF Spec
===========================================================================
