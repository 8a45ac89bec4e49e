----------------------------- MODULE Ingestion -----------------------------
(***************************************************************************)
(* The whole pipeline: the bucket, the dispatcher, the work-item queue,    *)
(* the workers, the tracking table, the bronze container and the two       *)
(* queues the workers write to.                                            *)
(***************************************************************************)
EXTENDS Dispatcher, Worker

vars == <<trackVars, msgs, envVars, dispatcherVars, workerVars, bronzeVars, outVars>>

TypeOK ==
    /\ TrackingTypeOK
    /\ QueueTypeOK
    /\ EnvTypeOK
    /\ DispatcherTypeOK
    /\ BronzeTypeOK
    /\ WorkerTypeOK

Init ==
    /\ TrackingInit
    /\ QueueInit
    /\ EnvInit
    /\ DispatcherInit
    /\ BronzeInit
    /\ WorkerInit
---------------------------------------------------------------------------
Settled == dpc = "idle" /\ Drained /\ \A w \in Workers : pc[w] = "idle"

\* Without overlap the timer's period is longer than a run and all its work.
Tick ==
    /\ TimerOverlaps \/ Settled
    /\ TimerTick
    /\ UNCHANGED <<bronzeVars, workerVars, outVars>>

Dispatch ==
    /\ DispatcherStep \/ DispatcherFault
    /\ UNCHANGED <<bronzeVars, workerVars, outVars>>

Deliver(w) ==
    /\ \E m \in MsgIds : Receive(w, m)
    /\ UNCHANGED dispatcherVars

Work(w) ==
    /\ WorkerStep(w) \/ WorkerFault(w)
    /\ UNCHANGED dispatcherVars

\* The bucket's owner, the calendar, the broker and other senders.
World ==
    /\ \/ \E k \in Keys : PutObject(k) /\ UNCHANGED msgs
       \/ NextDay /\ UNCHANGED msgs
       \/ \E m \in MsgIds : OrphanExpires(m) /\ UNCHANGED envVars
       \/ \E m \in MsgIds : LockLost(m) /\ Fault
       \/ \* A message that is no work item; a run in progress keeps its slots.
          /\ Cardinality(FreeSlots) > RunSize
          /\ SendMessage(None)
          /\ Fault
    /\ UNCHANGED <<trackVars, dispatcherVars, bronzeVars, workerVars, outVars>>

\* Every message slot is used and all work is done: the model's end.
Finished ==
    /\ Settled
    /\ Cardinality(FreeSlots) < RunSize
    /\ UNCHANGED vars

Next ==
    \/ Tick
    \/ Dispatch
    \/ \E w \in Workers : Deliver(w) \/ Work(w)
    \/ World
    \/ Finished

Spec == Init /\ [][Next]_vars

(***************************************************************************)
(* Fairness is what the platform promises: the timer fires, a run and an   *)
(* invocation that can proceed do, a ready message reaches some idle       *)
(* instance, an abandoned lock expires.  Nothing that goes wrong is fair.  *)
(***************************************************************************)
Fairness ==
    /\ WF_vars(Tick)
    /\ WF_vars(DispatcherStep /\ UNCHANGED <<bronzeVars, workerVars, outVars>>)
    /\ \A w \in Workers :
        /\ WF_vars(Deliver(w))
        /\ WF_vars(WorkerStep(w) /\ UNCHANGED dispatcherVars)
    /\ WF_vars(/\ \E m \in MsgIds : OrphanExpires(m) /\ UNCHANGED envVars
               /\ UNCHANGED <<trackVars, dispatcherVars, bronzeVars, workerVars, outVars>>)

FairSpec == Spec /\ Fairness

\* Less than that: while there is a message to work on, some host or the broker acts.
Serve ==
    \/ \E w \in Workers : Deliver(w) \/ (WorkerStep(w) /\ UNCHANGED dispatcherVars)
    \/ /\ \E m \in MsgIds : OrphanExpires(m) /\ UNCHANGED envVars
       /\ UNCHANGED <<trackVars, dispatcherVars, bronzeVars, workerVars, outVars>>

ServingSpec == Spec /\ WF_vars(Serve)
---------------------------------------------------------------------------
(***************************************************************************)
(* Safety.                                                                 *)
(***************************************************************************)
\* A version the table calls completed was announced, with the very hash and
\* path the table records: historical_worker emits before mark_completed
\* however often attempts are repeated or run side by side.
CompletedMeansPublished ==
    \A k \in Keys, v \in Versions :
        ver[k][v].status = "completed" =>
            \E e \in events : /\ e.key = k /\ e.version = v
                             /\ e.rev = ver[k][v].rev /\ e.day = ver[k][v].day

\* The blob an event points to was committed for the event's own S3 key, although
\* keys of one dataset share paths: the identity guard, across attempts.
EventPointsToOwnFile ==
    \A e \in events : csv[PathOf(e.key, e.day, e.version)].key = e.key

\* The sidecar of a dataset and day names a version whose CSV is there, for the
\* sidecar's own key, although any key and version of the day may overwrite it.
SidecarDescribesOwnFile ==
    \A p \in MetaPaths :
        meta[p] # NoMeta =>
            csv[[dataset |-> p.dataset, day |-> p.day, version |-> meta[p].version]].key
                = meta[p].key

HasPredecessor(k, v) == v > 1 => \E e \in events : e.key = k /\ e.version = v - 1

\* The versions announced for a key are 1 .. n: none is skipped, whatever is
\* completed, failed or demoted meanwhile.
PublishedVersionsContiguous == \A e \in events : HasPredecessor(e.key, e.version)

Recorded(m) == m \in dead \/ \E e \in events : e.msg = m

\* A message the host has completed left a trace: its event, or an entry on the
\* dead-letter queue.
NoSilentDrop ==
    \A m \in MsgIds :
        msgs[m].status = "done" => Recorded(m)

\* What the dispatcher skips as already processed was announced, at the listed
\* revision or a later one.
SkippedMeansIngested ==
    \A k \in Keys :
        base[k].status = "completed" =>
            \E e \in events : e.key = k /\ e.rev >= base[k].lm

\* The same once the run has ended and every message is settled: a revision the
\* next run will skip was announced.
NoRevisionForgotten == Settled => SkippedMeansIngested

\* Every event's hash is that of the bytes at its path.
EventMatchesBytes ==
    \A e \in events :
        csv[PathOf(e.key, e.day, e.version)].bytes = [key |-> e.key, rev |-> e.rev]

\* One event per CloudEvents id, which is a function of key and version.
OneEventPerId ==
    \A e, f \in events : e.key = f.key /\ e.version = f.version => e = f

\* Whatever is announced twice under one CloudEvents id is the same content: a
\* re-emission after a redelivery is a duplicate, not a new event.
SameIdSameContent ==
    \A e, f \in events : e.key = f.key /\ e.version = f.version => e.rev = f.rev

\* No content is announced under two versions.
NoContentTwice ==
    \A e, f \in events : e.key = f.key /\ e.rev = f.rev => e.version = f.version

\* The immutable record: once completed, a versioned entity never changes.
RecordsImmutable ==
    [][\A k \in Keys, v \in Versions :
         ver[k][v].status = "completed" => ver'[k][v] = ver[k][v]]_vars

Announcement(k, v, e) == [key |-> k, version |-> v, day |-> e.day, rev |-> e.rev]

CompletedRecords == {r \in Keys \X Versions : ver[r[1]][r[2]].status = "completed"}

\* What of the state those see who use the data.
ShownOwner     == [p \in DOMAIN csv |-> csv[p].key]
ShownSidecars  == [q \in DOMAIN meta |-> [key |-> meta[q].key, version |-> meta[q].version]]
ShownAnnounced == {Announcement(e.key, e.version, e) : e \in events}
ShownRecorded  == {Announcement(r[1], r[2], ver[r[1]][r[2]]) : r \in CompletedRecords}
ShownAnswered  == {m \in MsgIds : Recorded(m)}
ShownSettled   == {m \in MsgIds : msgs[m].status = "done"}

Shown == INSTANCE Catalogue WITH
    owner     <- ShownOwner,
    described <- ShownSidecars,
    announced <- ShownAnnounced,
    recorded  <- ShownRecorded,
    answered  <- ShownAnswered,
    settled   <- ShownSettled

\* To its users the pipeline is a catalogue: each step of a worker shows them a
\* single change at most, and only one the catalogue allows.
ImplementsCatalogue == Shown!Spec

\* Where nothing fails, versions are announced and recorded strictly in turn.
ImplementsOrderly == Shown!OrderlySpec
---------------------------------------------------------------------------
(***************************************************************************)
(* Liveness.                                                               *)
(***************************************************************************)
\* Every message ends, completed or on the broker's dead-letter queue: work on it
\* stops although attempts fail again, die or lose their lock.
QueueDrains == []<>Drained

\* A published revision is eventually announced, itself or a later one.
EveryRevisionAnnounced ==
    \A k \in Keys, r \in Revs :
        src[k] = r ~> \E e \in events : e.key = k /\ e.rev >= r

\* An announced version is eventually recorded as completed: no event stays
\* without its tracking record when an attempt dies between the two.
EveryEventRecorded ==
    \A k \in Keys, v \in Versions :
        (\E e \in events : e.key = k /\ e.version = v)
            ~> ver[k][v].status = "completed"
===========================================================================
