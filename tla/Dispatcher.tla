---------------------------- MODULE Dispatcher ----------------------------
(***************************************************************************)
(* historical_dispatcher: a timer-driven run over the configured sites.    *)
(* Each await is a step, so workers, the bucket and the calendar move      *)
(* between the pages of a listing, the table reads that filter it, the     *)
(* mark_queued of a file and the send of its work item.  The timer is a    *)
(* singleton: runs never overlap each other.                               *)
(***************************************************************************)
EXTENDS FileTracking, WorkQueue, Environment

VARIABLES
    dpc,        \* where the run stands
    site,       \* sites of the list served so far, the current one included
    unread,     \* keys of the current site that no page has covered yet
    listed,     \* LastModified of each file in the current site's listing
    toCheck,    \* listed files get_unprocessed_files has not looked up yet
    toQueue,    \* unprocessed files not queued yet
    current     \* the file whose work item is being built

listVars       == <<site, unread, listed>>
dispatcherVars == <<dpc, listVars, toCheck, toQueue, current>>

DispatcherTypeOK ==
    /\ dpc \in {"idle", "list", "page", "filter", "queue", "send"}
    /\ site \in 0 .. Len(SiteIds)
    /\ unread \subseteq Keys
    /\ listed \in [Keys -> 0 .. MaxRev]
    /\ toCheck \subseteq Keys
    /\ toQueue \subseteq Keys
    /\ current \in Keys \cup {None}

NothingListed == [k \in Keys |-> 0]

EndOfRun ==
    /\ dpc' = "idle"
    /\ site' = 0
    /\ unread' = {}
    /\ listed' = NothingListed
    /\ toCheck' = {}
    /\ toQueue' = {}
    /\ current' = None

DispatcherInit ==
    /\ dpc = "idle"
    /\ site = 0
    /\ unread = {}
    /\ listed = NothingListed
    /\ toCheck = {}
    /\ toQueue = {}
    /\ current = None
---------------------------------------------------------------------------
\* Bound: a run starts only while each file it may list could still get a message.
TimerTick ==
    /\ dpc = "idle"
    /\ Cardinality(FreeSlots) >= RunSize
    /\ dpc' = "list"
    /\ UNCHANGED <<listVars, toCheck, toQueue, current, trackVars, msgs, envVars>>

Listing == dpc = "page" \/ (dpc = "list" /\ site < Len(SiteIds))

\* Keys of the listing in progress, or of the next one, that are still to come.
Pending == IF dpc = "page" THEN unread ELSE KeysAt(site + 1)

\* A page of list_csv_files covers ks: those that exist are in it, as they are now.
CoverKeys(ks) ==
    /\ Listing
    /\ site' = IF dpc = "list" THEN site + 1 ELSE site
    /\ listed' = [k \in Keys |-> IF k \in ks THEN src[k]
                                 ELSE IF dpc = "page" THEN listed[k] ELSE 0]
    /\ toCheck' = toCheck \cup {k \in ks : src[k] # 0}
    /\ UNCHANGED <<toQueue, current, trackVars, msgs>>

EndListing ==
    /\ unread' = {}
    /\ dpc' = IF toCheck' = {} THEN "list" ELSE "filter"

\* IsTruncated, with a continuation token.
ReadPage(ks) ==
    /\ CoverKeys(ks)
    /\ unread' = Pending \ ks
    /\ dpc' = "page"
    /\ UNCHANGED envVars

ReadLastPage ==
    /\ CoverKeys(Pending)
    /\ EndListing
    /\ UNCHANGED envVars

\* IsTruncated without a continuation token: the listing ends early, unnoticed.
LoseToken(ks) ==
    /\ CoverKeys(ks)
    /\ EndListing
    /\ Fault

\* OediHistoricalAccessError or a 404, on any page: the site is skipped and the
\* run goes on.
ListFails ==
    /\ Listing
    /\ site' = IF dpc = "list" THEN site + 1 ELSE site
    /\ IF SiteIds[site'] \in DownSites THEN UNCHANGED envVars ELSE Fault
    /\ dpc' = "list"
    /\ unread' = {}
    /\ listed' = NothingListed
    /\ toCheck' = {}
    /\ UNCHANGED <<toQueue, current, trackVars, msgs>>

EndRun ==
    /\ dpc = "list" /\ site = Len(SiteIds)
    /\ EndOfRun
    /\ UNCHANGED <<trackVars, msgs, envVars>>

\* After the last file of a step, on to the next step of this site.
AfterQueue(queue)         == IF queue # {} THEN "queue" ELSE "list"
AfterFilter(check, queue) == IF check # {} THEN "filter" ELSE AfterQueue(queue)

\* One get_entity of get_unprocessed_files.
FilterFile(k) ==
    /\ dpc = "filter" /\ k \in toCheck
    /\ toCheck' = toCheck \ {k}
    /\ toQueue' = IF IsUnprocessed(k, listed[k]) THEN toQueue \cup {k} ELSE toQueue
    /\ dpc' = AfterFilter(toCheck', toQueue')
    /\ UNCHANGED <<listVars, current, trackVars, msgs, envVars>>

\* The listing has no LastModified for k: nothing is queued.
SkipUndated(k) ==
    /\ dpc = "queue" /\ k \in toQueue
    /\ Fault
    /\ toQueue' = toQueue \ {k}
    /\ dpc' = AfterQueue(toQueue')
    /\ UNCHANGED <<listVars, toCheck, current, trackVars, msgs>>

\* mark_queued comes before the send.
QueueFile(k) ==
    /\ dpc = "queue" /\ k \in toQueue
    /\ MarkQueued(k, listed[k])
    /\ toQueue' = toQueue \ {k}
    /\ current' = k
    /\ dpc' = "send"
    /\ UNCHANGED <<listVars, toCheck, msgs, envVars>>

SendWorkItem ==
    /\ dpc = "send"
    /\ SendMessage(current)
    /\ current' = None
    /\ dpc' = AfterQueue(toQueue)
    /\ UNCHANGED <<listVars, toCheck, toQueue, trackVars, envVars>>

\* The work item does not validate: marked queued, never sent.
RejectWorkItem ==
    /\ dpc = "send"
    /\ Fault
    /\ current' = None
    /\ dpc' = AfterQueue(toQueue)
    /\ UNCHANGED <<listVars, toCheck, toQueue, trackVars, msgs>>

\* Any other exception, a timeout or a host crash ends the run where it stands.
AbortRun ==
    /\ dpc # "idle"
    /\ Fault
    /\ EndOfRun
    /\ UNCHANGED <<trackVars, msgs>>

DispatcherStep ==
    \/ \E ks \in SUBSET Pending : ReadPage(ks)
    \/ ReadLastPage
    \/ EndRun
    \/ \E k \in Keys : FilterFile(k) \/ QueueFile(k)
    \/ SendWorkItem

DispatcherFault ==
    \/ \E ks \in SUBSET Pending : LoseToken(ks)
    \/ ListFails
    \/ \E k \in Keys : SkipUndated(k)
    \/ RejectWorkItem
    \/ AbortRun

\* A dispatcher among others: they may do anything that leaves its locals alone.
DispatcherSpec ==
    /\ DispatcherInit
    /\ [][TimerTick \/ DispatcherStep \/ DispatcherFault]_dispatcherVars
===========================================================================
