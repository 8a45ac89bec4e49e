---------------------------- MODULE SiteListing ----------------------------
(***************************************************************************)
(* A run of the dispatcher with list_csv_files in full: each request of a  *)
(* page with its retries, the continuation token between pages, and which  *)
(* of the ways a request can end skip the site and which end the run.      *)
(* After the listing the run goes on as in Dispatcher, which this module   *)
(* implements.  A worker is reduced to one step per work item, with what   *)
(* it leaves of the message and of the base entity; its own steps and its  *)
(* redeliveries are in Worker.                                             *)
(***************************************************************************)
EXTENDS FileTracking, WorkQueue, Environment, HttpRetry

CONSTANTS
    ObjectsOf,      \* a site's entries in S3's order; None: one that is no CSV file
    PageSize,       \* entries of a full page
    OutageAnswers   \* what the sites that are down answer

ASSUME ObjectsAssumption ==
    /\ ObjectsOf \in [Sites -> Seq(Keys \cup {None})]
    /\ PageSize \in Nat \ {0}

\* A site's entries are the files under its prefix, each once.
ASSUME PrefixAssumption ==
    /\ \A k \in Keys : \E i \in DOMAIN ObjectsOf[SiteOf[k]] : ObjectsOf[SiteOf[k]][i] = k
    /\ \A s \in Sites : \A i, j \in DOMAIN ObjectsOf[s] :
         ObjectsOf[s][i] # None =>
            /\ SiteOf[ObjectsOf[s][i]] = s
            /\ ObjectsOf[s][i] = ObjectsOf[s][j] => i = j

VARIABLES
    dpc, site, listed, toCheck, toQueue, current,   \* as in Dispatcher
    token,      \* position of the last entry of the pages read so far
    attempt     \* attempt at the next page

runVars    == <<dpc, site, listed, toCheck, toQueue, current>>
requestVars == <<token, attempt>>

\* The site whose listing is in progress, or is the next one, and its entries.
Serving == IF dpc = "page" THEN site ELSE site + 1
Objects == ObjectsOf[SiteIds[Serving]]

\* Keys whose position is past that of the token.
Unread == IF dpc = "page"
          THEN {Objects[i] : i \in {j \in DOMAIN Objects : j > token}} \ {None}
          ELSE {}

Run == INSTANCE Dispatcher WITH unread <- Unread

ListingTypeOK ==
    /\ TrackingTypeOK
    /\ QueueTypeOK
    /\ EnvTypeOK
    /\ Run!DispatcherTypeOK
    /\ token \in Nat
    /\ attempt \in Attempts

Fresh == token = 0 /\ attempt = 1

ListingInit ==
    /\ TrackingInit
    /\ QueueInit
    /\ EnvInit
    /\ Fresh
    /\ Run!DispatcherInit
----------------------------------------------------------------------------
\* Slip: the token is not sent along, so every page is the first.
FromTheStart == 0

\* The request for a page says after which entry it starts.
Start == IF dpc = "page" THEN token ELSE 0

\* Entries S3 has now, past the token.
Entries == {i \in DOMAIN Objects : i > Start /\ (Objects[i] # None => src[Objects[i]] # 0)}

\* A full page ends with entry p, and there is more.
FullPage(p) ==
    /\ p \in Entries
    /\ Cardinality({i \in Entries : i <= p}) = PageSize
    /\ \E i \in Entries : i > p

\* Keys of the entries from Start up to position p.
KeysTo(p) == {Objects[i] : i \in {j \in DOMAIN Objects : Start < j /\ j <= p}} \ {None}

\* The next request is a new one, for the entries past t.
NextRequest(t) == token' = t /\ attempt' = 1

AskAgain(a) ==
    /\ Verdict(attempt, a) = "again"
    /\ attempt' = attempt + 1
    /\ UNCHANGED <<token, runVars, trackVars, msgs, envVars>>

\* IsTruncated, with a token.
ReadPage ==
    /\ \E p \in DOMAIN Objects :
        /\ FullPage(p)
        /\ NextRequest(p)
        /\ Run!CoverKeys(KeysTo(p))
    /\ dpc' = "page"
    /\ UNCHANGED envVars

\* list_csv_files returns what it has.
Return ==
    /\ NextRequest(0)
    /\ dpc' = IF toCheck' = {} THEN "list" ELSE "filter"

ReadLastPage ==
    /\ \A p \in DOMAIN Objects : ~ FullPage(p)
    /\ Run!CoverKeys(KeysTo(Len(Objects)))
    /\ Return
    /\ UNCHANGED envVars

\* IsTruncated without a token: as if this page were the last.
LoseToken ==
    /\ \E p \in DOMAIN Objects : FullPage(p) /\ Run!CoverKeys(KeysTo(p))
    /\ Return
    /\ Fault

\* No answer to the last attempt, or a 404: what earlier pages gave is dropped.
SkipSite(a) ==
    /\ a = "notFound" \/ Verdict(attempt, a) = "giveUp"
    /\ NextRequest(0)
    /\ Run!ListFails

\* Only OediHistoricalAccessError is caught per site: anything else, a page that is
\* no XML included, ends the run.  A site that is down may do so at no cost.
EscapeFrom(a) ==
    /\ Verdict(attempt, a) = "escape"
    /\ NextRequest(0)
    /\ Run!EndOfRun
    /\ IF SiteIds[Serving] \in DownSites /\ a \in OutageAnswers THEN UNCHANGED envVars
                                                               ELSE Fault
    /\ UNCHANGED <<trackVars, msgs>>

\* One attempt at the next page, however it is answered.
Request ==
    /\ Run!Listing
    /\ \/ ReadPage
       \/ ReadLastPage
       \/ LoseToken
       \/ \E a \in Answers : AskAgain(a) \/ SkipSite(a) \/ EscapeFrom(a)

\* The rest of the run makes no requests.
ServeFiles ==
    /\ UNCHANGED requestVars
    /\ \/ Run!EndRun
       \/ \E k \in Keys : Run!FilterFile(k) \/ Run!QueueFile(k)
       \/ Run!SendWorkItem

Disturb ==
    \/ /\ UNCHANGED requestVars
       /\ \/ \E k \in Keys : Run!SkipUndated(k)
          \/ Run!RejectWorkItem
    \/ NextRequest(0) /\ Run!AbortRun

Tick ==
    /\ Drained
    /\ UNCHANGED requestVars
    /\ Run!TimerTick

\* A worker is through with a work item, after however many deliveries.
EndItem(m, status) ==
    /\ msgs[m].status = "ready"
    /\ msgs' = [msgs EXCEPT ![m].status = "done"]
    /\ SetBaseStatus(msgs[m].body, status)
    /\ UNCHANGED <<requestVars, runVars>>

\* The file is ingested.
Consume(m) == EndItem(m, "completed") /\ UNCHANGED envVars

\* Or dead-lettered; mark_processing or mark_failed may not have got through.
GiveUpItem(m) ==
    /\ \E s \in {"queued", "processing", "failed"} : EndItem(m, s)
    /\ Fault

Publish(k) ==
    /\ PutObject(k)
    /\ UNCHANGED <<requestVars, runVars, trackVars, msgs>>

listingVars == <<requestVars, runVars, trackVars, msgs, envVars>>

\* Every message slot a run may need is used: the model's end.
ListingFinished ==
    /\ dpc = "idle" /\ Drained
    /\ Cardinality(FreeSlots) < RunSize
    /\ UNCHANGED listingVars

ListingNext ==
    \/ Tick \/ Request \/ ServeFiles \/ Disturb
    \/ \E m \in MsgIds : Consume(m) \/ GiveUpItem(m)
    \/ \E k \in Keys : Publish(k)
    \/ ListingFinished

ListingSpec == ListingInit /\ [][ListingNext]_listingVars

\* A run goes on however S3 answers, and workers get to their items.
RunFairness ==
    /\ WF_listingVars(Request)
    /\ WF_listingVars(ServeFiles)
    /\ WF_listingVars(\E m \in MsgIds : Consume(m))
----------------------------------------------------------------------------
\* Page by page, with tokens and retries, a run does what the abstract dispatcher
\* may do: a page never gives a key a second time, and the last one misses none.
ImplementsDispatcher == Run!DispatcherSpec

\* A run ends, although each request is retried and the bucket keeps changing.
RunEnds == dpc # "idle" ~> dpc = "idle"

\* A site that is down, even for ever, does not keep the others from being ingested.
OutageContained ==
    \A k \in Keys, r \in Revs :
        SiteOf[k] \notin DownSites =>
            (src[k] = r ~> base[k].status = "completed" /\ base[k].lm >= r)
============================================================================
