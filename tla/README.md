# TLA+ models of the PVDAQ historical ingestion

This directory holds a verification development of the function app in this
repository: TLA+ modules translated from the source, TLC configurations that
check them on small instances, and proofs, checked by TLAPS, that hold for every
value of the constants. `PROJECT.json` is the machine-readable index: components,
runs, the source lines each definition stands for, findings, hazards, theorems.
Paths below are relative to the repository root, with `src/` in front of them in
`PROJECT.json`.

## 1. The system

A timer-triggered *dispatcher* lists the CSV files of each configured site in a
public S3 bucket, keeps those that are new or changed, and puts one *work item*
per file on a Service Bus queue. A queue-triggered *worker* streams one file
into the bronze container, writes a `metadata.json` next to it, emits a
`solar.pvdaq.dataset.available.v1` CloudEvent, and records the version in an
Azure table. What cannot be processed goes to an application-level dead-letter
queue.

| component | code | state | operations |
|---|---|---|---|
| dispatcher | `function_app.py` 330-461 | locals of one run | list, filter, mark queued, validate, send |
| worker | `function_app.py` 464-833 | locals of one invocation | parse, resolve version, process, upload, sidecar, emit, complete; fail, dead-letter |
| failure classification | `function_app.py` 251-322 | none | `_is_transient` over the cause chain |
| FileTrackingStore | `src/file_tracking_store.py` | base entity per file, versioned entity per file and version | `get_unprocessed_files`, `get_versions`, `mark_*` |
| AdlsStore | `src/adls_store.py` | blobs, uncommitted blocks, sidecars | `stream_upload`, `write_json` |
| ServiceBusEmitter | `src/service_bus_emitter.py` | none | three sends |
| CloudEvents envelope | `src/cloudevents_envelope.py` | none | deterministic id, validation |
| OediHistoricalClient | `src/oedi_historical_client.py` | none | listing with pagination, row streaming, `extract_category` |
| get_with_retry | `src/http_retry.py` | none | bounded retry |
| CSV normalizer, configuration, observability | `src/csv_normalizer.py`, `src/config.py`, `src/observability.py` | none (counters) | pure functions |
| Service Bus, Functions host, bucket, clock | outside the repository; `host.json` | queue, locks, objects, date | redelivery, lock expiry, uploads, midnight |

The parts meet only through shared stores. The dispatcher writes base entities
and messages; workers write base and versioned entities, blobs, sidecars, events
and dead letters, and settle messages through the host. No table operation looks
at an ETag; the only conditional write of the program is the blob commit.

What is hard here:

- every `await` lets another instance, the dispatcher, the bucket's owner or the
  broker act, and the worker uses values it read before (version, date, path);
- the same message can be processed twice, also at the same time: a lock is
  renewed for 65 minutes while an invocation may run for 70 (`host.json`), and
  two messages for one file are in flight whenever a run finds it unfinished;
- each `mark_*` of a version is two upserts, and any call can fail before or
  after it took effect;
- `extract_category` is not injective, so several files share dataset, paths and
  sidecar;
- the source file may change at any moment, while LastModified is recorded at
  listing time and the hash at download time;
- a listing is several requests, each retried, over a bucket that changes between
  them, and how one of them fails decides whether a page, a site or the whole run
  is lost; a file streamed row by row starts again at its top after rows were
  handed out.

The list of hazards with their lines and properties is in `PROJECT.json`.

What makes each component correct, and where that is stated:

| component | correct when | property |
|---|---|---|
| worker, table | completed means published | `CompletedMeansPublished` |
| worker | versions are consecutive | `PublishedVersionsContiguous` |
| worker, queue | no message vanishes without trace | `NoSilentDrop`, `QueueDrains` |
| worker, container | events and sidecars lead to the right file | `EventPointsToOwnFile`, `SidecarDescribesOwnFile`, `EventMatchesBytes` |
| dispatcher, table | nothing is skipped that was not ingested, everything is ingested at last | `SkippedMeansIngested`, `NoRevisionForgotten`, `EveryRevisionAnnounced` |
| table | records are final and complete | `RecordsImmutable`, `EveryEventRecorded` |
| events | an id means one content, a content one version | `OneEventPerId`, `SameIdSameContent`, `NoContentTwice` |
| stream_upload | a path belongs to one key, visible whole, success and refusal are true | `IdentityKept`, `DoneOwnsPath`, `RefusalIsFinal`, `ContentionAmongEquals`, `WholeFileVisible`, `ImplementsPromise` |
| classification, stream_upload | an outage is redelivered, a defect is not | `VerdictIsJustified` |
| listing | pages add up to a listing, a run ends, an outage stays with its site | `ImplementsDispatcher`, `RunEnds`, `OutageContained` |
| stream_csv_rows | rows in order, none missing, none repeated but by a retry; the stream ends | `EveryRowGiven`, `RowsFromTheTop`, `RepeatsAreRetries`, `StreamEnds` |
| the pipeline, to those who use its data | each step shows them one permitted change at most; without failures versions come strictly in turn | `ImplementsCatalogue`, `ImplementsOrderly` |
| extract_category | the category is what the name was made of, split or not | theorem `CategoryFromName` |

## 2. The modules

```
Category        extract_category                   (src/oedi_historical_client.py)
  CategoryProofs
Domain          constants, bounds, paths; extends Category
  FileTracking    the table                        (src/file_tracking_store.py)
  WorkQueue       the work-item queue, external    (host.json, the trigger)
  Bronze          the container                    (src/adls_store.py)
  Environment     bucket, calendar, fault budget   (external)
    Dispatcher    = FileTracking + WorkQueue + Environment
    Worker        = FileTracking + WorkQueue + Bronze + Environment
      Ingestion   the composition, its properties; refines Catalogue
        MCIngestion       instances for TLC
        IngestionProofs       what holds whatever happens
          SlowTimerProofs     what holds if runs do not overlap their work
            FaultFreeProofs   what holds until something fails
              CatalogueProofs the refinement of Catalogue
Catalogue       what the pipeline shows to those who use its data
HttpRetry       the retry rule                     (src/http_retry.py)
  SiteListing   a run with its listing request by request; refines Dispatcher
  RowStream     stream_csv_rows                    (src/oedi_historical_client.py)
    OediClient  both
      MCOediClient, OediClientProofs
Classification  _is_transient                      (function_app.py)
UploadSpec      what stream_upload promises about one path
BlobCommit      how it does it; extends Classification, refines UploadSpec
  MCBlobCommit, BlobCommitProofs
```

**Data.** A file's content is its revision number: revision `r` of key `k`
stands for LastModified, size, SHA-256 and bytes at once, since the code only ever
compares them for equality. A day stands for `ingestion_date`. A file's name is
the sequence of its parts between underscores, and `DatasetOf` is computed from
it by `CategoryOf`, the prefix and suffix rules of `extract_category`; two parts
of a split measurement thus share a dataset. `SiteIds` is a list, since the setting is
one, and may name a site twice. Request bodies are a key or `None`, for
everything the body validation rejects.

**FileTracking.** `base[k]` has Status and LastModified (with Size);
`ver[k][v]` has Status and, in `rev` and `day`, FileHash and the paths. A merge
upsert of Status alone keeps the other fields, as `mode="merge"` does;
`MarkQueued` replaces the entity. `IsNextVersion` is `max(completed) + 1`.

**WorkQueue.** A message is ready, locked by an invocation, done, or expired
into the broker's dead-letter queue after `MaxDeliveries`. Returning completes it
and raising abandons it, if the lock still holds. A crash leaves the lock to
expire; `LockLost` takes it from a live invocation, which goes on and writes.

**Dispatcher.** `dpc` is where the run stands: list, page, filter, queue, send. Each
page of a listing, `get_entity`, `mark_queued` and send is a step, so the bucket may
change between two pages. A page covers any part of what is still `unread`
(`ReadPage`), the last one the rest; `LoseToken` is a truncated page without a
continuation token, which the code takes for the last. `ListFails`, `SkipUndated` and
`RejectWorkItem` are the code's `continue`s; a site in `DownSites` may fail for ever at
no cost. `AbortRun` is any other exception or a dead host, at any step. The timer is a singleton, so runs do not overlap each
other; work items of one run may still be in flight at the next (constant
`TimerOverlaps`).

**Worker.** `pc[w]` walks through the try region in the order of the code;
`job[w]` holds the locals. The call that takes effect is one step; `Fail` may
come before any of them, which also stands for the previous call having
succeeded with its answer lost. `mark_processing`, `mark_completed` and `mark_failed` are two
steps each. The except region is `failV`, `failB` (skipped while no version is
known, cut short by `MarkFailedLost`), `dead`, then `ack` or `nack` according to
`_is_transient`; `DeadLetterFails` always raises. The identity check before the
upload and the download's response are one step (`OpenSource`): what comes
between them in the code is repeated by the check at the commit. A file is one
block here and the commit is atomic.

**Catalogue.** What is left of all this for those who read the container, the table
and the queues: whose each path is, what was announced, what the table calls
completed, what each sidecar names, which work items were answered (by an event or a
dead letter) and which have left the queue. There are no invocations, attempts,
locks or runs. A path may be claimed once; a sidecar passes to a stored
file; an announcement is of a stored file and follows that of the version before; a
record repeats an announcement, and may be withdrawn (`record_demoted` in section 4);
a work item leaves the queue after its answer. In `OrderlySpec` a version is
announced only when all the announced versions before it are recorded, no later one
is, and records are not withdrawn. The mapping (`Shown...` in `Ingestion`) forgets
bytes, uncommitted blocks, base entities, statuses other than completed, and everything
that belongs to invocations and runs. Of the pipeline's steps it lets through the
commit (`Claim`), the sidecar (`Describe`), the emit (`Announce`), the first upserts of
`mark_completed` (`Record`) and of the other two (`Withdraw`, if there is a record to
withdraw), a dead letter (`Bury`), and the settling of a message (`Settle`).

**SiteListing.** The same run with `list_csv_files` in full. `Request` is one attempt
at the next page, however it is answered: a page, another attempt (`AskAgain`),
the site skipped (`SkipSite`: attempts exhausted, or a 404) or the run ended
(`EscapeFrom`: `raise_for_status`, a body that is no XML). `HttpRetry`'s `Verdict`
says which; it is `get_with_retry` and also the loop written out in
`stream_csv_rows`. S3 keeps entries in order, some of them no CSV files; `token`
is the last entry of the pages read. What `unread` is in `Dispatcher` are the
entries past the token here, which is the refinement mapping. `historical_worker` is
reduced to one step per work item, however many deliveries that takes: the file is
ingested (`Consume`), or the item is given up (`GiveUpItem`) with the base entity left
at whatever the last upsert made of it. What the listing depends on is only which
files the table calls completed; the worker's own steps are in `Worker`.

**RowStream.** One file, cut into chunks anywhere: `ReadChunk(n)` completes the
lines up to `n`. A line is empty, of spaces, or has cells, which is what the code tells
apart in the header, in a row and in the remainder after the last line feed. `given`
counts how often the caller got each line as a row; a failed attempt starts again
with a new header and an empty remainder, and what was given stays given.

**OediClient.** Both together. They share the retry rule and no state, so rows are
streamed only while the bucket has nothing to list; otherwise the state space
would be the product of two independent ones.

**Classification.** `_is_transient` over an exception with its causes, outermost
first; each is a class and perhaps a status. `BlobCommit` classifies what each
failing upload raises: an error that passes by itself (`Outages`: no connection, no
answer in time, throttling, a 5xx, of the source or of the storage), one that the next
delivery meets again (`Defects`: a 401, 403, 404 or 409, an error without a status or
without a class the code knows), a source that is not there, or a block list made
invalid. A race lost twice and another's identity have classes of their own. `Worker`
knows no classes: both verdicts are possible at each of its steps.

**BlobCommit.** The upload protocol at full detail for one path: pre-check,
blocks staged one by one under index-only ids that all uploads share, the read of
the properties, the conditional commit, one retry, and the service's rules for
uncommitted blocks (external). `CommitUnanswered` is a commit whose answer is
lost: the call fails, or the SDK's own retry runs into the ETag it has just made.
`SourceAbsent` is a source that answers 404. `Fail` is any other error, outage or
defect, at any await that can raise it (`MayRaise`). An upload that gives up is `failed`
(its message comes back) or `dropped` (dead-lettered and completed), as the
classification has it; the history variable `met` keeps what really went wrong, so
that the verdict can be held against it.
The path may start out holding a blob without `s3_key`. `UploadSpec` says what all
that is for: the path is claimed once and for one key, and each upload is stored,
refused or gives up. The refinement maps `owner` to the recorded key and
`outcome` to where the upload stands.

Definitions whose comment begins with *Slip* are plausible mistakes in the
definition that follows them. No specification uses them; they show that the
property named with them in `PROJECT.json` notices the mistake.

## 3. The runs

`tlc -config <run>.cfg MCIngestion.tla`; `MCBlobCommit.tla` for the two `blob_` runs,
`MCOediClient.tla` for `oedi_client` and `site_denied`.

| run | instance | what it shows |
|---|---|---|
| `two_failures` | 1 file, 2 revisions, 2 workers, 3 messages, 2 failures, slow timer, fairness of the work | types; nothing is dropped silently; completed means published; versions have no gap; skipped means ingested; the queue drains |
| `shared_dataset` | 2 files of one dataset, 2 workers, 2 days, 1 failure | events and sidecars lead to their own file; the pipeline is a Catalogue |
| `no_faults` | 2 files, 2 datasets, 2 sites, 2 revisions, 2 workers, no failure | exactly-once ids, bytes and records; versions strictly in turn |
| `progress` | 1 file, 2 revisions, 2 workers, 1 failure, fairness | every revision is announced, every event recorded |
| `blob_commit` | 3 uploads of 2 keys, up to 2 blocks | the upload protocol, its refinement, what is redelivered and what is given up, termination |
| `oedi_client` | 3 files on 2 sites, the first down for ever; pages of 1 entry, 3 attempts, 2 failures; every file of up to 3 lines | a listing implements Dispatcher's; runs end; an outage is contained; rows and their order; streams end |

**Bounds.** `MaxFaults` counts failures, crashes and lost locks together. One
failure already gives a redelivery; two give a failure of the failure handling,
a message that fails until the broker's dead-letter queue takes it (`MaxDeliveries` is
2) and a crash after a lost lock. Two revisions are what a change under way needs, two days a midnight
between attempts, two keys a shared path, two workers a race of attempts.
`MaxVersion` is above the number of deliveries possible, so it never blocks an
attempt; a run of the dispatcher starts only when a message is left for every
key, so no send is ever blocked; TLC checks deadlock in all runs, and the only
end state is `Finished`, when the messages are used up. Symmetry is
used only in `shared_dataset`, whose properties are invariants and a specification of
steps, in which no key or worker is named.

In `oedi_client` the outage comes first in the list, so that whatever it does to
the run reaches the other site, whose listing has two files and an entry that is
none: with pages of one entry that is a page of nothing, a token after each file, and a
bucket that changes behind the token. Three attempts give a first, a middle
and a last one. Three lines are a header, and two rows of which a chunk boundary, an
empty line or a missing line feed can take either. `MaxFaults` pays for failures of
the site that is up and of work items; those of the other site are free and unbounded.
Seven messages are one for each file, one for each failure, and two more that a last run
must find free.

**Fairness** of `two_failures` (`ServingSpec`): while there is a message to work on, some
host or the broker acts. That is less than each of them acting, and enough for the
queue to drain, since deliveries are counted. In `progress`: the timer fires; a run,
and an invocation that can proceed, does; an idle instance takes a ready message; an abandoned lock expires.
The platform gives each of these, and weak fairness is enough as none of them is
disabled by others for ever. Failures, changes of files and midnight are never
fair. The timer does not overlap there, which is what the six-hourly schedule
of `local.settings.json.template` intends; `MaxMsgs` is large enough for a run
after the last failure and the last change of the file, without which "is
eventually announced" could not be expected. `blob_commit`: an upload that can
take a step does. `oedi_client`: the timer fires, a request that was made is answered
somehow, the rest of a run and a stream go on, a work item that does not fail is
consumed. No answer is assumed to be a good one, but failures of a site that is up are bounded.

**Limits of the positive results.** No passing run has two runs of the
dispatcher with work in flight between them (constant `TimerOverlaps`): that is
covered by the proofs of section 5, which assume nothing of the timer, and by
`lost_revision`. `EveryRevisionAnnounced` is checked for a file that is
alone in its dataset: of two files that want the same path on the same day the
later one is refused and dead-lettered by every run until the date changes or its
version differs. `SkippedMeansIngested` needs the slow timer
(see `lost_revision`) and sites that are listed once, since the second pass over a
site meets the work of the first; no run has a site twice in its list, which only the
theorems of `IngestionProofs` and `CatalogueProofs` cover. `OneEventPerId`, `RecordsImmutable` and
`ImplementsOrderly` need in addition that nothing fails, and `EventMatchesBytes` needs besides that no two files share a
dataset: two attempts at one path with different content can commit one another's
blocks (see `blob_own_blocks`).

## 4. Disagreements with the documentation

Each is a run of its own that stops at a counterexample; `PROJECT.json` quotes
the sentence it contradicts.

| run | property | what happens |
|---|---|---|
| `lost_revision` | `NoRevisionForgotten` | an attempt at revision 1 is about to complete; a run marks revision 2 queued and dies before the send; the completion then makes the base entity read "completed, LastModified 2", and revision 2 is never looked at again |
| `blob_own_blocks` | `CommitStoresOwnBlocks` | two uploads of one key overlap; the second replaces a block of the first, and the first commits it and reports its own hash |
| `reemit_same_id` | `SameIdSameContent` | the lock is lost or a call fails after the emit, the file changes, the redelivery uses the same version and announces new content under the old id (and overwrites the CSV) |
| `record_demoted` | `RecordsImmutable` | the second upsert of `mark_completed` fails and `mark_failed` sets the completed version to failed; the next attempt reuses it |
| `duplicate_content` | `NoContentTwice` | the file changes between listing and download; it is ingested, found "changed" by the next run, and ingested again as the next version |
| `site_denied` | `OutageContained` | a site that answers 403 raises an error nobody catches per site: the run ends there, at every run, and the sites after it in the list are never ingested (FR-010). With an outage of the retried kind the property holds (`oedi_client`) |

More were found by reading and have no run. In
`specs/002-pvdaq-historical-ingestion/spec.md`: FR-018 forbids overwriting a
`metadata.json`, which `write_json` does on purpose; FR-017 counts versions
per dataset, the code per file; FR-011 wants metrics after each invocation, and
a run that an exception ends emits none. FR-002 wants all pages, and a
truncated page without a token ends a listing as if it were complete (the next
run lists again). And a block list made invalid by another upload's commit is
an error 400, hence permanent, although the next attempt would succeed: the
file waits for the next run of the dispatcher (`VerdictIsJustified`
says that this needs another's blob at the path).

## 5. What is proved

`BlobCommitProofs`, for any number of uploads, keys and blocks and any bound of
at least two commit attempts (`UploadsAssumption`, `AttemptsAssumption`): types,
`DoneOwnsPath`, `RefusalIsFinal`, `ContentionAmongEquals`, `VerdictIsJustified`,
`WholeFileVisible`, `IdentityKept`, and that `BlobCommit` implements `UploadSpec`. The inductive
invariant adds what an upload knows: between its read and its commit, if the
ETag is still the one it read, the blob's key is compatible, and if not, the path
has an owner (`ReadIsCurrent`); an upload that lost a race knows of an owner, and
at its next commit that it is of its own key (`LostToAnOwner`); the source is
staged in full before a commit (`StagedInFull`) and what is committed is whole
(`CommittedInFull`). For `VerdictIsJustified` it adds that staged blocks vanish
only when someone commits, so that a block list can be invalid only once there is a
blob (`MissingBlocksCommitted`), and that what goes wrong with an upload ends it
(`NothingMetYet`); lemmas show every outage transient, and no defect, under the
`AdlsUploadError` that wraps it. What the theorem takes from outside the code is the
list of errors in `Outages` and `Defects`. It does not say that a dropped file has a taken
path: a defect of the storage or the source drops it with the path free, as
`tests/unit/test_transient_classification.py` wants it. The bound of two is
needed: with one attempt a lost race would be reported as contention without
another look at the identity.

`IngestionProofs`, for any number of files, datasets, sites, workers, messages,
deliveries, revisions, days and failures and either kind of timer
(`KeysAssumption`, `BoundsAssumption`): `TypeOK`, `CompletedMeansPublished`,
`EventPointsToOwnFile`, `SidecarDescribesOwnFile`, `PublishedVersionsContiguous`
and `NoSilentDrop`. None of these is inductive alone, since what a worker writes
depends on what it has done before. `IInv` adds `WorkerInv(w)`: what an invocation
knows at each step (its version has an announced predecessor; once stored, its
path is its key's; once announced, its event is out; before it returns normally,
its message is recorded), and that only existing objects are listed and queued.
A worker's part survives the steps of the others because shared state only
grows: `SharedGrows` says in which sense (events and dead letters are not
withdrawn, a path keeps its owner, objects do not vanish), one lemma shows that
every step is such a growth, and another that `WorkerInv` survives it. What is
left are the worker's own steps, one lemma per step.

`SlowTimerProofs`, for any constants with `SlowTimer` (`~ TimerOverlaps`) and `SitesOnce`
(no site twice in the list), and any number of failures: `SkippedMeansIngested`. That
an attempt's completion cannot vouch for a revision it never saw is a matter of the
order of a run: what the run may still queue (`Ahead`: what it has listed and not yet
sent, and all the sites to come) has neither a message nor an invocation (`AtWork`),
so `mark_queued` writes a LastModified only where nobody is about to write
"completed". The invariant `SlowInv` adds that an attempt's fetched revision is at least
the LastModified in the table, which is at most that of the bucket. An invocation whose lock was
lost stays at work, and so holds up the next run: that is what "slow" means.

`FaultFreeProofs`, under the same two assumptions, is about the part of a behaviour before
anything fails (`faults = 0`), with whatever the constants allow after it: no two invocations
are at one file (`AttemptsAreAlone`), `OneEventPerId`, and, where moreover no two
files share a dataset (`OneFilePerDataset`), `EventMatchesBytes`. `RecordsImmutable` is a property of
all steps, so its theorem takes `MaxFaults = 0`. `QuietInv` says that a file
has one live message, which its invocation holds; that the version an attempt has
resolved stays the next one until the attempt completes it; and that what was announced
is recorded or about to be. `BytesInv` follows one attempt's bytes from the hash
to the staged block and the blob.

`CatalogueProofs`: `PipelineIsCatalogue`, `Spec => ImplementsCatalogue`, for every value of the
constants, assuming nothing more than `IngestionProofs`. `IInv` carries it: `WorkerInv`
is what a step needs for the conjuncts of its counterpart (its path is stored
for it, its predecessor announced, its event out, its message recorded). The dispatcher,
the broker and the world show nothing. `PipelineIsOrderly` takes the
assumptions of `RecordsImmutable` and uses `QuietInv`: that an attempt's version is still the next
one says that no later one is recorded, and that the versions before it are recorded
with what was announced takes `EventsAreRecorded`, `OneEventPerId` and `CompletedMeansPublished` together.
`OrderlyUntilFailure` says the same of the steps before the first failure, for every `MaxFaults`.

`OediClientProofs`, for any bucket, order of entries, page size, set of files and
positive number of attempts (`KeysAssumption`, `SitesAssumption`, `BoundsAssumption`,
`ObjectsAssumption`, `PrefixAssumption`, `FilesAssumption`, `RetriesAssumption`):
`TypeOK`, `EveryRowGiven`, `RepeatsAreRetries`, `RowsFromTheTop` and the refinement
of `Dispatcher`. Rows depend on where the attempt stands: a line ahead of `pos` was
given by earlier attempts only (`NoneAhead`), a line behind it once more than any
line ahead (`InOrder`). For the refinement, the entries up to the token and
those past it are disjoint and no key is in two of them, which is what
`PrefixAssumption` is for. The theorem assumes `OutageAnswers \cap Escaping = {}`: with
a site that is down by a 403, `SiteListing` may end a run at no cost, which `Dispatcher`
allows only as a failure.

`CategoryProofs`, for every site and every category but the empty word: a name made
of the site, the category and `_data`, with or without a date range, gives the
category back (`CategoryFromName`), also when the category's own words are "data" or
dates. Files of a split measurement therefore share a dataset.

Only model-checked: liveness, which is out of the prover's reach
(`QueueDrains`, `EveryRevisionAnnounced`, `EveryEventRecorded`, `EveryUploadEnds`,
`RunEnds`, `OutageContained`, `StreamEnds`). Every invariant, step property and
refinement that a passing run checks is also a theorem.

## 6. Not modelled

- The CSV normalizer: a pure function of one record that only its tests call. And
  what is inside a line: a character cut by a chunk boundary, a quoted line feed.
- Which variable of the configuration is missing, the text of the schemas, log
  formatting and metrics: nothing that follows depends on them.
- What exception each call of the worker outside `stream_upload` can raise: both
  verdicts are possible there at every step.
- Duplicates made by the Service Bus sender's own retries. Events and dead
  letters are sets, so a duplicate of either is not seen; a duplicated work item
  behaves as the two messages of two overlapping runs do.
- Deletion of S3 objects (a failed download, for the worker) and clocks that
  run backwards.
- Time: backoff, timeouts and lock durations are steps that may come at any moment.

## 7. Plan

Done in this order: the composition with its safety and liveness; the upload
protocol and its refinement; the proofs of both; names and categories; the listing,
its retries and its refinement of the dispatcher; row streaming; the classification
of failures; the proofs of these; the proofs of what holds with a slow timer and
without failures; the catalogue, its refinement and the proof of it.

Left:

1. The classes of exceptions of the worker's other calls, as in `BlobCommit`.
2. That `BlobCommit` with one block per file implements `Bronze`'s staging and commit, bytes
   included; so far the two are related by what they say of a path's owner
   (`UploadSpec`'s claim of a path is `Catalogue`'s).
