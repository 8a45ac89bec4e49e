------------------------------ MODULE Domain ------------------------------
(***************************************************************************)
(* What every module of the ingestion pipeline talks about: S3 keys, the   *)
(* datasets and sites they belong to, bronze paths, and the bounds of the  *)
(* model.  No state.                                                       *)
(*                                                                         *)
(* A file's content is its S3 revision: revision r of key k is uploaded    *)
(* with its own LastModified, size and SHA-256, so one number stands for   *)
(* all of them.  Revision 0, day 0 and version 0 mean "no value".          *)
(***************************************************************************)
EXTENDS Category, FiniteSets

CONSTANTS
    Keys,           \* S3 object keys of the CSV files
    Sites,          \* PVDAQ site ids
    SiteIds,        \* PVDAQ_HISTORICAL_SITE_IDS: a list, in which an id may recur
    SiteOf,         \* [Keys -> Sites]
    DownSites,      \* sites whose listing may fail for ever, beyond MaxFaults
    NameOf,         \* each key's file name, as Category takes it
    Workers,        \* function host instances; each runs one invocation at a time
    None,           \* no key, no worker, a body that is not a work item
    MaxRev,         \* bound: revisions of one S3 object
    MaxDay,         \* bound: calendar days
    MaxVersion,     \* bound: ingestion versions of one key
    MaxMsgs,        \* bound: messages ever put on the work-item queue
    MaxDeliveries,  \* maxDeliveryCount of the work-item queue
    MaxFaults,      \* bound: failures, crashes and lost locks
    TimerOverlaps   \* may the timer fire while work items are still in flight?

ASSUME KeysAssumption ==
    /\ IsFiniteSet(Keys) /\ Keys # {}
    /\ SiteOf \in [Keys -> Sites]
    /\ None \notin Keys \cup Workers

ASSUME SitesAssumption == SiteIds \in Seq(Sites)

ASSUME BoundsAssumption ==
    /\ MaxRev \in Nat \ {0}
    /\ MaxDay \in Nat \ {0}
    /\ MaxVersion \in Nat \ {0}
    /\ MaxMsgs \in Nat \ {0}
    /\ MaxDeliveries \in Nat \ {0}
    /\ MaxFaults \in Nat
    /\ TimerOverlaps \in BOOLEAN

Revs     == 1 .. MaxRev
Days     == 1 .. MaxDay
Versions == 1 .. MaxVersion
MsgIds   == 1 .. MaxMsgs

\* "{site_id}_{category}".  Not injective: the files of a split measurement share it.
DatasetOf == [k \in Keys |-> [site     |-> SiteOf[k],
                              category |-> CategoryOf(NameOf[k], SiteOf[k])]]

Datasets == {DatasetOf[k] : k \in Keys}

\* The files under the prefix of the i-th configured site.
KeysAt(i) == {k \in Keys : i \in DOMAIN SiteIds /\ SiteOf[k] = SiteIds[i]}

\* The most work items one run can send.
RunSize == Cardinality({p \in (1 .. Len(SiteIds)) \X Keys : p[2] \in KeysAt(p[1])})

\* The bytes of one revision of one file.
Content  == [key : Keys, rev : Revs]

\* Bronze paths.  Two keys of a dataset share them; the sidecar's has no version.
Paths     == [dataset : Datasets, day : Days, version : Versions]
MetaPaths == [dataset : Datasets, day : Days]

PathOf(k, d, v)    == [dataset |-> DatasetOf[k], day |-> d, version |-> v]
MetaPathOf(k, d)   == [dataset |-> DatasetOf[k], day |-> d]
===========================================================================
