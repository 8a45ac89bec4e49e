----------------------------- MODULE Catalogue -----------------------------
(***************************************************************************)
(* What the pipeline shows to those who use its data: bronze paths and     *)
(* whose they are, announcements, the records of the tracking table, the   *)
(* sidecars, and which work items were answered and which have left the    *)
(* queue.  Invocations, attempts, locks, retries and runs are Ingestion's. *)
(*                                                                         *)
(* Spec is what holds whatever happens.  OrderlySpec is what holds where   *)
(* nothing fails: a file's versions are announced one by one, each as the  *)
(* successor of the one recorded before, and no record is withdrawn.       *)
(***************************************************************************)
EXTENDS Naturals

CONSTANTS Keys, DatasetOf, Days, Versions, Revs, MsgIds, None

VARIABLES
    owner,      \* the key each path was claimed for
    announced,  \* what was announced
    recorded,   \* what the table calls completed
    described,  \* the key and version each sidecar names
    answered,   \* work items with an event or a dead-letter entry
    settled     \* work items completed on the queue

recordVars == <<announced, recorded>>
pathVars   == <<owner, described>>
itemVars   == <<answered, settled>>

vars == <<recordVars, pathVars, itemVars>>

Datasets  == {DatasetOf[k] : k \in Keys}
Paths     == [dataset : Datasets, day : Days, version : Versions]
MetaPaths == [dataset : Datasets, day : Days]

Announcement == [key : Keys, version : Versions, day : Days, rev : Revs]

NoVersion == [key |-> None, version |-> 0]

Init ==
    /\ owner = [p \in Paths |-> None]
    /\ described = [q \in MetaPaths |-> NoVersion]
    /\ announced = {}
    /\ recorded = {}
    /\ answered = {}
    /\ settled = {}
---------------------------------------------------------------------------
StoredFor(k, d, v) == owner[[dataset |-> DatasetOf[k], day |-> d, version |-> v]] = k

Claim(p) ==
    /\ owner[p] = None
    /\ \E k \in Keys : /\ DatasetOf[k] = p.dataset
                       /\ owner' = [owner EXCEPT ![p] = k]
    /\ UNCHANGED <<described, recordVars, itemVars>>

\* The sidecar of a dataset and day passes to any version stored for the day.
Describe(k, d, v) ==
    /\ StoredFor(k, d, v)
    /\ described' = [described EXCEPT ![[dataset |-> DatasetOf[k], day |-> d]] =
                        [key |-> k, version |-> v]]
    /\ UNCHANGED <<owner, recordVars, itemVars>>

\* A dead-letter entry, or an announcement repeated.
Bury(m) ==
    /\ answered' = answered \cup {m}
    /\ UNCHANGED <<settled, recordVars, pathVars>>

Settle(m) ==
    /\ m \in answered
    /\ settled' = settled \cup {m}
    /\ UNCHANGED <<answered, recordVars, pathVars>>

HasForerunner(a) ==
    a.version > 1 => \E b \in announced : b.key = a.key /\ b.version = a.version - 1

\* Announced of the stored file, as the successor of an announced version.
Announce(a, m) ==
    /\ StoredFor(a.key, a.day, a.version)
    /\ HasForerunner(a)
    /\ announced' = announced \cup {a}
    /\ answered' = answered \cup {m}
    /\ UNCHANGED <<recorded, settled, pathVars>>

\* The record of a version is one of its announcements.
Record(a) ==
    /\ a \in announced
    /\ recorded' = {b \in recorded : b.key # a.key \/ b.version # a.version} \cup {a}
    /\ UNCHANGED <<announced, pathVars, itemVars>>

Withdraw(a) ==
    /\ recorded' = recorded \ {a}
    /\ UNCHANGED <<announced, pathVars, itemVars>>
---------------------------------------------------------------------------
Latest(a) == \A b \in recorded : b.key = a.key => b.version < a.version

AnnounceNext(a, m) ==
    /\ Latest(a)
    /\ \A b \in announced : b.key = a.key => b \in recorded
    /\ Announce(a, m)

RecordNext(a) == Latest(a) /\ Record(a)

ShowFile ==
    \/ \E p \in Paths : Claim(p)
    \/ \E k \in Keys, d \in Days, v \in Versions : Describe(k, d, v)
    \/ \E m \in MsgIds : Bury(m) \/ Settle(m)

Next ==
    \/ ShowFile
    \/ \E a \in Announcement, m \in MsgIds : Announce(a, m)
    \/ \E a \in announced : Record(a)
    \/ \E a \in recorded : Withdraw(a)

OrderlyNext ==
    \/ ShowFile
    \/ \E a \in Announcement, m \in MsgIds : AnnounceNext(a, m)
    \/ \E a \in announced : RecordNext(a)

Spec        == Init /\ [][Next]_vars
OrderlySpec == Init /\ [][OrderlyNext]_vars
===========================================================================
