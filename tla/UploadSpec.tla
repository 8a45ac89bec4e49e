----------------------------- MODULE UploadSpec -----------------------------
(***************************************************************************)
(* What AdlsStore.stream_upload promises about one bronze path: the path   *)
(* is claimed once, for one S3 key, and every upload to it either stores   *)
(* under its own key, is refused because another key holds the path, or    *)
(* gives up.  How blocks, ETags and retries achieve that is BlobCommit.    *)
(***************************************************************************)
CONSTANTS Uploads, Keys, None, KeyOf

VARIABLES owner, outcome

vars == <<owner, outcome>>

Init ==
    /\ owner = None
    /\ outcome = [u \in Uploads |-> "pending"]

Claimable(u) == owner \in {None, KeyOf[u]}

Ends(u, o) ==
    /\ outcome[u] = "pending"
    /\ outcome' = [outcome EXCEPT ![u] = o]

Store(u) ==
    /\ Ends(u, "stored")
    /\ Claimable(u)
    /\ owner' = KeyOf[u]

\* The path is claimed although the upload does not learn of it.
StoreUnknowingly(u) ==
    /\ outcome[u] = "pending"
    /\ Claimable(u)
    /\ owner' = KeyOf[u]
    /\ \/ UNCHANGED outcome
       \/ Ends(u, "gaveUp")

Refuse(u) ==
    /\ Ends(u, "refused")
    /\ ~ Claimable(u)
    /\ UNCHANGED owner

GiveUp(u) ==
    /\ Ends(u, "gaveUp")
    /\ UNCHANGED owner

Next == \E u \in Uploads : Store(u) \/ StoreUnknowingly(u) \/ Refuse(u) \/ GiveUp(u)

Spec == Init /\ [][Next]_vars
=============================================================================
