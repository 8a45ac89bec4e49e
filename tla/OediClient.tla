---------------------------- MODULE OediClient ----------------------------
(***************************************************************************)
(* The two users of OediHistoricalClient's retries: the dispatcher's       *)
(* listing and a caller of stream_csv_rows.  They share the retry rule and *)
(* no state, so their interleavings show nothing new: rows are streamed    *)
(* only while the bucket has no file to list.                              *)
(***************************************************************************)
EXTENDS SiteListing, RowStream

vars == <<listingVars, streamVars>>

Init == ListingInit /\ StreamInit

TypeOK == ListingTypeOK /\ StreamTypeOK

List == spc = "closed" /\ ListingNext /\ UNCHANGED streamVars

Stream ==
    /\ dpc = "idle" /\ \A k \in Keys : src[k] = 0
    /\ StreamNext
    /\ UNCHANGED listingVars

Next == List \/ Stream

Spec == Init /\ [][Next]_vars

\* The timer fires, and what has begun goes on.
FairSpec ==
    /\ Spec
    /\ WF_vars(Tick /\ spc = "closed" /\ UNCHANGED streamVars)
    /\ RunFairness
    /\ StreamFairness
===========================================================================
