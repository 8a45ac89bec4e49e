------------------------------ MODULE Bronze ------------------------------
(***************************************************************************)
(* The bronze container as AdlsStore uses it: CSV blobs with the s3_key    *)
(* they were committed under, blocks staged for a path but not committed,  *)
(* and the metadata.json sidecars.  A file is one block here; BlobCommit   *)
(* refines the commit to its reads, ETags, retries and several blocks.     *)
(***************************************************************************)
EXTENDS Domain

VARIABLES
    csv,        \* committed CSV blobs
    staged,     \* the uncommitted block of each path
    meta        \* metadata.json sidecars

bronzeVars == <<csv, staged, meta>>

NoBytes == [key |-> None, rev |-> 0]
NoBlob  == [key |-> None, bytes |-> NoBytes]
NoMeta  == [key |-> None, version |-> 0, rev |-> 0]

Blob    == [key : Keys, bytes : Content] \cup {NoBlob}
Sidecar == [key : Keys, version : Versions, rev : Revs] \cup {NoMeta}

BronzeTypeOK ==
    /\ csv \in [Paths -> Blob]
    /\ staged \in [Paths -> Content \cup {NoBytes}]
    /\ meta \in [MetaPaths -> Sidecar]

BronzeInit ==
    /\ csv = [p \in Paths |-> NoBlob]
    /\ staged = [p \in Paths |-> NoBytes]
    /\ meta = [p \in MetaPaths |-> NoMeta]
---------------------------------------------------------------------------
\* Slip: no identity guard.
MayHoldAnything(p, k) == TRUE

\* The identity guard: the path is free, or already holds this very key.
MayHold(p, k) == csv[p].key \in {None, k}

\* stage_block under the deterministic id: whoever stages last owns the block.
StageBlock(p, c) ==
    /\ staged' = [staged EXCEPT ![p] = c]
    /\ UNCHANGED <<csv, meta>>

\* commit_block_list of that id: the uncommitted block wins over the committed
\* one, and none is left uncommitted.
CommitBlob(p, k) ==
    /\ csv' = [csv EXCEPT ![p] =
                 [key |-> k, bytes |-> IF staged[p] = NoBytes THEN @.bytes ELSE staged[p]]]
    /\ staged' = [staged EXCEPT ![p] = NoBytes]
    /\ UNCHANGED meta

\* write_json: a plain overwrite.
WriteSidecar(p, k, v, r) ==
    /\ meta' = [meta EXCEPT ![p] = [key |-> k, version |-> v, rev |-> r]]
    /\ UNCHANGED <<csv, staged>>
===========================================================================
