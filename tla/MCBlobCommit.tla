---------------------------- MODULE MCBlobCommit ----------------------------
(* Three uploads to one path, two of them of the same S3 key. *)
EXTENDS BlobCommit, TLC

CONSTANTS u1, u2, u3, ka, kb

SomeKeys    == u1 :> ka @@ u2 :> ka @@ u3 :> kb
SomeLengths == u1 :> 1 @@ u2 :> 2 @@ u3 :> 1
=============================================================================
