--------------------------- MODULE MCOediClient ---------------------------
(* A site that is down and comes first, one with two files and an entry    *)
(* that is none; and every file of up to three lines.                      *)
EXTENDS OediClient, TLC

CONSTANTS kd, ka, kb, sd, su

SiteOfKey == [k \in Keys |-> IF k = kd THEN sd ELSE su]
Names     == [k \in Keys |-> <<SiteOf[k], k, "data">>]
DownFirst == <<sd, su>>
S3Order   == [s \in Sites |-> IF s = sd THEN <<kd>> ELSE <<ka, None, kb>>]

ShortFiles == [lines : UNION {[1 .. n -> LineKinds] : n \in 0 .. 3}, terminated : BOOLEAN]
===========================================================================
