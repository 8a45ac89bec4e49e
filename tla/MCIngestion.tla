---------------------------- MODULE MCIngestion ----------------------------
(* Small instances of Ingestion for TLC: one or two keys, which share one *)
(* dataset and site or have one each, and one or two function hosts.      *)
EXTENDS Ingestion, TLC

CONSTANTS k1, k2, w1, w2, s1, s2

OneSite  == [k \in Keys |-> s1]
TwoSites == [k \in Keys |-> IF k = k1 THEN s1 ELSE s2]

\* A measurement in one file and in a part: k1_data, k2_data_start_end.
SplitNames == [k \in Keys |-> <<SiteOf[k], "power", "data">> \o
                                IF k = k1 THEN <<>> ELSE <<"date", "date">>]

\* Each site once, whatever the number of sites.
EachSiteOnce == IF s2 \in Sites THEN <<s1, s2>> ELSE <<s1>>

\* Keys are interchangeable only while they share their dataset and site.
FullSymmetry == Permutations(Workers) \cup Permutations(Keys)
===========================================================================
