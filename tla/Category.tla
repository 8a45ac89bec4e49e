----------------------------- MODULE Category -----------------------------
(***************************************************************************)
(* extract_category: the measurement category in a CSV file's name, which  *)
(* with the site is the dataset the file is stored under.                  *)
(*                                                                         *)
(* A name, without ".csv", is the sequence of its parts between            *)
(* underscores: a site id, "data", "date" for any YYYY-MM-DD, "" for       *)
(* nothing, or a word of the category.                                     *)
(***************************************************************************)
EXTENDS Naturals, Sequences

\* removeprefix(f"{site_id}_"): the site id and its underscore.
WithoutSite(name, site) ==
    IF Len(name) > 1 /\ name[1] = site THEN Tail(name) ELSE name

\* The suffixes carry their leading underscore, so they never are the whole stem.
DataSuffix  == <<"data">>
RangeSuffix == <<"data", "date", "date">>

HasSuffix(stem, suffix) ==
    /\ Len(stem) > Len(suffix)
    /\ SubSeq(stem, Len(stem) - Len(suffix) + 1, Len(stem)) = suffix

Drop(stem, suffix) == SubSeq(stem, 1, Len(stem) - Len(suffix))

WithoutSuffix(stem) ==
    IF HasSuffix(stem, RangeSuffix) THEN Drop(stem, RangeSuffix)
    ELSE IF HasSuffix(stem, DataSuffix) THEN Drop(stem, DataSuffix)
    ELSE stem

\* An empty category falls back to the whole name.
CategoryOf(name, site) ==
    LET stem == WithoutSuffix(WithoutSite(name, site))
    IN  IF stem = <<"">> THEN name ELSE stem
===========================================================================
