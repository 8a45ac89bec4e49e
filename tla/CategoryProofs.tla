-------------------------- MODULE CategoryProofs --------------------------
(* A measurement's files share a dataset however the data is split. *)
EXTENDS Category, SequenceTheorems, TLAPS

\* The names the bucket's owner gives: <site>_<category>_data.csv, and
\* <site>_<category>_data_<start>_<end>.csv for a part of it.
FileName(site, c, suffix) == <<site>> \o c \o suffix
WholeName(site, c)        == FileName(site, c, DataSuffix)
PartName(site, c)         == FileName(site, c, RangeSuffix)

LEMMA ShortSeqs ==
  ASSUME NEW S, NEW a \in S, NEW b \in S
  PROVE  <<a>> \in Seq(S) /\ <<a, b, b>> \in Seq(S)
OBVIOUS

LEMMA LastOfConcat ==
  ASSUME NEW S, NEW c \in Seq(S), NEW x \in Seq(S), Len(x) = 1
  PROVE  Len(c \o x) = Len(c) + 1 /\ (c \o x)[Len(c) + 1] = x[1]
<1>1. Len(c) \in Nat
  BY LenProperties
<1> QED BY <1>1, ConcatProperties

LEMMA SiteDropped ==
  ASSUME NEW S, NEW site \in S, NEW q \in Seq(S), q # <<>>
  PROVE  WithoutSite(<<site>> \o q, site) = q
<1> DEFINE t == <<site>> \o q
<1>1. <<site>> \in Seq(S) /\ Len(<<site>>) = 1 /\ <<site>>[1] = site /\ Len(q) \in Nat \ {0}
  BY EmptySeq
<1>2. t \in Seq(S) /\ Len(t) = 1 + Len(q) /\ t[1] = site
  BY <1>1, ConcatProperties
<1>3. Tail(t) = SubSeq(t, 2, Len(t))
  BY <1>1, <1>2, TailIsSubSeq, EmptySeq
<1>4. SubSeq(t, 2, 1 + Len(q)) = SubSeq(q, 2 - 1, 1 + Len(q) - 1)
  BY <1>1, SubSeqOfConcat2
<1>5. Tail(t) = q
  BY <1>1, <1>2, <1>3, <1>4, SubSeqFull
<1>6. WithoutSite(t, site) = q
  <2> HIDE DEF t
  <2> QED BY <1>1, <1>2, <1>5 DEF WithoutSite
<1> QED BY <1>6

LEMMA SuffixDropped ==
  ASSUME NEW S, NEW c \in Seq(S), c # <<>>, NEW x \in Seq(S), x # <<>>
  PROVE  HasSuffix(c \o x, x) /\ Drop(c \o x, x) = c
<1>1. Len(c) \in Nat \ {0} /\ Len(x) \in Nat \ {0} /\ Len(c \o x) = Len(c) + Len(x)
  BY EmptySeq, ConcatProperties
<1>2. SubSeq(c \o x, Len(c) + 1, Len(c) + Len(x)) = x
  <2>1. SubSeq(c \o x, Len(c) + 1, Len(c) + Len(x))
          = SubSeq(x, Len(c) + 1 - Len(c), Len(c) + Len(x) - Len(c))
    BY <1>1, SubSeqOfConcat2
  <2> QED BY <1>1, <2>1, SubSeqFull
<1>3. SubSeq(c \o x, 1, Len(c)) = c
  BY <1>1, SubSeqOfConcat1, SubSeqFull
<1> QED BY <1>1, <1>2, <1>3 DEF HasSuffix, Drop

LEMMA SuffixDiffers ==
  ASSUME NEW S, NEW w \in Seq(S), NEW x \in Seq(S), x # <<>>, w[Len(w)] # x[Len(x)]
  PROVE  ~ HasSuffix(w, x)
<1> DEFINE n == Len(w)
           m == n - Len(x) + 1
<1>1. n \in Nat /\ Len(x) \in Nat \ {0}
  BY EmptySeq, LenProperties
<1>2. SUFFICES ASSUME n > Len(x) PROVE SubSeq(w, m, n) # x
  BY DEF HasSuffix
<1>3. m \in Int /\ n \in Int /\ m >= 1 /\ n - m + 1 = Len(x) /\ m + Len(x) - 1 = n
  BY <1>1, <1>2
<1>4. \A i \in m .. n : w[i] \in S
  <2> SUFFICES ASSUME NEW i \in m .. n PROVE w[i] \in S
    OBVIOUS
  <2>1. i \in 1 .. Len(w)
    BY <1>1, <1>3
  <2> QED BY <2>1, ElementOfSeq
<1>5. SubSeq(w, m, n)[Len(x)] = w[m + Len(x) - 1]
  <2> HIDE DEF n, m
  <2>1. \A i \in 1 .. n - m + 1 : SubSeq(w, m, n)[i] = w[m + i - 1]
    BY <1>3, <1>4, SubSeqProperties
  <2> QED BY <1>1, <1>3, <2>1
<1> QED BY <1>3, <1>5

\* The site comes off a name of either kind, and leaves the category and a suffix.
LEMMA NameWithoutSite ==
  ASSUME NEW S, NEW site \in S, NEW c \in Seq(S), c # <<>>, NEW x \in Seq(S), x # <<>>
  PROVE  /\ c \o x \in Seq(S)
         /\ WithoutSite(FileName(site, c, x), site) = c \o x
<1>1. <<site>> \in Seq(S) /\ c \o x \in Seq(S)
  BY ShortSeqs, ConcatProperties
<1>2. c \o x # <<>>
  BY ConcatEqualIffEmpty
<1>3. (<<site>> \o c) \o x = <<site>> \o (c \o x)
  BY <1>1, ConcatAssociative
<1> QED BY <1>1, <1>2, <1>3, SiteDropped DEF FileName

LEMMA Suffixes ==
  ASSUME NEW S, "data" \in S, "date" \in S
  PROVE  /\ DataSuffix \in Seq(S) /\ DataSuffix # <<>> /\ Len(DataSuffix) = 1
         /\ RangeSuffix \in Seq(S) /\ RangeSuffix # <<>> /\ Len(RangeSuffix) = 3
         /\ DataSuffix[1] # RangeSuffix[3]
<1>1. DataSuffix \in Seq(S) /\ RangeSuffix \in Seq(S)
  BY ShortSeqs DEF DataSuffix, RangeSuffix
<1>2. DataSuffix # <<>> /\ Len(DataSuffix) = 1 /\ DataSuffix[1] = "data"
  BY DEF DataSuffix
<1>3. RangeSuffix # <<>> /\ Len(RangeSuffix) = 3 /\ RangeSuffix[3] = "date"
  BY DEF RangeSuffix
<1> QED BY <1>1, <1>2, <1>3

\* Whatever the category's words are, "data" and dates among them included, both
\* kinds of name give the category back: no part of it is lost, and parts of one
\* measurement are stored under the dataset of the whole.
THEOREM CategoryFromName ==
  ASSUME NEW S, "data" \in S, "date" \in S,
         NEW site \in S, NEW c \in Seq(S), c # <<>>
  PROVE  c # <<"">> => /\ CategoryOf(WholeName(site, c), site) = c
                       /\ CategoryOf(PartName(site, c), site) = c
<1> DEFINE whole == c \o DataSuffix
           part  == c \o RangeSuffix
<1>1. whole \in Seq(S) /\ WithoutSite(WholeName(site, c), site) = whole
  BY Suffixes, NameWithoutSite DEF WholeName
<1>2. WithoutSite(PartName(site, c), site) = part
  BY Suffixes, NameWithoutSite DEF PartName
<1>3. ~ HasSuffix(whole, RangeSuffix)
  <2>1. whole[Len(whole)] # RangeSuffix[Len(RangeSuffix)]
    BY Suffixes, LastOfConcat
  <2> QED BY <1>1, <2>1, Suffixes, SuffixDiffers
<1>4. HasSuffix(whole, DataSuffix) /\ Drop(whole, DataSuffix) = c
  BY Suffixes, SuffixDropped
<1>5. HasSuffix(part, RangeSuffix) /\ Drop(part, RangeSuffix) = c
  BY Suffixes, SuffixDropped
<1> HIDE DEF whole, part
<1> QED BY <1>1, <1>2, <1>3, <1>4, <1>5 DEF CategoryOf, WithoutSuffix
===========================================================================
