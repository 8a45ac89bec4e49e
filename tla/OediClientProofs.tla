-------------------------- MODULE OediClientProofs --------------------------
(***************************************************************************)
(* What OediHistoricalClient promises, for every bucket, page size, file   *)
(* and number of attempts: the rows a caller of stream_csv_rows is given,  *)
(* and that list_csv_files, page by page, lists as Dispatcher says.        *)
(***************************************************************************)
EXTENDS OediClient, TLAPS

(* Rows.  What a stream has given so far depends on where the attempt is:  *)
(* lines it has read were given once more than lines it has not.           *)

StreamTyped ==
    /\ StreamTypeOK
    /\ pos \in {0} \cup Complete
    /\ spc \in {"closed", "request"} => pos = 0
    /\ spc = "closed" => try = 1

\* Rows this attempt has already given.
GivenNow == {i \in Lines : Row(i) /\ i <= pos}

NoneAhead ==
    /\ spc \in {"closed", "request"} => \A i \in Lines : given[i] <= try - 1
    /\ spc = "body" => \A i \in Lines : i > pos => given[i] <= try - 1
    /\ \A i \in Lines : given[i] <= try

InOrder ==
    /\ \A i, j \in Lines : Row(i) /\ Row(j) /\ j <= i => given[i] <= given[j]
    /\ spc = "body" =>
         /\ \A j \in GivenNow : given[j] >= 1
         /\ \A i \in Lines, j \in GivenNow : Row(i) /\ i > pos => given[i] + 1 <= given[j]

StreamInv ==
    /\ StreamTyped
    /\ NoneAhead
    /\ InOrder
    /\ \A i \in Lines : given[i] > 0 => Row(i)
    /\ EveryRowGiven

\* A file's lines are 1 .. n, and all but the last are complete.
LEMMA LinesOfFile ==
  ASSUME file \in Files \cup {NoFile}
  PROVE  /\ LastLine \in Nat /\ Lines = 1 .. LastLine
         /\ Complete \subseteq Lines /\ Lines \ Complete \subseteq {LastLine}
         /\ \A i \in Lines \ Complete : \A j \in Lines : j # i => j \in Complete /\ j < i
         /\ \A i : Row(i) => i \in Lines
<1>1. file.lines \in Seq(LineKinds)
  <2>1. CASE file \in Files
    BY <2>1, FilesAssumption
  <2>2. CASE file = NoFile
    <3>1. file.lines = <<>>
      BY <2>2 DEF NoFile
    <3> QED BY <3>1
  <2> QED BY <2>1, <2>2
<1>2. LastLine \in Nat /\ Lines = 1 .. LastLine
  BY <1>1 DEF LastLine, Lines
<1>3. Complete = Lines \/ Complete = Lines \ {LastLine}
  BY DEF Complete
<1> QED BY <1>2, <1>3 DEF Row

LEMMA SameFile ==
  ASSUME UNCHANGED file
  PROVE  /\ LastLine' = LastLine /\ Lines' = Lines /\ Complete' = Complete
         /\ \A i : Row(i)' <=> Row(i)
BY DEF LastLine, Lines, Complete, Row, AfterHeader, Header

LEMMA ReadChunkKeeps ==
  ASSUME StreamInv, NEW n \in Lines, ReadChunk(n)
  PROVE  StreamInv'
<1> USE LinesOfFile, SameFile, RetriesAssumption
<1>1. /\ file' = file /\ spc = "body" /\ spc' = spc /\ try' = try
      /\ n \in Complete /\ n > pos /\ pos' = n
  BY DEF ReadChunk
<1>2. /\ file \in Files \cup {NoFile} /\ try \in Nat /\ pos \in Nat
      /\ given \in [Lines -> Nat] /\ n \in Nat
  BY DEF StreamInv, StreamTyped, StreamTypeOK, Attempts
<1>3. /\ given' \in [Lines -> Nat]
      /\ \A i \in Lines : given'[i] = IF Row(i) /\ pos < i /\ i <= n THEN given[i] + 1
                                                                   ELSE given[i]
  <2>1. \A i \in Lines : i \in {j \in pos + 1 .. n : Row(j)} <=> Row(i) /\ pos < i /\ i <= n
    BY <1>2
  <2> QED BY <1>2, <2>1 DEF ReadChunk, Give
<1>4. StreamTyped'
  BY <1>1, <1>2, <1>3 DEF StreamInv, StreamTyped, StreamTypeOK
<1>5. NoneAhead'
  BY <1>1, <1>2, <1>3 DEF StreamInv, NoneAhead
<1>6. InOrder'
  <2>1. \A i, j \in Lines : Row(i) /\ Row(j) /\ j <= i => given'[i] <= given'[j]
    BY <1>1, <1>2, <1>3 DEF StreamInv, InOrder, GivenNow
  <2>2. \A j \in Lines : Row(j) /\ j <= n => given'[j] >= 1
    BY <1>1, <1>2, <1>3 DEF StreamInv, InOrder, GivenNow
  <2>3. \A i, j \in Lines : Row(i) /\ Row(j) /\ j <= n /\ i > n => given'[i] + 1 <= given'[j]
    BY <1>1, <1>2, <1>3 DEF StreamInv, InOrder, GivenNow
  <2> QED BY <1>1, <1>2, <2>1, <2>2, <2>3 DEF InOrder, GivenNow
<1>7. \A i \in Lines' : given'[i] > 0 => Row(i)'
  BY <1>1, <1>2, <1>3 DEF StreamInv
<1> QED BY <1>1, <1>4, <1>5, <1>6, <1>7 DEF StreamInv, EveryRowGiven

LEMMA EndOfBodyKeeps ==
  ASSUME StreamInv, EndOfBody
  PROVE  StreamInv'
<1> USE LinesOfFile, SameFile, RetriesAssumption
<1>1. /\ file' = file /\ spc = "body" /\ spc' = "done" /\ try' = try /\ pos' = pos
      /\ Complete \subseteq 1 .. pos
  BY DEF EndOfBody
<1>2. /\ file \in Files \cup {NoFile} /\ try \in Nat /\ pos \in {0} \cup Complete
      /\ given \in [Lines -> Nat] /\ pos \in Nat
  BY DEF StreamInv, StreamTyped, StreamTypeOK, Attempts
<1>3. /\ given' \in [Lines -> Nat]
      /\ \A i \in Lines : given'[i] = IF i \notin Complete /\ Row(i) THEN given[i] + 1
                                                                   ELSE given[i]
  BY <1>2 DEF EndOfBody, Give
<1>4. \A i \in Lines : IF i \in Complete THEN i <= pos ELSE i > pos
  BY <1>1, <1>2
<1>5. StreamTyped'
  BY <1>1, <1>2, <1>3 DEF StreamInv, StreamTyped, StreamTypeOK, Ended
<1>6. NoneAhead'
  BY <1>1, <1>2, <1>3, <1>4 DEF StreamInv, NoneAhead
<1>7. InOrder'
  <2>1. \A i, j \in Lines : Row(i) /\ Row(j) /\ j <= i => given'[i] <= given'[j]
    <3> SUFFICES ASSUME NEW i \in Lines, NEW j \in Lines, Row(i), Row(j), j <= i
                 PROVE  given'[i] <= given'[j]
      OBVIOUS
    <3>1. CASE i = j
      BY <1>2, <1>3, <3>1
    <3>2. CASE i # j
      <4>1. j \in Complete /\ j <= pos
        BY <1>2, <1>4, <3>2
      <4>2. j \in GivenNow
        BY <4>1 DEF GivenNow
      <4> QED BY <1>1, <1>2, <1>3, <1>4, <4>1, <4>2 DEF StreamInv, InOrder
    <3> QED BY <3>1, <3>2
  <2> QED BY <1>1, <1>2, <2>1 DEF InOrder
<1>8. \A i \in Lines' : given'[i] > 0 => Row(i)'
  BY <1>1, <1>2, <1>3 DEF StreamInv
<1>9. EveryRowGiven'
  <2>1. \A i \in Lines : Row(i) /\ i \in Complete => given[i] >= 1
    BY <1>1, <1>4 DEF StreamInv, InOrder, GivenNow
  <2> QED BY <1>1, <1>2, <1>3, <2>1 DEF EveryRowGiven
<1> QED BY <1>5, <1>6, <1>7, <1>8, <1>9 DEF StreamInv

\* An attempt that ends, or one that begins, gives nothing.
LEMMA AttemptKeeps ==
  ASSUME StreamInv,
         \/ Answered \/ NotFound
         \/ \E a \in Retried \cup Escaping : RequestFails(a) \/ BodyFails(a)
  PROVE  StreamInv'
<1> USE LinesOfFile, SameFile, RetriesAssumption
<1>1. /\ file \in Files \cup {NoFile} /\ try \in Nat /\ given \in [Lines -> Nat]
      /\ file' = file /\ given' = given /\ spc \in {"request", "body"}
  BY DEF StreamInv, StreamTyped, StreamTypeOK, Attempts, Answered, NotFound, RequestFails,
     BodyFails, Settle
<1>2. \/ spc = "request" /\ spc' \in {"body", "absent"} /\ try' = try /\ pos' = pos /\ pos = 0
      \/ spc' \in {"failed", "escaped"} /\ try' = try /\ pos' = 0
      \/ spc' = "request" /\ try' = try + 1 /\ try < MaxRetries /\ pos' = 0
  BY DEF StreamInv, StreamTyped, Answered, NotFound, RequestFails, BodyFails, Settle,
     Verdict, Retried, Escaping
<1>3. StreamTyped'
  BY <1>1, <1>2 DEF StreamInv, StreamTyped, StreamTypeOK, Attempts, Ended
<1>4. NoneAhead'
  BY <1>1, <1>2 DEF StreamInv, NoneAhead
<1>5. InOrder'
  BY <1>1, <1>2 DEF StreamInv, InOrder, GivenNow
<1>6. EveryRowGiven'
  BY <1>2 DEF EveryRowGiven
<1> QED BY <1>1, <1>3, <1>4, <1>5, <1>6 DEF StreamInv

\* A stream begins, and ends up, with nothing given.
Untouched ==
    /\ file \in Files \cup {NoFile} /\ spc \in {"closed", "request"}
    /\ try = 1 /\ pos = 0 /\ given = [i \in Lines |-> 0]

LEMMA FreshStream == Untouched => StreamInv
<1> SUFFICES ASSUME Untouched PROVE StreamInv
  OBVIOUS
<1> USE LinesOfFile, RetriesAssumption DEF Untouched
<1>1. \A i \in Lines : given[i] = 0
  OBVIOUS
<1>2. StreamTyped
  BY DEF StreamTyped, StreamTypeOK, Attempts
<1>3. NoneAhead /\ InOrder
  BY <1>1 DEF NoneAhead, InOrder
<1> QED BY <1>1, <1>2, <1>3 DEF StreamInv, EveryRowGiven, Ended

LEMMA NoLines == <<>> = [i \in DOMAIN NoFile.lines |-> 0]
<1>1. DOMAIN NoFile.lines = {}
  BY DEF NoFile
<1> QED BY <1>1

LEMMA StreamInitInv == StreamInit => StreamInv
BY FreshStream, NoLines DEF StreamInit, Untouched, Lines

LEMMA FreshIsKept == Untouched' => StreamInv'
BY FreshStream, PTL

LEMMA OpenCloseKeeps ==
  ASSUME StreamInv, Close \/ \E f \in Files : Open(f)
  PROVE  StreamInv'
<1>1. CASE Close
  <2>1. file' = NoFile /\ spc' = "closed" /\ try' = 1 /\ pos' = 0 /\ given' = <<>>
    BY <1>1 DEF Close
  <2>2. Untouched'
    BY <2>1, NoLines DEF Untouched, Lines
  <2> QED BY <2>2, FreshIsKept
<1>2. CASE \E f \in Files : Open(f)
  <2>1. PICK f \in Files : Open(f)
    BY <1>2
  <2>2. file' = f /\ spc' = "request" /\ try' = 1 /\ pos' = 0
    BY <2>1 DEF Open, StreamInv, StreamTyped
  <2>3. Untouched'
    BY <2>1, <2>2 DEF Open, Untouched, Lines
  <2> QED BY <2>3, FreshIsKept
<1> QED BY <1>1, <1>2

LEMMA StreamKeeps ==
  ASSUME StreamInv, [StreamNext]_streamVars
  PROVE  StreamInv'
<1>1. CASE UNCHANGED streamVars
  <2>1. UNCHANGED <<file, spc, try, pos, given>>
    BY <1>1 DEF streamVars
  <2> USE SameFile
  <2>2. StreamTyped'
    BY <2>1 DEF StreamInv, StreamTyped, StreamTypeOK
  <2>3. NoneAhead' /\ InOrder'
    BY <2>1 DEF StreamInv, NoneAhead, InOrder, GivenNow
  <2> QED BY <2>1, <2>2, <2>3 DEF StreamInv, EveryRowGiven
<1>2. CASE StreamNext
  BY <1>2, ReadChunkKeeps, EndOfBodyKeeps, AttemptKeeps, OpenCloseKeeps
  DEF StreamNext, StreamStep, StreamFault, Retried, Escaping
<1> QED BY <1>1, <1>2
---------------------------------------------------------------------------
(* Listing.  What no page has covered yet is what is past the token, so a  *)
(* page of the bucket is a page of Dispatcher's.                           *)

ListingInv ==
    /\ ListingTypeOK
    /\ dpc = "page" => site >= 1

Ahead(p) == {Objects[i] : i \in {j \in DOMAIN Objects : j > p}} \ {None}

LEMMA EntriesOfSite ==
  ASSUME ListingInv, Run!Listing
  PROVE  /\ Serving \in DOMAIN SiteIds
         /\ SiteIds[Serving] \in Sites
         /\ Objects \in Seq(Keys \cup {None})
<1>1. Len(SiteIds) \in Nat /\ DOMAIN SiteIds = 1 .. Len(SiteIds)
  BY SitesAssumption
<1>2. Serving \in 1 .. Len(SiteIds)
  BY <1>1 DEF Serving, Run!Listing, ListingInv, ListingTypeOK, Run!DispatcherTypeOK
<1>3. SiteIds[Serving] \in Sites
  BY <1>1, <1>2, SitesAssumption
<1> QED BY <1>1, <1>2, <1>3, ObjectsAssumption DEF Objects

LEMMA PendingIsAhead ==
  ASSUME ListingInv, Run!Listing
  PROVE  Run!Pending = Ahead(Start) /\ Run!Pending \subseteq Keys
<1>1. /\ Serving \in DOMAIN SiteIds /\ SiteIds[Serving] \in Sites
      /\ \A i \in DOMAIN Objects : Objects[i] \in Keys \cup {None} /\ i \in Nat /\ i > 0
  BY EntriesOfSite
<1>2. CASE dpc = "page"
  BY <1>1, <1>2 DEF Run!Pending, Unread, Ahead, Start
<1>3. CASE dpc # "page"
  <2>1. Run!Pending = {k \in Keys : SiteOf[k] = SiteIds[Serving]}
    BY <1>1, <1>3 DEF Run!Pending, Run!KeysAt, Serving
  <2>2. Ahead(Start) = {Objects[i] : i \in DOMAIN Objects} \ {None}
    BY <1>1, <1>3 DEF Ahead, Start
  <2>3. \A k \in Keys : SiteOf[k] = SiteIds[Serving] =>
          \E i \in DOMAIN Objects : Objects[i] = k
    BY PrefixAssumption DEF Objects
  <2>4. \A i \in DOMAIN Objects : Objects[i] # None => SiteOf[Objects[i]] = SiteIds[Serving]
    BY <1>1, PrefixAssumption DEF Objects
  <2> QED BY <1>1, <2>1, <2>2, <2>3, <2>4, KeysAssumption
<1> QED BY <1>2, <1>3

LEMMA PageOfPending ==
  ASSUME ListingInv, Run!Listing
  PROVE  /\ \A p \in DOMAIN Objects : KeysTo(p) \subseteq Run!Pending
         /\ \A p \in DOMAIN Objects : p > Start => Ahead(p) = Run!Pending \ KeysTo(p)
         /\ KeysTo(Len(Objects)) = Run!Pending
<1>1. /\ SiteIds[Serving] \in Sites /\ Start \in Nat
      /\ Len(Objects) \in Nat /\ DOMAIN Objects = 1 .. Len(Objects)
  BY EntriesOfSite DEF Start, ListingInv, ListingTypeOK
<1>2. Run!Pending = Ahead(Start)
  BY PendingIsAhead
<1>3. \A i, j \in DOMAIN Objects : Objects[i] # None /\ Objects[i] = Objects[j] => i = j
  BY <1>1, PrefixAssumption DEF Objects
<1> QED BY <1>1, <1>2, <1>3 DEF KeysTo, Ahead

\* The dispatcher's own variables.
RunTyped ==
    /\ dpc \in {"idle", "list", "page", "filter", "queue", "send"}
    /\ site \in 0 .. Len(SiteIds)
    /\ dpc = "page" => site >= 1
    /\ listed \in [Keys -> 0 .. MaxRev]
    /\ toCheck \subseteq Keys
    /\ toQueue \subseteq Keys
    /\ current \in Keys \cup {None}
    /\ token \in Nat
    /\ attempt \in Attempts

LEMMA RunIsTyped == ListingInv => RunTyped
BY DEF ListingInv, RunTyped, ListingTypeOK, Run!DispatcherTypeOK

LEMMA TypedRun ==
  RunTyped /\ TrackingTypeOK /\ QueueTypeOK /\ EnvTypeOK => ListingInv
<1> SUFFICES ASSUME RunTyped PROVE Unread \subseteq Keys
  BY DEF ListingInv, RunTyped, ListingTypeOK, Run!DispatcherTypeOK
<1>1. CASE dpc = "page"
  <2>1. Len(SiteIds) \in Nat /\ DOMAIN SiteIds = 1 .. Len(SiteIds)
    BY SitesAssumption
  <2>2. site \in DOMAIN SiteIds
    BY <1>1, <2>1 DEF RunTyped
  <2>3. SiteIds[site] \in Sites
    BY <2>1, <2>2, SitesAssumption
  <2>4. Objects \in Seq(Keys \cup {None})
    BY <1>1, <2>3, ObjectsAssumption DEF Objects, Serving
  <2>5. \A i \in DOMAIN Objects : Objects[i] \in Keys \cup {None}
    BY <2>4
  <2> QED BY <2>5 DEF Unread
<1>2. CASE dpc # "page"
  BY <1>2 DEF Unread
<1> QED BY <1>1, <1>2

LEMMA RunKeptTyped ==
  ASSUME RunTyped', TrackingTypeOK', QueueTypeOK', EnvTypeOK'
  PROVE  ListingInv'
<1>1. (RunTyped /\ TrackingTypeOK /\ QueueTypeOK /\ EnvTypeOK => ListingInv)'
  BY TypedRun, PTL
<1> QED BY <1>1

LEMMA FaultTyped ==
  ASSUME EnvTypeOK, Fault \/ UNCHANGED envVars
  PROVE  EnvTypeOK'
BY BoundsAssumption DEF EnvTypeOK, Fault, envVars

\* A page, the last one or not, that covers ks.
LEMMA PageKeepsListing ==
  ASSUME ListingInv, NEW ks \in SUBSET Run!Pending, Run!CoverKeys(ks),
         Fault \/ UNCHANGED envVars,
         token' \in Nat, attempt' = 1, dpc' \in {"list", "page", "filter"}
  PROVE  ListingInv'
<1>1. RunTyped /\ Run!Listing
  BY RunIsTyped DEF Run!CoverKeys
<1>2. ks \subseteq Keys /\ Len(SiteIds) \in Nat
  BY <1>1, PendingIsAhead, SitesAssumption
<1>3. site' \in 0 .. Len(SiteIds) /\ site' >= 1
  BY <1>1, <1>2 DEF Run!CoverKeys, Run!Listing, RunTyped
<1>4. listed' \in [Keys -> 0 .. MaxRev]
  <2>1. \A k \in Keys : src[k] \in 0 .. MaxRev /\ listed[k] \in 0 .. MaxRev /\ 0 \in 0 .. MaxRev
    BY <1>1, BoundsAssumption DEF RunTyped, ListingInv, ListingTypeOK, EnvTypeOK
  <2> QED BY <2>1 DEF Run!CoverKeys
<1>5. RunTyped'
  BY <1>1, <1>2, <1>3, <1>4, RetriesAssumption DEF Run!CoverKeys, RunTyped, Attempts
<1>6. EnvTypeOK'
  BY FaultTyped DEF ListingInv, ListingTypeOK
<1>7. TrackingTypeOK' /\ QueueTypeOK'
  BY DEF ListingInv, ListingTypeOK, Run!CoverKeys, Run!trackVars, TrackingTypeOK, QueueTypeOK
<1> QED BY <1>5, <1>6, <1>7, RunKeptTyped

LEMMA SharedKept ==
  ASSUME ListingInv, UNCHANGED <<trackVars, msgs>>, Fault \/ UNCHANGED envVars, RunTyped'
  PROVE  ListingInv'
<1>1. EnvTypeOK'
  BY FaultTyped DEF ListingInv, ListingTypeOK
<1>2. TrackingTypeOK' /\ QueueTypeOK'
  BY DEF ListingInv, ListingTypeOK, trackVars, TrackingTypeOK, QueueTypeOK
<1> QED BY <1>1, <1>2, RunKeptTyped

LEMMA RequestKeepsListing ==
  ASSUME ListingInv, Request
  PROVE  ListingInv'
<1> USE DEF NextRequest, trackVars, Run!trackVars, envVars, Run!envVars, Fault, Run!Fault
<1>1. Run!Listing /\ RunTyped /\ Len(SiteIds) \in Nat
  BY RunIsTyped, SitesAssumption DEF Request
<1>2. Len(Objects) \in Nat /\ DOMAIN Objects = 1 .. Len(Objects)
  BY <1>1, EntriesOfSite
<1>3. CASE ReadPage
  BY <1>1, <1>2, <1>3, PageOfPending, PageKeepsListing DEF ReadPage
<1>4. CASE ReadLastPage
  BY <1>1, <1>4, PageOfPending, PageKeepsListing DEF ReadLastPage, Return
<1>5. CASE LoseToken
  BY <1>1, <1>5, PageOfPending, PageKeepsListing DEF LoseToken, Return
<1>6. ASSUME NEW a \in Answers, AskAgain(a)
      PROVE  ListingInv'
  <2>1. attempt' \in Attempts
    BY <1>1, <1>6, RetriesAssumption DEF AskAgain, Verdict, RunTyped, Attempts, Retried, Escaping
  <2>2. RunTyped'
    BY <1>1, <1>6, <2>1 DEF AskAgain, RunTyped, runVars
  <2> QED BY <1>6, <2>2, SharedKept DEF AskAgain
<1>7. ASSUME NEW a \in Answers, SkipSite(a)
      PROVE  ListingInv'
  <2>1. site' \in 0 .. Len(SiteIds)
    BY <1>1, <1>7 DEF SkipSite, Run!ListFails, Run!Listing, RunTyped
  <2>2. RunTyped'
    BY <1>1, <1>7, <2>1, BoundsAssumption, RetriesAssumption
    DEF SkipSite, Run!ListFails, Run!NothingListed, RunTyped, Attempts
  <2> QED BY <1>7, <2>2, SharedKept DEF SkipSite, Run!ListFails
<1>8. ASSUME NEW a \in Answers, EscapeFrom(a)
      PROVE  ListingInv'
  <2>1. RunTyped'
    BY <1>1, <1>8, BoundsAssumption, RetriesAssumption
    DEF EscapeFrom, Run!EndOfRun, Run!NothingListed, RunTyped, Attempts
  <2> QED BY <1>8, <2>1, SharedKept DEF EscapeFrom
<1> QED BY <1>3, <1>4, <1>5, <1>6, <1>7, <1>8 DEF Request

LEMMA SendKeepsQueue ==
  ASSUME QueueTypeOK, NEW b \in Keys \cup {None}, Run!SendMessage(b)
  PROVE  QueueTypeOK'
<1>1. PICK m \in MsgIds : msgs' = [msgs EXCEPT ![m].body = b, ![m].status = "ready"]
  BY DEF Run!SendMessage, Run!FreeSlots, Run!MsgIds, MsgIds
<1> QED BY <1>1 DEF QueueTypeOK, Message, MsgStates

\* The rest of a run, and its start.
LEMMA ServeKeepsListing ==
  ASSUME ListingInv, ServeFiles \/ Disturb \/ Tick
  PROVE  ListingInv'
<1>1. RunTyped /\ Len(SiteIds) \in Nat
  BY RunIsTyped, SitesAssumption
<1> USE DEF Run!listVars, requestVars, Run!AfterFilter, Run!AfterQueue, trackVars,
            Run!trackVars, envVars, Run!envVars, Fault, Run!Fault
<1>2. CASE Tick
  BY <1>1, <1>2, SharedKept DEF Tick, Run!TimerTick, RunTyped
<1>3. ASSUME NEW k \in Keys, UNCHANGED requestVars, Run!FilterFile(k) \/ Run!SkipUndated(k)
      PROVE  ListingInv'
  <2>1. RunTyped'
    BY <1>1, <1>3 DEF Run!FilterFile, Run!SkipUndated, RunTyped
  <2> QED BY <1>3, <2>1, SharedKept DEF Run!FilterFile, Run!SkipUndated
<1>4. ASSUME NEW k \in Keys, UNCHANGED requestVars, Run!QueueFile(k)
      PROVE  ListingInv'
  <2>1. RunTyped'
    BY <1>1, <1>4 DEF Run!QueueFile, RunTyped
  <2>2. TrackingTypeOK'
    BY <1>1, <1>4 DEF Run!QueueFile, Run!MarkQueued, ListingInv, ListingTypeOK, RunTyped,
       TrackingTypeOK, BaseEntity, Statuses
  <2>3. QueueTypeOK' /\ EnvTypeOK'
    BY <1>4, FaultTyped DEF Run!QueueFile, ListingInv, ListingTypeOK, QueueTypeOK
  <2> QED BY <2>1, <2>2, <2>3, RunKeptTyped
<1>5. CASE UNCHANGED requestVars /\ Run!SendWorkItem
  <2>1. RunTyped'
    BY <1>1, <1>5 DEF Run!SendWorkItem, RunTyped
  <2>2. QueueTypeOK'
    BY <1>1, <1>5, SendKeepsQueue DEF Run!SendWorkItem, ListingInv, ListingTypeOK, RunTyped
  <2>3. TrackingTypeOK' /\ EnvTypeOK'
    BY <1>5, FaultTyped DEF Run!SendWorkItem, ListingInv, ListingTypeOK, TrackingTypeOK,
       trackVars
  <2> QED BY <2>1, <2>2, <2>3, RunKeptTyped
<1>6. CASE UNCHANGED requestVars /\ Run!RejectWorkItem
  <2>1. RunTyped'
    BY <1>1, <1>6 DEF Run!RejectWorkItem, RunTyped
  <2> QED BY <1>6, <2>1, SharedKept DEF Run!RejectWorkItem
<1>7. CASE /\ UNCHANGED requestVars \/ NextRequest(0)
           /\ Run!EndRun \/ Run!AbortRun
  <2>1. RunTyped'
    BY <1>1, <1>7, BoundsAssumption, RetriesAssumption DEF Run!EndRun, Run!AbortRun,
       Run!EndOfRun, Run!NothingListed, NextRequest, RunTyped, Attempts
  <2> QED BY <1>7, <2>1, SharedKept DEF Run!EndRun, Run!AbortRun
<1> QED BY <1>2, <1>3, <1>4, <1>5, <1>6, <1>7 DEF ServeFiles, Disturb

LEMMA WorldKeepsListing ==
  ASSUME ListingInv,
         \/ \E m \in MsgIds : Consume(m) \/ GiveUpItem(m)
         \/ \E k \in Keys : Publish(k)
  PROVE  ListingInv'
<1>1. RunTyped
  BY RunIsTyped
<1>2. RunTyped'
  BY <1>1 DEF Consume, GiveUpItem, EndItem, Publish, runVars, requestVars, RunTyped
<1>3. CASE \E m \in MsgIds : Consume(m) \/ GiveUpItem(m)
  <2>0. PICK m \in MsgIds, st \in {"completed", "queued", "processing", "failed"} :
          EndItem(m, st)
    BY <1>3 DEF Consume, GiveUpItem
  <2>1. TrackingTypeOK'
    <3>1. PICK b : base' = [base EXCEPT ![b].status = st] /\ ver' = ver
      BY <2>0 DEF EndItem, SetBaseStatus
    <3>2. \A k \in Keys : base[k] \in BaseEntity
      BY DEF ListingInv, ListingTypeOK, TrackingTypeOK
    <3>3. \A k \in Keys : [base[k] EXCEPT !.status = st] \in BaseEntity
      BY <3>2 DEF BaseEntity, Statuses
    <3> QED BY <3>1, <3>2, <3>3 DEF ListingInv, ListingTypeOK, TrackingTypeOK
  <2>2. QueueTypeOK'
    BY <2>0 DEF EndItem, ListingInv, ListingTypeOK, QueueTypeOK, Message, MsgStates
  <2>3. EnvTypeOK'
    BY <1>3, FaultTyped DEF Consume, GiveUpItem, ListingInv, ListingTypeOK
  <2> QED BY <1>2, <2>1, <2>2, <2>3, RunKeptTyped
<1>4. CASE \E k \in Keys : Publish(k)
  <2>1. EnvTypeOK'
    BY <1>4, BoundsAssumption DEF Publish, PutObject, ListingInv, ListingTypeOK, EnvTypeOK
  <2>2. TrackingTypeOK' /\ QueueTypeOK'
    BY <1>4 DEF Publish, ListingInv, ListingTypeOK, trackVars, TrackingTypeOK, QueueTypeOK
  <2> QED BY <1>2, <2>1, <2>2, RunKeptTyped
<1> QED BY <1>3, <1>4

LEMMA ListingInitInv == ListingInit => ListingInv
<1> SUFFICES ASSUME ListingInit PROVE ListingInv
  OBVIOUS
<1>1. RunTyped
  <2>1. Len(SiteIds) \in Nat
    BY SitesAssumption
  <2> QED BY <2>1, BoundsAssumption, RetriesAssumption DEF ListingInit, Fresh,
          Run!DispatcherInit, Run!NothingListed, RunTyped, Attempts
<1>2. TrackingTypeOK
  BY BoundsAssumption
  DEF ListingInit, TrackingInit, TrackingTypeOK, BaseEntity, VersionEntity, Statuses
<1>3. QueueTypeOK
  BY BoundsAssumption DEF ListingInit, QueueInit, QueueTypeOK, Unsent, Message, MsgStates
<1>4. EnvTypeOK
  BY BoundsAssumption DEF ListingInit, EnvInit, EnvTypeOK, Days
<1> QED BY <1>1, <1>2, <1>3, <1>4, TypedRun

LEMMA ListingKeeps ==
  ASSUME ListingInv, [ListingNext]_listingVars
  PROVE  ListingInv'
<1>1. CASE UNCHANGED listingVars
  <2>1. RunTyped'
    BY <1>1, RunIsTyped DEF listingVars, requestVars, runVars, RunTyped
  <2> QED BY <1>1, <2>1, SharedKept DEF listingVars
<1>2. CASE ListingNext
  BY <1>1, <1>2, RequestKeepsListing, ServeKeepsListing, WorldKeepsListing
  DEF ListingNext, ListingFinished
<1> QED BY <1>1, <1>2
---------------------------------------------------------------------------
(* A listing in pages is a run of Dispatcher's, if what the sites that are *)
(* down answer does not escape: an outage costs Dispatcher no failure.     *)

RunStep == Run!TimerTick \/ Run!DispatcherStep \/ Run!DispatcherFault

LEMMA RequestIsRunStep ==
  ASSUME ListingInv, OutageAnswers \cap Escaping = {}, Request
  PROVE  RunStep \/ UNCHANGED Run!dispatcherVars
<1> USE DEF NextRequest, envVars, Run!envVars, Run!Fault, Fault, trackVars, Run!trackVars
<1>1. Run!Listing /\ RunTyped
  BY RunIsTyped DEF Request
<1>2. /\ Len(Objects) \in Nat /\ DOMAIN Objects = 1 .. Len(Objects)
      /\ Run!Pending \in SUBSET Keys
      /\ \A p \in DOMAIN Objects : KeysTo(p) \in SUBSET Run!Pending
      /\ KeysTo(Len(Objects)) = Run!Pending
  BY <1>1, EntriesOfSite, PendingIsAhead, PageOfPending
<1>3. CASE ReadPage
  <2>1. PICK p \in DOMAIN Objects : FullPage(p) /\ token' = p /\ Run!CoverKeys(KeysTo(p))
    BY <1>3 DEF ReadPage
  <2>2. Ahead(p) = Run!Pending \ KeysTo(p)
    BY <1>1, <2>1, PageOfPending DEF FullPage, Entries
  <2>3. dpc' = "page" /\ site' = Serving
    BY <1>1, <1>3, <2>1 DEF ReadPage, Run!CoverKeys, Run!Listing, Serving
  <2>4. Unread' = Ahead(p)
    BY <2>1, <2>3 DEF Unread, Ahead, Objects, Serving
  <2>5. Run!ReadPage(KeysTo(p))
    BY <1>3, <2>1, <2>2, <2>3, <2>4 DEF ReadPage, Run!ReadPage
  <2> QED BY <1>2, <2>5 DEF RunStep, Run!DispatcherStep
<1>4. CASE ReadLastPage
  <2>1. Run!CoverKeys(Run!Pending)
    BY <1>2, <1>4 DEF ReadLastPage
  <2>2. Run!EndListing
    BY <1>4 DEF ReadLastPage, Return, Run!EndListing, Unread
  <2> QED BY <1>4, <2>1, <2>2
          DEF ReadLastPage, RunStep, Run!DispatcherStep, Run!ReadLastPage
<1>5. CASE LoseToken
  <2>1. PICK p \in DOMAIN Objects : Run!CoverKeys(KeysTo(p))
    BY <1>5 DEF LoseToken
  <2>2. Run!EndListing
    BY <1>5 DEF LoseToken, Return, Run!EndListing, Unread
  <2>3. Run!LoseToken(KeysTo(p))
    BY <1>5, <2>1, <2>2 DEF LoseToken, Run!LoseToken
  <2> QED BY <1>2, <2>3 DEF RunStep, Run!DispatcherFault
<1>6. CASE \E a \in Answers : AskAgain(a)
  <2>1. Unread' = Unread
    BY <1>6 DEF AskAgain, runVars, Unread, Objects, Serving
  <2> QED BY <1>6, <2>1 DEF AskAgain, runVars, Run!dispatcherVars, Run!listVars
<1>7. CASE \E a \in Answers : SkipSite(a)
  BY <1>7 DEF SkipSite, RunStep, Run!DispatcherFault
<1>8. CASE \E a \in Answers : EscapeFrom(a)
  <2>1. PICK a \in Answers : EscapeFrom(a)
    BY <1>8
  <2>2. a \in Escaping
    BY <2>1 DEF EscapeFrom, Verdict
  <2>3. Run!AbortRun
    BY <1>1, <2>1, <2>2 DEF EscapeFrom, Run!AbortRun, Run!Listing
  <2> QED BY <2>3 DEF RunStep, Run!DispatcherFault
<1> QED BY <1>3, <1>4, <1>5, <1>6, <1>7, <1>8 DEF Request

LEMMA OtherIsRunStep ==
  ASSUME ListingInv,
         \/ ServeFiles \/ Disturb \/ Tick
         \/ \E m \in MsgIds : Consume(m) \/ GiveUpItem(m)
         \/ \E k \in Keys : Publish(k)
         \/ UNCHANGED listingVars
  PROVE  RunStep \/ UNCHANGED Run!dispatcherVars
<1>1. CASE ServeFiles \/ Disturb \/ Tick
  BY <1>1 DEF ServeFiles, Disturb, Tick, RunStep, Run!DispatcherStep, Run!DispatcherFault
<1>2. CASE UNCHANGED <<runVars, token>>
  <2>1. Unread' = Unread
    BY <1>2 DEF runVars, Unread, Objects, Serving
  <2> QED BY <1>2, <2>1 DEF runVars, Run!dispatcherVars, Run!listVars
<1> QED BY <1>1, <1>2 DEF Consume, GiveUpItem, EndItem, Publish, listingVars, requestVars
---------------------------------------------------------------------------
IInv == ListingInv /\ StreamInv

LEMMA InitIInv == Init => IInv
BY ListingInitInv, StreamInitInv DEF Init, IInv

LEMMA NextIInv == IInv /\ [Next]_vars => IInv'
<1> SUFFICES ASSUME IInv, [Next]_vars PROVE IInv'
  OBVIOUS
<1>1. [ListingNext]_listingVars /\ [StreamNext]_streamVars
  BY DEF Next, List, Stream, vars
<1> QED BY <1>1, ListingKeeps, StreamKeeps DEF IInv

THEOREM Invariance == Spec => []IInv
BY InitIInv, NextIInv, PTL DEF Spec

\* A run's locals, the queue, the table and a stream's progress have their types.
THEOREM TypeCorrect == Spec => []TypeOK
<1>1. IInv => TypeOK
  BY DEF IInv, ListingInv, StreamInv, StreamTyped, TypeOK
<1> QED BY Invariance, <1>1, PTL

\* stream_csv_rows, when it ends as it should, has given every row of the file,
\* however many lines it has and wherever the chunks cut them.
THEOREM EveryRowIsGiven == Spec => []EveryRowGiven
<1>1. IInv => EveryRowGiven
  BY DEF IInv, StreamInv
<1> QED BY Invariance, <1>1, PTL

\* A caller of stream_csv_rows never sees a row more often than there were attempts.
THEOREM RepeatsComeFromRetries == Spec => []RepeatsAreRetries
<1>1. IInv => RepeatsAreRetries
  BY DEF IInv, StreamInv, NoneAhead, RepeatsAreRetries
<1> QED BY Invariance, <1>1, PTL

\* Rows come from the top of the file, and nothing that is no row comes at all.
THEOREM RowsComeInOrder == Spec => []RowsFromTheTop
<1>1. IInv => RowsFromTheTop
  <2> SUFFICES ASSUME IInv, NEW i \in Lines
               PROVE  /\ given[i] > 0 => Row(i)
                      /\ \A j \in 1 .. i : Row(i) /\ Row(j) => given[i] <= given[j]
    BY DEF RowsFromTheTop
  <2>1. Lines = 1 .. LastLine /\ LastLine \in Nat
    BY LinesOfFile DEF IInv, StreamInv, StreamTyped, StreamTypeOK
  <2> QED BY <2>1 DEF IInv, StreamInv, InOrder
<1> QED BY Invariance, <1>1, PTL

\* list_csv_files, page by page with its tokens and retries, lists for the run what
\* the abstract dispatcher may list, for every bucket and page size.
THEOREM Refinement ==
  ASSUME OutageAnswers \cap Escaping = {}
  PROVE  Spec => ImplementsDispatcher
<1>1. Init => Run!DispatcherInit
  BY DEF Init, ListingInit
<1>2. IInv /\ [Next]_vars => [RunStep]_Run!dispatcherVars
  <2> SUFFICES ASSUME IInv, [Next]_vars
               PROVE  RunStep \/ UNCHANGED Run!dispatcherVars
    OBVIOUS
  <2>1. [ListingNext]_listingVars
    BY DEF Next, List, Stream, vars
  <2> QED BY <2>1, RequestIsRunStep, OtherIsRunStep DEF ListingNext, ListingFinished, IInv
<1> QED BY Invariance, <1>1, <1>2, PTL DEF Spec, RunStep, ImplementsDispatcher, Run!DispatcherSpec
=============================================================================
