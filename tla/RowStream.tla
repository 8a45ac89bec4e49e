----------------------------- MODULE RowStream -----------------------------
(***************************************************************************)
(* stream_csv_rows: one file downloaded in chunks, its rows given to the   *)
(* caller as their lines are complete, and the whole started again when    *)
(* the connection fails.                                                   *)
(*                                                                         *)
(* A line is "empty" once its "\r" is off, "spaces", or has "cells".  What *)
(* follows the last line feed is the remainder, a line only if not empty.  *)
(***************************************************************************)
EXTENDS HttpRetry, Sequences

CONSTANT Files      \* files: their lines, and whether the last one ends in "\n"

LineKinds == {"empty", "spaces", "cells"}

ASSUME FilesAssumption ==
    Files \subseteq [lines : Seq(LineKinds), terminated : BOOLEAN]

VARIABLES
    file,       \* the file being streamed
    spc,        \* where the stream stands
    try,        \* the attempt
    pos,        \* lines of this attempt read so far
    given       \* how often the caller was given each line as a row

streamVars == <<file, spc, try, pos, given>>

Ended == {"done",       \* all of the body was read
          "absent",     \* 404: ends like an empty file
          "failed",     \* OediHistoricalAccessError
          "escaped"}    \* any other exception

Lines    == DOMAIN file.lines
LastLine == Len(file.lines)

\* Lines that end in a line feed; only these can be complete before the end.
Complete == IF file.terminated THEN Lines ELSE Lines \ {LastLine}

\* fieldnames: the first complete line that is not empty.
Header(i) == /\ i \in Complete /\ file.lines[i] # "empty"
             /\ \A j \in 1 .. i - 1 : file.lines[j] = "empty"

AfterHeader(i) == \E h \in 1 .. i - 1 : Header(h)

\* A remainder of spaces is no row, although a whole line of spaces is.
Row(i) ==
    /\ i \in Lines /\ AfterHeader(i)
    /\ IF i \in Complete THEN file.lines[i] # "empty" ELSE file.lines[i] = "cells"

\* Nothing is streamed.
NoFile == [lines |-> <<>>, terminated |-> TRUE]

StreamTypeOK ==
    /\ file \in Files \cup {NoFile}
    /\ spc \in {"closed", "request", "body"} \cup Ended
    /\ try \in Attempts
    /\ pos \in 0 .. LastLine
    /\ given \in [Lines -> Nat]

StreamInit ==
    /\ file = NoFile
    /\ spc = "closed"
    /\ try = 1
    /\ pos = 0
    /\ given = <<>>
----------------------------------------------------------------------------
Open(f) ==
    /\ spc = "closed"
    /\ file' = f
    /\ spc' = "request"
    /\ given' = [i \in DOMAIN f.lines |-> 0]
    /\ UNCHANGED <<try, pos>>

\* The caller is done with the iterator.
Close ==
    /\ spc \in Ended
    /\ file' = NoFile
    /\ spc' = "closed"
    /\ try' = 1
    /\ pos' = 0
    /\ given' = <<>>

\* Slip: the attempts are not counted.
SettleUncounted(a) ==
    /\ IF a \in Retried THEN spc' = "request" ELSE spc' = "escaped"
    /\ pos' = 0
    /\ UNCHANGED <<file, try, given>>

\* What an answer, or a failure of the body, does to the attempt.  fieldnames and
\* remainder are new in each.
Settle(a) ==
    /\ \/ /\ Verdict(try, a) = "again"
          /\ spc' = "request"
          /\ try' = try + 1
       \/ /\ Verdict(try, a) = "giveUp"
          /\ spc' = "failed"
          /\ UNCHANGED try
       \/ /\ Verdict(try, a) = "escape"
          /\ spc' = "escaped"
          /\ UNCHANGED try
    /\ pos' = 0
    /\ UNCHANGED <<file, given>>

RequestFails(a) == spc = "request" /\ Settle(a)

NotFound ==
    /\ spc = "request"
    /\ spc' = "absent"
    /\ UNCHANGED <<file, try, pos, given>>

Answered ==
    /\ spc = "request"
    /\ spc' = "body"
    /\ UNCHANGED <<file, try, pos, given>>

Give(rows) == given' = [i \in Lines |-> IF i \in rows THEN given[i] + 1 ELSE given[i]]

\* Slip: a line cut by the end of a chunk is given with both.
ReadChunkOverlap(n) ==
    /\ spc = "body" /\ n \in Complete /\ n > pos
    /\ pos' = n
    /\ Give({i \in pos .. n : Row(i)})
    /\ UNCHANGED <<file, spc, try>>

\* Slip: the first line of every chunk is taken for a header.
ReadChunkHeader(n) ==
    /\ spc = "body" /\ n \in Complete /\ n > pos
    /\ pos' = n
    /\ Give({i \in pos + 2 .. n : Row(i)})
    /\ UNCHANGED <<file, spc, try>>

\* A chunk completes the lines up to n.
ReadChunk(n) ==
    /\ spc = "body" /\ n \in Complete /\ n > pos
    /\ pos' = n
    /\ Give({i \in pos + 1 .. n : Row(i)})
    /\ UNCHANGED <<file, spc, try>>

\* The connection fails between two chunks: a ReadTimeout, or something that is
\* not caught.
BodyFails(a) == spc = "body" /\ Settle(a)

\* Slip: the remainder is dropped.
EndOfBodyShort ==
    /\ spc = "body" /\ Complete \subseteq 1 .. pos
    /\ spc' = "done"
    /\ UNCHANGED <<file, try, pos, given>>

\* The remainder is the last row of a file that does not end in a line feed.
EndOfBody ==
    /\ spc = "body" /\ Complete \subseteq 1 .. pos
    /\ Give({i \in Lines \ Complete : Row(i)})
    /\ spc' = "done"
    /\ UNCHANGED <<file, try, pos>>

StreamStep ==
    \/ Answered \/ EndOfBody
    \/ \E n \in Lines : ReadChunk(n)

StreamFault ==
    \/ NotFound
    \/ \E a \in Retried \cup Escaping : RequestFails(a)
    \/ \E a \in {"unreachable", "broken"} : BodyFails(a)

StreamNext == Close \/ StreamStep \/ StreamFault \/ \E f \in Files : Open(f)

StreamSpec == StreamInit /\ [][StreamNext]_streamVars

StreamFairness == WF_streamVars(StreamStep)
----------------------------------------------------------------------------
\* However the file is cut into chunks, a stream that ends as it should has given
\* every row: the ones a chunk boundary cuts, and a last one without a line feed.
EveryRowGiven == spc = "done" => \A i \in Lines : Row(i) => given[i] >= 1

\* Rows are repeated only as often as the file was started again: a first attempt
\* that succeeds gives each row once.
RepeatsAreRetries == \A i \in Lines : given[i] <= try

\* The caller gets rows from the top in each attempt, none skipped, and never the
\* header or a line without cells.
RowsFromTheTop ==
    \A i \in Lines :
        /\ given[i] > 0 => Row(i)
        /\ \A j \in 1 .. i : Row(i) /\ Row(j) => given[i] <= given[j]

\* A stream that was opened ends, the connection failing as it may.
StreamEnds == spc = "request" ~> spc \in Ended
============================================================================
