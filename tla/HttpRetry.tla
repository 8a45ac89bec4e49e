----------------------------- MODULE HttpRetry -----------------------------
(***************************************************************************)
(* get_with_retry, and the same loop written out in stream_csv_rows: what  *)
(* becomes of the n-th attempt at a request, by how it was answered.       *)
(* Waiting between attempts takes time but changes nothing.                *)
(***************************************************************************)
EXTENDS Naturals

CONSTANT MaxRetries     \* MAX_RETRIES

ASSUME RetriesAssumption == MaxRetries \in Nat \ {0}

Attempts == 1 .. MaxRetries

Retried == {"serverError",      \* status >= 500
            "unreachable"}      \* ConnectError, ConnectTimeout, ReadTimeout
Escaping == {"clientError",     \* any other error status: raise_for_status
             "broken"}          \* any other exception, a body that cannot be read
Answers == {"ok", "notFound"} \cup Retried \cup Escaping

\* Slip: the last attempt is followed by another.
OnceMore(n, a) ==
    CASE a \in Escaping -> "escape"
      [] a \in Retried  -> IF n <= MaxRetries THEN "again" ELSE "giveUp"
      [] OTHER          -> "return"

\* Slip: after the last attempt the error itself is raised, not error_class.
LastErrorRaised(n, a) ==
    CASE a \in Escaping -> "escape"
      [] a \in Retried  -> IF n < MaxRetries THEN "again" ELSE "escape"
      [] OTHER          -> "return"

\* A 404 is returned like a success, for the caller to handle.
Verdict(n, a) ==
    CASE a \in Escaping -> "escape"
      [] a \in Retried  -> IF n < MaxRetries THEN "again" ELSE "giveUp"
      [] OTHER          -> "return"
============================================================================
