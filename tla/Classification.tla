--------------------------- MODULE Classification ---------------------------
(***************************************************************************)
(* _is_transient: whether historical_worker raises a failure again, so     *)
(* that its message is redelivered, or completes the message and leaves    *)
(* the file to the dead-letter queue.  An exception is given with its      *)
(* causes, outermost first; each is a class and, if it has one, a status.  *)
(***************************************************************************)
EXTENDS Naturals, Sequences

NoStatus == 0

Error(class)            == [class |-> class, status |-> NoStatus]
ErrorWith(class, status) == [class |-> class, status |-> status]

RetriedStatus(s) == s >= 500 \/ s \in {408, 429}

\* Classes that are always worth a retry.  The ServiceBusErrors that are not (no
\* entity, no rights, too large a message) are classes of their own.
TransportErrors ==
    {"AdlsCommitContentionError", "ServiceRequestError", "ServiceResponseError",
     "ServiceBusError", "TimeoutException", "TransportError"}

IsTransientSingle(e) ==
    \/ e.class \in TransportErrors
    \/ e.class \in {"HttpResponseError", "HTTPStatusError"} /\ RetriedStatus(e.status)

\* Slip: the causes are not looked at.
IsTransientOutermost(chain) == IsTransientSingle(Head(chain))

IsTransient(chain) == \E i \in DOMAIN chain : IsTransientSingle(chain[i])
=============================================================================
