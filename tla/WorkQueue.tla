----------------------------- MODULE WorkQueue -----------------------------
(***************************************************************************)
(* The Service Bus queue of work items, in peek-lock mode, as the Functions*)
(* host drives it for historical_worker (external: modelled from the       *)
(* trigger, host.json and what the worker relies on).  A message is locked *)
(* for the invocation that receives it.  Returning settles it if the lock  *)
(* still holds; raising, a crash or an expired lock gives it back, and     *)
(* after MaxDeliveries deliveries it moves to the broker's own dead-letter *)
(* queue.  Messages are numbered in the order they are sent and may be     *)
(* received in any order.                                                  *)
(***************************************************************************)
EXTENDS Domain

VARIABLE msgs       \* every message ever sent

MsgStates == {"unsent", "ready", "locked", "done", "expired"}

Message == [body   : Keys \cup {None},      \* None: not a valid work item
            status : MsgStates,             \* expired: in the broker's own DLQ
            owner  : Workers \cup {None},   \* lock holder, None once it crashed
            count  : 0 .. MaxDeliveries]

QueueTypeOK == msgs \in [MsgIds -> Message]

Unsent == [body |-> None, status |-> "unsent", owner |-> None, count |-> 0]

QueueInit == msgs = [m \in MsgIds |-> Unsent]

FreeSlots == {m \in MsgIds : msgs[m].status = "unsent"}

\* Nothing waits and nothing is being worked on.
Drained == \A m \in MsgIds : msgs[m].status \notin {"ready", "locked"}
---------------------------------------------------------------------------
SendMessage(b) ==
    \E m \in FreeSlots :
        /\ \A n \in FreeSlots : m <= n
        /\ msgs' = [msgs EXCEPT ![m].body = b, ![m].status = "ready"]

ReceiveMessage(w, m) ==
    /\ msgs[m].status = "ready"
    /\ msgs' = [msgs EXCEPT ![m].status = "locked",
                            ![m].owner = w,
                            ![m].count = @ + 1]

Holds(w, m) == msgs[m].status = "locked" /\ msgs[m].owner = w

\* Back on the queue, unless this was the last delivery.
GiveBack(m) ==
    msgs' = [msgs EXCEPT
               ![m].status = IF msgs[m].count < MaxDeliveries THEN "ready" ELSE "expired",
               ![m].owner = None]

\* The host completes (or abandons) what the invocation held; without the lock
\* the broker refuses and nothing changes.
CompleteMessage(w, m) ==
    msgs' = IF Holds(w, m)
            THEN [msgs EXCEPT ![m].status = "done", ![m].owner = None]
            ELSE msgs

AbandonMessage(w, m) ==
    IF Holds(w, m) THEN GiveBack(m) ELSE UNCHANGED msgs

\* The host is gone: the lock stands, but no one will renew or settle it.
OrphanMessage(w, m) ==
    msgs' = IF Holds(w, m) THEN [msgs EXCEPT ![m].owner = None] ELSE msgs

\* The broker's lock timer ends a lock that no one renews.
OrphanExpires(m) ==
    /\ msgs[m].status = "locked"
    /\ msgs[m].owner = None
    /\ GiveBack(m)

\* Lock renewal stops after 65 minutes, an invocation may last 70; renewal can
\* also simply fail.  The invocation does not learn of it.
LockLost(m) ==
    /\ msgs[m].status = "locked"
    /\ msgs[m].owner # None
    /\ GiveBack(m)
===========================================================================
