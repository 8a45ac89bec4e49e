---------------------------- MODULE Environment ----------------------------
(***************************************************************************)
(* The world around the function app (external): the OEDI bucket, whose    *)
(* owner replaces files at will; the UTC calendar the worker stamps paths  *)
(* with; and the budget of things that may go wrong.                       *)
(***************************************************************************)
EXTENDS Domain

VARIABLES
    src,        \* revision of each S3 object; 0: not published yet
    day,        \* today, UTC
    faults      \* failures so far

envVars == <<src, day, faults>>

EnvTypeOK ==
    /\ src \in [Keys -> 0 .. MaxRev]
    /\ day \in Days
    /\ faults \in 0 .. MaxFaults

EnvInit ==
    /\ src = [k \in Keys |-> 0]
    /\ day = 1
    /\ faults = 0

PutObject(k) ==
    /\ src[k] < MaxRev
    /\ src' = [src EXCEPT ![k] = @ + 1]
    /\ UNCHANGED <<day, faults>>

NextDay ==
    /\ day < MaxDay
    /\ day' = day + 1
    /\ UNCHANGED <<src, faults>>

\* Every action that is somebody's failure pays for it.
Fault ==
    /\ faults < MaxFaults
    /\ faults' = faults + 1
    /\ UNCHANGED <<src, day>>
===========================================================================
