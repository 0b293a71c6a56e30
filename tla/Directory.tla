------------------------------ MODULE Directory -----------------------------
(***************************************************************************)
(* What registration promises, without calls, tables or a broker: each     *)
(* request asks once and gets at most one answer, which is final; a        *)
(* request that was turned away leaves nothing behind, ever; what is       *)
(* listed stays listed; and a request that met no failure does not enter   *)
(* a name that was listed when it asked.                                   *)
(***************************************************************************)

CONSTANTS
    Requests,    \* the registration requests
    Arguments    \* what they may ask for

VARIABLES
    arg,         \* what each request asks for
    status,      \* "new", "asked", or the answer
    seen,        \* what was listed when it asked
    listed,      \* the requests whose field or sensor is listed
    given,       \* the requests whose sensor has credentials
    faulted      \* the requests that met a failure

vars == <<arg, status, seen, listed, given, faulted>>

Init ==
    /\ arg \in [Requests -> Arguments]
    /\ status = [r \in Requests |-> "new"]
    /\ seen = [r \in Requests |-> {}]
    /\ listed = {}
    /\ given = {}
    /\ faulted = {}

Ask(r) ==
    /\ status[r] = "new"
    /\ status' = [status EXCEPT ![r] = "asked"]
    /\ seen' = [seen EXCEPT ![r] = listed]
    /\ UNCHANGED <<arg, listed, given, faulted>>

-----------------------------------------------------------------------------
\* Writes of a request are made while it asks; after a failure, later ones too.
MayWrite(r) == status[r] = "asked" \/ (r \in faulted /\ status[r] \notin {"new", "exists"})

\* r's field or sensor is entered in the list.
Enter(r) ==
    /\ r \in faulted' \/ ~ \E q \in seen[r] : arg[q] = arg[r]
    /\ listed' = listed \cup {r}
    /\ UNCHANGED given

\* r's sensor, which is listed, gets its credentials.
Give(r) ==
    /\ arg[r].kind = "sensor"
    /\ r \in listed
    /\ given' = given \cup {r}
    /\ UNCHANGED listed

Write(r) == MayWrite(r) /\ (Enter(r) \/ Give(r) \/ UNCHANGED <<listed, given>>)

\* The answers there may be.
Created(r) ==
    r \in faulted' \/ (r \in listed' /\ (arg[r].kind = "sensor" => r \in given'))

Exists(r) ==
    /\ r \notin listed'
    /\ \E q \in listed : arg[q] = arg[r]

Answer(r) ==
    /\ status[r] = "asked"
    /\ \E a \in {"created", "exists", "error"} :
          /\ status' = [status EXCEPT ![r] = a]
          /\ a = "created" => Created(r)
          /\ a = "exists" => Exists(r)
          /\ a = "error" => r \in faulted'

\* A request's step: a write, an answer, or both; it may fail.
Step(r) ==
    /\ Write(r)
    /\ faulted' = faulted \/ (status[r] = "asked" /\ faulted' = faulted \cup {r})
    /\ Answer(r) \/ UNCHANGED status
    /\ UNCHANGED <<arg, seen>>

-----------------------------------------------------------------------------
Asking == {r \in Requests : status[r] = "asked"}

\* The requests in progress are ended.
Abort ==
    /\ status' = [r \in Requests |-> IF r \in Asking THEN "gone" ELSE status[r]]
    /\ faulted' = faulted \cup Asking
    /\ UNCHANGED <<arg, seen, listed, given>>

Next ==
    \/ Abort
    \/ \E r \in Requests : Ask(r) \/ Step(r)

Spec == Init /\ [][Next]_vars
=============================================================================
