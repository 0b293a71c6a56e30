------------------------------ MODULE Uncached ------------------------------
(***************************************************************************)
(* GET /latest as it would be without a cache: a request reads the table   *)
(* once, at some moment after it began, and answers with the newest N of   *)
(* what the bucket of its day held at that moment; or it fails.            *)
(***************************************************************************)
EXTENDS Readings, FiniteSets

CONSTANTS
    Requests,    \* the requests
    N,           \* how many readings are asked for
    Zone,        \* the server's local time is UTC plus this
    Form         \* the form in which each reading is answered

VARIABLES
    status,      \* "new", "asked", "found", or how the request ended
    began,       \* when it began
    found        \* the readings it found, in their form

vars == <<readings, status, began, found>>

Init ==
    /\ clock \in Int
    /\ arrived = [r \in Readings |-> Never]
    /\ status = [q \in Requests |-> "new"]
    /\ began = [q \in Requests |-> 0]
    /\ found = [q \in Requests |-> {}]

Environment ==
    /\ \/ clock' = clock + 1 /\ UNCHANGED arrived
       \/ \E r \in Readings : Insert(r)
    /\ UNCHANGED <<status, began, found>>

Ask(q) ==
    /\ status[q] = "new"
    /\ status' = [status EXCEPT ![q] = "asked"]
    /\ began' = [began EXCEPT ![q] = clock]
    /\ UNCHANGED <<readings, found>>

\* At most N readings of the bucket; what is left out comes before all of N.
Latest(bucket, top) ==
    /\ top \subseteq bucket
    /\ Cardinality(top) <= N
    /\ \A r \in bucket \ top : Cardinality(top) = N /\ \A s \in top : s.at > r.at

Read(q) ==
    /\ status[q] = "asked"
    /\ status' = [status EXCEPT ![q] = "found"]
    /\ \E top \in SUBSET Stored :
          /\ Latest({r \in Stored : r.day = DayOf(began[q] + Zone)}, top)
          /\ found' = [found EXCEPT ![q] = {Form[r] : r \in top}]
    /\ UNCHANGED <<readings, began>>

Answer(q) ==
    /\ status[q] = "found"
    /\ status' = [status EXCEPT ![q] = "ok"]
    /\ UNCHANGED <<readings, began, found>>

Fail(q) ==
    /\ status[q] = "asked"
    /\ status' = [status EXCEPT ![q] = "error"]
    /\ UNCHANGED <<readings, began, found>>

Next ==
    \/ Environment
    \/ \E q \in Requests : Ask(q) \/ Read(q) \/ Answer(q) \/ Fail(q)

Spec == Init /\ [][Next]_vars
=============================================================================
