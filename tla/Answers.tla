------------------------------- MODULE Answers ------------------------------
(***************************************************************************)
(* What GET /aggregate promises, whatever lies between the handler and the *)
(* tables: the answer to a request is made of the readings of a window     *)
(* that ends not long ago, it leaves out none that had arrived by then,    *)
(* and "no readings found" means that there were none.                     *)
(***************************************************************************)
EXTENDS Readings

CONSTANTS
    Requests,    \* the requests
    Args,        \* what they may ask for: [sensor, type, window]
    MaxAge,      \* the greatest age of an answer
    NoAnswer

VARIABLES
    asked,       \* the arguments of each request
    status,      \* "new", "asked", or how it was answered
    answer       \* the aggregate a request was answered with

vars == <<readings, asked, status, answer>>

Init ==
    /\ clock \in Int
    /\ arrived = [r \in Readings |-> Never]
    /\ asked \in [Requests -> Args]
    /\ status = [q \in Requests |-> "new"]
    /\ answer = [q \in Requests |-> NoAnswer]

\* rows may be answered, as of time at, to a request for the readings of type.
Complete(a, type, at, rows) ==
    /\ rows \subseteq {r \in Stored : r.sensor = a.sensor /\ r.type = type}
    /\ \A r \in rows : at - a.window <= r.at /\ r.at <= at
    /\ Due(a.sensor, type, at - a.window, at, at) \subseteq rows

Environment ==
    /\ \/ clock' = clock + 1 /\ UNCHANGED arrived
       \/ \E r \in Readings : Insert(r)
    /\ UNCHANGED <<asked, status, answer>>

Ask(q) ==
    /\ status[q] = "new"
    /\ status' = [status EXCEPT ![q] = "asked"]
    /\ \E a \in Args : asked' = [asked EXCEPT ![q] = a]
    /\ UNCHANGED <<readings, answer>>

\* The readings answered with may be of another type than the request asked for:
\* the cache does not tell the types apart.
Answer(q) ==
    /\ status[q] = "asked"
    /\ status' = [status EXCEPT ![q] = "ok"]
    /\ \E at \in (clock - MaxAge)..clock, a \in Args, rows \in SUBSET Stored :
          /\ a.sensor = asked[q].sensor
          /\ a.window = asked[q].window
          /\ rows # {}
          /\ Complete(a, a.type, at, rows)
          /\ answer' = [answer EXCEPT ![q] = [at |-> at, rows |-> rows]]
    /\ UNCHANGED <<readings, asked>>

NotFound(q) ==
    /\ status[q] = "asked"
    /\ status' = [status EXCEPT ![q] = "notfound"]
    /\ \E at \in (clock - MaxAge)..clock :
          Complete(asked[q], asked[q].type, at, {})
    /\ UNCHANGED <<readings, asked, answer>>

Fail(q) ==
    /\ status[q] = "asked"
    /\ status' = [status EXCEPT ![q] = "error"]
    /\ UNCHANGED <<readings, asked, answer>>

Next ==
    \/ Environment
    \/ \E q \in Requests : Ask(q) \/ Answer(q) \/ NotFound(q) \/ Fail(q)

Spec == Init /\ [][Next]_vars
=============================================================================
