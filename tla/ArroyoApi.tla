----------------------------- MODULE ArroyoApi -----------------------------
(***************************************************************************)
(* The Arroyo stream processor as the API server sees it through           *)
(* internal/arroyo: the pipelines and connection tables it stores, the     *)
(* requests that create and delete them, and the ways one HTTP call can    *)
(* end.  The server itself is external to the repository; what it does is  *)
(* read off the replies the client code distinguishes.                     *)
(*                                                                         *)
(* Every call is one step at the moment the server executes it.  A call    *)
(* that is not answered with success either was never executed, or was     *)
(* executed and its answer lost, or is executed later, after the client's  *)
(* 10 s timeout (the request then waits in late).                          *)
(***************************************************************************)
EXTENDS Naturals, Sequences

CONSTANTS
    Topics,              \* the Kafka topics that may ever exist
    RunNames,            \* the pipeline names users may submit to POST /jobs/run
    Demo,                \* the fixed query of POST /jobs/run
    None,                \* no value
    NamesUnique,         \* does Arroyo refuse a second pipeline of the same name?
    ReportsParallelism,  \* does GET /pipelines/{id} include "parallelism"?
    MaxFaults            \* bound: failed calls and process exits

ASSUME ApiAssumption ==
    /\ Demo \notin Topics
    /\ NamesUnique \in BOOLEAN
    /\ ReportsParallelism \in BOOLEAN
    /\ MaxFaults \in Nat

VARIABLES
    pipes,      \* every pipeline ever created, by id; a deleted one stays as such
    tables,     \* the topics whose Kafka connection table exists
    late,       \* requests the client gave up on and the server may still execute
    faults      \* failed calls and process exits so far

apiVars == <<pipes, tables, late, faults>>

-----------------------------------------------------------------------------
Names == Topics \cup RunNames

\* What a pipeline is created from.  A query is named by the topic whose
\* connection table it reads, or is the demo query.
Definition ==
    [name: Names, query: Topics \cup {Demo}, parallelism: {1, 3}]

JobState == {"Scheduling", "Running", "Stopped", "Failed"}

Pipeline == [def: Definition, job: JobState \cup {"Deleted"}]

Sender == {"watcher", "supervisor", "user"}

\* A request is told from an equal one by its sender and by the failures before
\* it: of two that end as failures, the second is sent after the first failed,
\* or, at a process exit, by another sender.
Request ==
         [op: {"create"}, def: Definition, by: Sender, no: Nat]
    \cup [op: {"delete"}, id: Nat, no: Nat]
    \cup [op: {"table"}, topic: Topics, no: Nat]

CreateReq(by, d) == [op |-> "create", def |-> d, by |-> by, no |-> faults]
DeleteReq(i)     == [op |-> "delete", id |-> i, no |-> faults]
TableReq(t)      == [op |-> "table", topic |-> t, no |-> faults]

ApiTypeOK ==
    /\ pipes \in Seq(Pipeline)
    /\ tables \subseteq Topics
    /\ late \subseteq Request
    /\ faults \in 0..MaxFaults

ApiInit ==
    /\ pipes = <<>>
    /\ tables = {}
    /\ late = {}
    /\ faults = 0

-----------------------------------------------------------------------------
Live == {i \in DOMAIN pipes : pipes[i].job # "Deleted"}

LiveNames == {pipes[i].def.name : i \in Live}

\* Would the server execute r, or answer that it cannot ("already exists",
\* 404)?  A second pipeline of one name is refused only by NamesUnique.
Accepts(r) ==
    CASE r.op = "create" -> NamesUnique => r.def.name \notin LiveNames
      [] r.op = "delete" -> r.id \in Live
      [] r.op = "table"  -> r.topic \notin tables

\* The effect of a request the server accepts.
Executes(r) ==
    \/ /\ r.op = "create"
       /\ pipes' = Append(pipes, [def |-> r.def, job |-> "Scheduling"])
       /\ UNCHANGED tables
    \/ /\ r.op = "delete"
       /\ pipes' = [pipes EXCEPT ![r.id].job = "Deleted"]
       /\ UNCHANGED tables
    \/ /\ r.op = "table"
       /\ tables' = tables \cup {r.topic}
       /\ UNCHANGED pipes

Fault ==
    /\ faults < MaxFaults
    /\ faults' = faults + 1

Reply == {"ok", "refused", "error"}

\* One POST or DELETE and what the client learns of it.  "error" stands for a
\* transport error, a timeout, any other status, or a body that cannot be
\* decoded: the client cannot tell whether the server executed the request.
Call(r, reply) ==
    \/ /\ reply = "ok"
       /\ Accepts(r)
       /\ Executes(r)
       /\ UNCHANGED <<late, faults>>
    \/ /\ reply = "refused"
       /\ ~Accepts(r)
       /\ UNCHANGED <<pipes, tables, late, faults>>
    \/ /\ reply = "error"
       /\ Fault
       /\ \/ UNCHANGED <<pipes, tables, late>>
          \/ Accepts(r) /\ Executes(r) /\ UNCHANGED late
          \/ late' = late \cup {r} /\ UNCHANGED <<pipes, tables>>

\* A GET that fails changes nothing on the server.
FailedGet ==
    /\ Fault
    /\ UNCHANGED <<pipes, tables, late>>

-----------------------------------------------------------------------------
\* The server gets to a request whose client has given up: it executes it or
\* refuses it.
LateRequest ==
    \E r \in late :
        /\ late' = late \ {r}
        /\ IF Accepts(r) THEN Executes(r) ELSE UNCHANGED <<pipes, tables>>
        /\ UNCHANGED faults

\* The job of pipeline i changes its state, inside Arroyo.
JobBecomes(i, state) ==
    /\ pipes' = [pipes EXCEPT ![i].job = state]
    /\ UNCHANGED <<tables, late, faults>>
=============================================================================
