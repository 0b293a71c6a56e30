----------------------------- MODULE Pipelines ------------------------------
(***************************************************************************)
(* The API process around the Arroyo server: cmd/api starts the Kafka      *)
(* watcher and the pipeline supervisor, and serves POST /jobs/run, all     *)
(* three creating pipelines in the same Arroyo.  The process may exit at   *)
(* any step and be started again; nothing it knows survives.               *)
(***************************************************************************)
EXTENDS Watcher, Supervisor, FiniteSets

CONSTANTS
    MayExit,      \* may the API process exit?
    JobEvents,    \* what may befall a job: a subset of {"fail", "stop", "resume"}
    MaxIncidents  \* bound: job events and POST /jobs/run requests

ASSUME PipelinesAssumption ==
    /\ Managed \subseteq Topics
    /\ MayExit \in BOOLEAN
    /\ JobEvents \subseteq {"fail", "stop", "resume"}
    /\ MaxIncidents \in Nat

VARIABLE incidents    \* job events and POST /jobs/run requests so far

vars == <<apiVars, watcherVars, supervisorVars, incidents>>

TypeOK ==
    /\ ApiTypeOK
    /\ WatcherTypeOK
    /\ SupervisorTypeOK
    /\ incidents \in 0..MaxIncidents
    /\ wpc = "off" <=> spc = "off"

Init == ApiInit /\ WatcherInit /\ SupervisorInit /\ incidents = 0

-----------------------------------------------------------------------------
\* main: the connection profiles are listed, then both goroutines start.
\* When the list fails, main exits again.
Boot ==
    /\ wpc = "off"
    /\ \/ /\ wpc' = "dial"
          /\ spc' = "idle"
          /\ UNCHANGED apiVars
       \/ FailedGet /\ UNCHANGED <<wpc, spc>>
    /\ UNCHANGED <<topics, metadata, knownTopics, todo, topic>>
    /\ UNCHANGED <<queue, cur, held, incidents>>

\* The process exits: a fatal error (the watcher's dial, the HTTP server) or a
\* crash.  log.Fatal runs no deferred call, so no step is completed first; a
\* request on its way may still be executed.
Exit ==
    /\ MayExit
    /\ wpc # "off"
    /\ Fault
    /\ \E sent \in SUBSET (WatcherCall \cup SupervisorCall) : late' = late \cup sent
    /\ WatcherOff
    /\ SupervisorOff
    /\ UNCHANGED <<pipes, tables, incidents>>

-----------------------------------------------------------------------------
Incident ==
    /\ incidents < MaxIncidents
    /\ incidents' = incidents + 1

\* POST /jobs/run: one request to Arroyo with the fixed query; its outcome
\* changes nothing in the process.
RunJob(n) ==
    /\ wpc # "off"
    /\ Incident
    /\ \E reply \in Reply :
        Call(CreateReq("user", [name |-> n, query |-> Demo, parallelism |-> 3]), reply)
    /\ UNCHANGED <<watcherVars, supervisorVars>>

JobStarts(i) ==
    /\ pipes[i].job = "Scheduling"
    /\ JobBecomes(i, "Running")
    /\ UNCHANGED <<watcherVars, supervisorVars, incidents>>

JobFails(i) ==
    /\ "fail" \in JobEvents
    /\ pipes[i].job \in {"Scheduling", "Running"}
    /\ JobBecomes(i, "Failed")
    /\ Incident
    /\ UNCHANGED <<watcherVars, supervisorVars>>

\* An operator stops a job, or starts a stopped or failed one again, in
\* Arroyo's own console.
JobStops(i) ==
    /\ "stop" \in JobEvents
    /\ pipes[i].job \in {"Scheduling", "Running"}
    /\ JobBecomes(i, "Stopped")
    /\ Incident
    /\ UNCHANGED <<watcherVars, supervisorVars>>

JobResumes(i) ==
    /\ "resume" \in JobEvents
    /\ pipes[i].job \in {"Stopped", "Failed"}
    /\ JobBecomes(i, "Scheduling")
    /\ Incident
    /\ UNCHANGED <<watcherVars, supervisorVars>>

-----------------------------------------------------------------------------
Watch == WatcherStep /\ UNCHANGED <<supervisorVars, incidents>>

Supervise == SupervisorStep /\ UNCHANGED <<watcherVars, incidents>>

Arroyo ==
    \/ LateRequest /\ UNCHANGED <<watcherVars, supervisorVars, incidents>>
    \/ \E i \in DOMAIN pipes :
          JobStarts(i) \/ JobFails(i) \/ JobStops(i) \/ JobResumes(i)

Next ==
    \/ Boot
    \/ Exit
    \/ Watch
    \/ Supervise
    \/ Arroyo
    \/ \E n \in RunNames : RunJob(n)
    \/ \E t \in Topics : TopicAppears(t) /\ UNCHANGED <<supervisorVars, incidents>>

Spec == Init /\ [][Next]_vars

-----------------------------------------------------------------------------
(***************************************************************************)
(* What is kept and what is lost.  A flow is a pipeline's name and query;  *)
(* it is kept while a pipeline runs it, or the supervisor holds it between *)
(* deleting a pipeline and creating it again.                              *)
(***************************************************************************)
FlowOf(d) == <<d.name, d.query>>

Created == {FlowOf(pipes[i].def) : i \in DOMAIN pipes}

Kept ==
    {FlowOf(pipes[i].def) : i \in Live}
        \cup (IF spc = "recreate" THEN {FlowOf(held)} ELSE {})

\* Two different flows cannot meet under one name in an Arroyo that refuses
\* the second.
NamesSeparate == NamesUnique => RunNames \cap Topics = {}

\* Each failed call or process exit costs at most one flow, whatever happens
\* between the three calls of a restart; without any, no flow is lost
\* (arroyo.go, RestartPipeline).
LossWithinFaults ==
    NamesSeparate => Cardinality(Created \ Kept) <= faults

\* A pipeline never reads a connection table that was not created: the table
\* comes first and its failure stops createArroyoFlow (watcher.go).
FlowHasTable ==
    \A i \in Live : pipes[i].def.query \in Topics => pipes[i].def.query \in tables

\* A pipeline was created under the topic's name; of those names that users do not
\* give to their jobs, it was the topic's flow.
HadFlow(t) ==
    \E i \in DOMAIN pipes :
        /\ pipes[i].def.name = t
        /\ t \notin RunNames => pipes[i].def.query = t

\* A known topic, which the watcher will never look at again, had a pipeline
\* created under its name; and that was its flow, unless users may name a job
\* like this very topic (watcher.go).
KnownTopicHadFlow == \A t \in knownTopics \cap Topics : HadFlow(t)

\* Copies of a topic's flow, counting the one the supervisor is about to create
\* again.
Copies(t) ==
    Cardinality({i \in Live : pipes[i].def.query = t})
        + (IF spc = "recreate" /\ held.query = t THEN 1 ELSE 0)

\* A topic has one flow, and at most one more for each failed call or process
\* exit, though nobody asks Arroyo before creating (watcher.go, arroyo.go).
CopiesWithinFaults ==
    \A t \in Topics : Copies(t) <= 1 + faults

\* Without a failure, every topic that became known, and that the watcher therefore
\* never looks at again, has its one flow: running, or about to be created again;
\* not none, not two (watcher.go Run, arroyo.go RestartPipeline).  A job named like
\* a topic leaves at most that topic without.
TopicHasItsFlow ==
    faults = 0 /\ NamesSeparate =>
        \A t \in (knownTopics \cap Topics) \ RunNames : Copies(t) = 1

\* A topic whose calls fail does not hold up the others: a scan leaves no more of the
\* managed topics it listed without a flow than there were failures (watcher.go Run).
ScanWithinFaults ==
    wpc = "refresh" => Cardinality((metadata \cap Managed) \ knownTopics) <= faults

\* A restart keeps a pipeline's parallelism, if Arroyo reports it: 1 for the
\* watcher's pipelines, 3 for the users' (arroyo.go, RestartPipeline).
ParallelismKept ==
    ReportsParallelism =>
        \A i \in Live :
            pipes[i].def.parallelism = IF pipes[i].def.query \in Topics THEN 1 ELSE 3

\* The flows kept and lost behave as the catalog: a restart is invisible in it,
\* and so is the order of the supervisor's, the watcher's and the users' calls
\* (arroyo.go RestartPipeline, watcher.go createArroyoFlow).  For NamesSeparate.
Flows == INSTANCE Catalog WITH
    Flow <- Names \X (Topics \cup {Demo}),
    kept <- Kept,
    lost <- Created \ Kept,
    faults <- faults

CatalogKept == Flows!Spec

-----------------------------------------------------------------------------
\* The supervisor judges a pipeline by the jobs it listed two calls earlier,
\* yet it never deletes one that runs, unless operators start jobs again
\* (supervisor.go, checkAndRestartPipelines).
RunningNeverDeleted ==
    [][ "resume" \notin JobEvents =>
          \A i \in DOMAIN pipes :
              pipes[i].job \in {"Scheduling", "Running"} => pipes'[i].job # "Deleted" ]_vars

\* Copies of the users' job, counting also the creates that are late.
JobCopies ==
    Copies(Demo) + Cardinality({r \in late : r.op = "create" /\ r.def.query = Demo})

\* Nothing but a user's request adds to the users' jobs: not a restart, whichever of
\* its calls fail, not an exit in the middle of one, not a request that comes late
\* (pipelines.go CreatePipeline, arroyo.go RestartPipeline).
JobsNotMultiplied ==
    [][ JobCopies' <= JobCopies \/ \E n \in RunNames : RunJob(n) ]_vars

\* "Supervisor checks Arroyo pipelines periodically and restarts failed ones":
\* a pipeline it deletes has failed (supervisor.go).
OnlyFailedDeleted ==
    [][ \A i \in DOMAIN pipes :
          pipes[i].job # "Deleted" /\ pipes'[i].job = "Deleted" => pipes[i].job = "Failed" ]_vars

-----------------------------------------------------------------------------
(***************************************************************************)
(* Liveness.  While the process runs its two goroutines keep running, since *)
(* every call returns (the client's timeout) and every wait is a timer.    *)
(* Nothing is assumed of Arroyo, of users or of failures, nor that anyone  *)
(* starts the process, or starts it again.                                 *)
(***************************************************************************)
Fairness ==
    /\ WF_vars(Watch)
    /\ WF_vars(Supervise)

FairSpec == Spec /\ Fairness

\* Every managed topic eventually has a pipeline created under its name, its flow
\* unless users may name a job like it, whatever calls fail and however often the
\* process exits on the way, unless nobody starts it again (watcher.go, Run).
TopicGetsFlow ==
    \A t \in Managed :
        t \in topics ~> \/ HadFlow(t)
                       \/ [](wpc = "off")

Named(n) == {i \in Live : pipes[i].def.name = n}

\* "restarts failed ones": however many pipelines of a name there are at one time,
\* there are as many that have not failed at that or a later time; a failed one is
\* not made up for by another of its name (supervisor.go).
FailedIsRestarted ==
    \A n \in Names, k \in 1..MaxIncidents :
        Cardinality(Named(n)) >= k
            ~> Cardinality({i \in Named(n) : pipes[i].job # "Failed"}) >= k
=============================================================================
