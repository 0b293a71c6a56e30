----------------------------- MODULE Supervisor -----------------------------
(***************************************************************************)
(* internal/worker: the goroutine that, every 5 s, lists the pipelines,    *)
(* asks for the jobs of each one and calls RestartPipeline (in             *)
(* internal/arroyo) for those with a stopped or failed job.  A restart is  *)
(* three calls: fetch the definition, delete the pipeline, create it       *)
(* again; between the last two the definition exists only in this          *)
(* goroutine's memory.                                                     *)
(***************************************************************************)
EXTENDS ArroyoApi

VARIABLES
    spc,      \* "off", "idle" (waiting for the ticker) or the call to make next
    queue,    \* the listed pipelines this round has still to inspect
    cur,      \* the pipeline being restarted
    held      \* its definition, as RestartPipeline fetched it

supervisorVars == <<spc, queue, cur, held>>

-----------------------------------------------------------------------------
SupervisorTypeOK ==
    /\ spc \in {"off", "idle", "check", "fetch", "delete", "recreate"}
    /\ queue \subseteq DOMAIN pipes
    /\ cur \in Nat \cup {None}
    /\ held \in Definition \cup {None}
    /\ spc \in {"fetch", "delete", "recreate"} => cur \in DOMAIN pipes
    /\ spc \in {"delete", "recreate"} => held \in Definition

SupervisorInit ==
    /\ spc = "off"
    /\ queue = {}
    /\ cur = None
    /\ held = None

\* The state-changing call the goroutine is making.
SupervisorCall ==
    IF spc = "delete" THEN {DeleteReq(cur)}
    ELSE IF spc = "recreate" THEN {CreateReq("supervisor", held)}
    ELSE {}

\* The process exits: the goroutine ends, a restart under way with it.
SupervisorOff ==
    /\ spc' = "off"
    /\ queue' = {}
    /\ cur' = None
    /\ held' = None

-----------------------------------------------------------------------------
\* The ticker fires and the pipelines are listed.  A failed list ends the
\* round; so does an error reply that decodes, as an empty list.
Tick ==
    /\ spc = "idle"
    /\ \/ queue' = Live /\ spc' = "check" /\ UNCHANGED apiVars
       \/ FailedGet /\ UNCHANGED <<queue, spc>>
    /\ UNCHANGED <<cur, held>>

\* Faulty variants: everything that does not run; only what was stopped.
hasFailedIfNotRunning(i) == pipes[i].job \notin {"Running", "Deleted"}

hasFailedIfStopped(i) == pipes[i].job = "Stopped"

\* One of the pipeline's jobs has stopped or failed.  A pipeline that is gone
\* has no jobs.
hasFailed(i) == pipes[i].job \in {"Stopped", "Failed"}

\* The jobs of the next listed pipeline are fetched; a failure skips it.
CheckJobs ==
    /\ spc = "check"
    /\ \E i \in queue :
        /\ queue' = queue \ {i}
        /\ \/ hasFailed(i) /\ spc' = "fetch" /\ cur' = i /\ UNCHANGED apiVars
           \/ ~hasFailed(i) /\ UNCHANGED <<spc, cur, apiVars>>
           \/ FailedGet /\ UNCHANGED <<spc, cur>>
    /\ UNCHANGED held

EndRound ==
    /\ spc = "check"
    /\ queue = {}
    /\ spc' = "idle"
    /\ UNCHANGED <<queue, cur, held, apiVars>>

-----------------------------------------------------------------------------
\* Faulty variant: the reported parallelism is not taken over.
FetchedWithDefault(d) == [d EXCEPT !.parallelism = 1]

\* The definition as GET /pipelines/{id} returns it: a missing parallelism
\* becomes 1.
Fetched(d) ==
    IF ReportsParallelism THEN d ELSE [d EXCEPT !.parallelism = 1]

\* RestartPipeline gives up: the error is logged and the round goes on.
GiveUp ==
    /\ spc' = "check"
    /\ cur' = None
    /\ held' = None

\* Faulty variant: the status is not looked at.
FetchPipelineAnyStatus ==
    /\ spc = "fetch"
    /\ spc' = "delete"
    /\ IF cur \in Live THEN held' = Fetched(pipes[cur].def) ELSE UNCHANGED held
    /\ UNCHANGED <<cur, queue, apiVars>>

FetchPipeline ==
    /\ spc = "fetch"
    /\ \/ /\ cur \in Live
          /\ held' = Fetched(pipes[cur].def)
          /\ spc' = "delete"
          /\ UNCHANGED <<cur, apiVars>>
       \/ /\ cur \notin Live
          /\ GiveUp
          /\ UNCHANGED apiVars
       \/ FailedGet /\ GiveUp
    /\ UNCHANGED queue

\* Faulty variant: 204 No Content is taken for a failure.
DeletePipelineExpectingBody ==
    /\ spc = "delete"
    /\ \E reply \in Reply : Call(DeleteReq(cur), reply)
    /\ GiveUp
    /\ UNCHANGED queue

\* Faulty variant: only a refusal ends the restart.
DeletePipelineUnlessRefused ==
    /\ spc = "delete"
    /\ \E reply \in Reply :
        /\ Call(DeleteReq(cur), reply)
        /\ \/ reply # "refused" /\ spc' = "recreate" /\ UNCHANGED <<cur, held>>
           \/ reply = "refused" /\ GiveUp
    /\ UNCHANGED queue

DeletePipeline ==
    /\ spc = "delete"
    /\ \E reply \in Reply :
        /\ Call(DeleteReq(cur), reply)
        /\ \/ reply = "ok" /\ spc' = "recreate" /\ UNCHANGED <<cur, held>>
           \/ reply # "ok" /\ GiveUp
    /\ UNCHANGED queue

\* 500 ms later; whatever the reply, the restart is over.
RecreatePipeline ==
    /\ spc = "recreate"
    /\ \E reply \in Reply : Call(CreateReq("supervisor", held), reply)
    /\ GiveUp
    /\ UNCHANGED queue

SupervisorStep ==
    \/ Tick \/ CheckJobs \/ EndRound
    \/ FetchPipeline \/ DeletePipeline \/ RecreatePipeline
=============================================================================
