------------------------ MODULE PipelinesJobsProofs -------------------------
(***************************************************************************)
(* What restarts do to the pipelines they meet, proved for every value of  *)
(* the constants: none that runs is deleted, although the supervisor's     *)
(* judgement is two calls old and a delete may be executed much later, and *)
(* none changes its parallelism on its way through the supervisor.         *)
(***************************************************************************)
EXTENDS PipelinesTypeProofs

Runs(i) == pipes[i].job \in {"Scheduling", "Running"}

\* The pipelines that requests would delete.
Targets(requests) == {r.id : r \in {q \in requests : q.op = "delete"}}

\* The pipelines a delete is on its way to: the supervisor's, and the late ones'.
Condemned == Targets(late) \cup (IF spc \in {"fetch", "delete"} THEN {cur} ELSE {})

\* The inductive invariant under RunningNeverDeleted: what is condemned does not
\* run, and will not run again.
JudgedInv ==
    "resume" \notin JobEvents => \A i \in Condemned : i \in DOMAIN pipes /\ ~Runs(i)

\* How the jobs of existing pipelines may change: only the condemned are deleted,
\* and only a running one goes on to another state.
JobsMove(targets) ==
    \A i \in DOMAIN pipes :
        \/ pipes'[i].job = pipes[i].job
        \/ i \in targets /\ pipes'[i].job = "Deleted"
        \/ Runs(i) /\ pipes'[i].job # "Deleted"

-----------------------------------------------------------------------------
\* A request that is executed changes no job but that of the pipeline it deletes.
LEMMA ExecutesJobs ==
    ASSUME ApiTypeOK, NEW r \in Request, Accepts(r), Executes(r)
    PROVE  JobsMove(Targets({r}))
<1>0. \A i \in DOMAIN pipes : pipes[i] \in Pipeline
  BY DEF ApiTypeOK
<1>1. CASE r.op = "create"
  BY <1>1 DEF Executes, ApiTypeOK, JobsMove
<1>2. CASE r.op = "delete"
  <2>1. pipes' = [pipes EXCEPT ![r.id].job = "Deleted"]
    BY <1>2 DEF Executes
  <2>2. \A i \in DOMAIN pipes : pipes'[i].job = IF i = r.id THEN "Deleted" ELSE pipes[i].job
    BY <1>0, <2>1 DEF Pipeline
  <2>3. r.id \in Targets({r})
    BY <1>2 DEF Targets
  <2>. QED
    BY <2>2, <2>3 DEF JobsMove
<1>3. CASE r.op = "table"
  BY <1>3 DEF Executes, JobsMove
<1>. QED
  BY <1>1, <1>2, <1>3 DEF Request

\* Nor does a call, whatever its reply; at most it leaves its own request behind.
LEMMA CallJobs ==
    ASSUME ApiTypeOK, NEW r \in Request, NEW reply, Call(r, reply)
    PROVE  JobsMove(Targets({r})) /\ late' \subseteq late \cup {r}
<1>1. Accepts(r) /\ Executes(r) => JobsMove(Targets({r}))
  BY ExecutesJobs
<1>2. pipes' = pipes => JobsMove(Targets({r}))
  BY DEF JobsMove
<1>. QED
  BY <1>1, <1>2 DEF Call

\* Pipelines that requests other than deletes aim at: none.
LEMMA NoTargets ==
    ASSUME NEW r, r.op # "delete"
    PROVE  Targets({r}) = {}
BY DEF Targets

\* Requests that join the late ones add their targets to the condemned.
LEMMA LateTargets ==
    ASSUME NEW R, late' \subseteq late \cup R
    PROVE  Targets(late)' \subseteq Targets(late) \cup Targets(R)
BY DEF Targets

\* The watcher and POST /jobs/run delete nothing.
LEMMA CreatorsJobs ==
    ASSUME ApiTypeOK, NEW r \in Request, r.op # "delete", NEW reply, Call(r, reply)
    PROVE  JobsMove({}) /\ Targets(late)' \subseteq Targets(late)
<1>1. JobsMove(Targets({r})) /\ late' \subseteq late \cup {r}
  BY CallJobs
<1>. QED
  BY <1>1, NoTargets, LateTargets

\* A step that leaves pipelines and late requests alone condemns nothing new.
LEMMA QuietJobs ==
    ASSUME UNCHANGED <<pipes, late>>
    PROVE  JobsMove({}) /\ Targets(late)' = Targets(late)
BY DEF JobsMove, Targets

\* A step that can delete less moves the jobs as one that can delete more.
LEMMA JobsMoveMonotone ==
    ASSUME NEW S, NEW T, S \subseteq T, JobsMove(S)
    PROVE  JobsMove(T)
BY DEF JobsMove

-----------------------------------------------------------------------------
\* The pipelines whose jobs the supervisor would act on.
Failing == {i \in DOMAIN pipes : hasFailed(i)}

\* A step of the supervisor condemns only what has stopped or failed, and deletes
\* only what was condemned.
LEMMA SupervisorJobs ==
    ASSUME ApiTypeOK, SupervisorTypeOK, SupervisorStep
    PROVE  JobsMove(Condemned) /\ Condemned' \subseteq Condemned \cup Failing
<1>1. CASE Tick \/ EndRound
  <2>1. UNCHANGED <<pipes, late>> /\ spc' \notin {"fetch", "delete"}
    BY <1>1 DEF Tick, EndRound, FailedGet, apiVars
  <2>. QED
    BY <2>1, QuietJobs, JobsMoveMonotone DEF Condemned
<1>2. CASE CheckJobs
  <2>1. PICK i \in queue :
            \/ hasFailed(i) /\ spc' = "fetch" /\ cur' = i /\ UNCHANGED apiVars
            \/ ~hasFailed(i) /\ UNCHANGED <<spc, cur, apiVars>>
            \/ FailedGet /\ UNCHANGED <<spc, cur>>
    BY <1>2 DEF CheckJobs
  <2>2. UNCHANGED <<pipes, late>> /\ spc = "check" /\ i \in DOMAIN pipes
    BY <1>2, <2>1 DEF CheckJobs, FailedGet, apiVars, SupervisorTypeOK
  <2>3. Condemned' \subseteq Condemned \cup Failing
    BY <2>1, <2>2, QuietJobs DEF Condemned, Failing
  <2>. QED
    BY <2>2, <2>3, QuietJobs, JobsMoveMonotone
<1>3. CASE FetchPipeline
  <2>1. UNCHANGED <<pipes, late>> /\ spc = "fetch"
    BY <1>3 DEF FetchPipeline, FailedGet, apiVars
  <2>2. (spc' = "delete" /\ cur' = cur) \/ spc' = "check"
    BY <1>3 DEF FetchPipeline, GiveUp
  <2>3. Condemned' \subseteq Condemned
    BY <2>1, <2>2, QuietJobs DEF Condemned
  <2>. QED
    BY <2>1, <2>3, QuietJobs, JobsMoveMonotone
<1>4. CASE DeletePipeline
  <2>1. PICK reply \in Reply : Call(DeleteReq(cur), reply)
    BY <1>4 DEF DeletePipeline
  <2>2. spc = "delete" /\ spc' \in {"recreate", "check"}
    BY <1>4 DEF DeletePipeline, GiveUp
  <2>3. DeleteReq(cur) \in Request /\ Targets({DeleteReq(cur)}) = {cur}
    <3>1. cur \in DOMAIN pipes
      BY <2>2 DEF SupervisorTypeOK
    <3>2. DeleteReq(cur) \in Request
      BY <3>1 DEF ApiTypeOK, DeleteReq, Request
    <3>. QED
      BY <3>2 DEF DeleteReq, Targets
  <2>4. JobsMove({cur}) /\ Targets(late)' \subseteq Targets(late) \cup {cur}
    BY <2>1, <2>3, CallJobs, LateTargets
  <2>5. cur \in Condemned
    BY <2>2 DEF Condemned
  <2>. QED
    BY <2>2, <2>4, <2>5, JobsMoveMonotone DEF Condemned
<1>5. CASE RecreatePipeline
  <2>1. PICK reply \in Reply : Call(CreateReq("supervisor", held), reply)
    BY <1>5 DEF RecreatePipeline
  <2>2. spc = "recreate" /\ spc' = "check"
    BY <1>5 DEF RecreatePipeline, GiveUp
  <2>3. CreateReq("supervisor", held) \in Request /\ CreateReq("supervisor", held).op = "create"
    BY <2>2, FaultsCount DEF SupervisorTypeOK, CreateReq, Request, Sender
  <2>4. JobsMove({}) /\ Targets(late)' \subseteq Targets(late)
    BY <2>1, <2>3, CreatorsJobs
  <2>. QED
    BY <2>2, <2>4, JobsMoveMonotone DEF Condemned
<1>. QED
  BY <1>1, <1>2, <1>3, <1>4, <1>5 DEF SupervisorStep

\* The watcher deletes nothing.
LEMMA WatcherJobs ==
    ASSUME ApiTypeOK, WatcherTypeOK, WatcherStep
    PROVE  JobsMove({}) /\ Targets(late)' \subseteq Targets(late)
<1>1. CASE Dial \/ ListExisting \/ Scan \/ NextTopic \/ EndScan \/ Refresh
  <2>1. UNCHANGED <<pipes, late>>
    BY <1>1 DEF Dial, ListExisting, Scan, NextTopic, EndScan, Refresh, FailedGet, apiVars
  <2>. QED
    BY <2>1, QuietJobs
<1>2. CASE CreateTable
  <2>1. PICK reply \in Reply : Call(TableReq(topic), reply)
    BY <1>2 DEF CreateTable
  <2>2. TableReq(topic) \in Request /\ TableReq(topic).op = "table"
    BY <1>2, FaultsCount DEF CreateTable, WatcherTypeOK, TableReq, Request
  <2>. QED
    BY <2>1, <2>2, CreatorsJobs
<1>3. CASE CreatePipeline
  <2>1. PICK reply \in Reply : Call(CreateReq("watcher", FlowDef(topic)), reply)
    BY <1>3 DEF CreatePipeline
  <2>2. topic \in Topics
    BY <1>3 DEF CreatePipeline, WatcherTypeOK
  <2>3. CreateReq("watcher", FlowDef(topic)) \in Request /\ CreateReq("watcher", FlowDef(topic)).op = "create"
    BY <2>2, FlowDefType DEF CreateReq
  <2>. QED
    BY <2>1, <2>3, CreatorsJobs
<1>. QED
  BY <1>1, <1>2, <1>3 DEF WatcherStep

\* A late request deletes nothing that was not condemned.
LEMMA LateJobs ==
    ASSUME ApiTypeOK, LateRequest
    PROVE  JobsMove(Targets(late)) /\ Targets(late)' \subseteq Targets(late)
<1>1. PICK r \in late :
        /\ late' = late \ {r}
        /\ IF Accepts(r) THEN Executes(r) ELSE UNCHANGED <<pipes, tables>>
  BY DEF LateRequest
<1>2. r \in Request
  BY DEF ApiTypeOK
<1>3. Targets({r}) \subseteq Targets(late) /\ Targets(late)' \subseteq Targets(late)
  BY <1>1 DEF Targets
<1>4. Accepts(r) => JobsMove(Targets({r}))
  BY <1>1, <1>2, ExecutesJobs
<1>5. ~Accepts(r) => JobsMove({})
  BY <1>1 DEF JobsMove
<1>. QED
  BY <1>3, <1>4, <1>5, JobsMoveMonotone

\* When nobody starts jobs again, every step deletes only the condemned and condemns
\* only what has stopped or failed.
LEMMA StepJobs ==
    ASSUME TypeOK, Next, "resume" \notin JobEvents
    PROVE  JobsMove(Condemned) /\ Condemned' \subseteq Condemned \cup Failing
<1>0. ApiTypeOK /\ WatcherTypeOK /\ SupervisorTypeOK
  BY DEF TypeOK
<1>a. ASSUME JobsMove({}), Targets(late)' \subseteq Targets(late),
             UNCHANGED <<spc, cur>> \/ spc' \notin {"fetch", "delete"}
      PROVE  JobsMove(Condemned) /\ Condemned' \subseteq Condemned \cup Failing
  BY <1>a, JobsMoveMonotone DEF Condemned
<1>1. CASE Boot
  <2>1. UNCHANGED <<pipes, late, cur>> /\ (spc' = "idle" \/ spc' = spc)
    BY <1>1 DEF Boot, FailedGet, apiVars
  <2>. QED
    BY <2>1, <1>a, QuietJobs
<1>2. CASE Exit
  <2>1. PICK sent \in SUBSET (WatcherCall \cup SupervisorCall) : late' = late \cup sent
    BY <1>2 DEF Exit
  <2>2. pipes' = pipes /\ spc' = "off"
    BY <1>2 DEF Exit, SupervisorOff
  <2>3. Targets(sent) \subseteq Condemned
    <3>1. \A r \in WatcherCall : r.op # "delete"
      BY DEF WatcherCall, TableReq, CreateReq
    <3>2. \A r \in SupervisorCall : r.op = "delete" => r.id \in Condemned
      BY DEF SupervisorCall, DeleteReq, CreateReq, Condemned
    <3>. QED
      BY <2>1, <3>1, <3>2 DEF Targets
  <2>4. Targets(late)' \subseteq Targets(late) \cup Targets(sent)
    BY <2>1, LateTargets
  <2>5. JobsMove(Condemned)
    BY <2>2 DEF JobsMove
  <2>. QED
    BY <2>2, <2>3, <2>4, <2>5 DEF Condemned
<1>3. CASE Watch
  BY <1>0, <1>3, <1>a, WatcherJobs DEF Watch, supervisorVars
<1>4. CASE Supervise
  BY <1>0, <1>4, SupervisorJobs DEF Supervise
<1>5. CASE LateRequest /\ UNCHANGED <<watcherVars, supervisorVars, incidents>>
  <2>1. JobsMove(Targets(late)) /\ Targets(late)' \subseteq Targets(late)
    BY <1>0, <1>5, LateJobs
  <2>2. Targets(late) \subseteq Condemned /\ Condemned' \subseteq Condemned
    BY <1>5, <2>1 DEF Condemned, supervisorVars
  <2>. QED
    BY <2>1, <2>2, JobsMoveMonotone
<1>6. ASSUME NEW i \in DOMAIN pipes, JobStarts(i) \/ JobFails(i) \/ JobStops(i) \/ JobResumes(i)
      PROVE  JobsMove({}) /\ UNCHANGED <<late, supervisorVars>>
  <2>1. PICK state \in JobState : JobBecomes(i, state)
    BY <1>6 DEF JobStarts, JobFails, JobStops, JobResumes, JobState
  <2>2. Runs(i) /\ UNCHANGED supervisorVars
    BY <1>6 DEF JobStarts, JobFails, JobStops, JobResumes, Runs
  <2>3. \A j \in DOMAIN pipes : pipes[j] \in Pipeline
    BY <1>0 DEF ApiTypeOK
  <2>4. \A j \in DOMAIN pipes : pipes'[j].job = IF j = i THEN state ELSE pipes[j].job
    BY <2>1, <2>3 DEF JobBecomes, Pipeline
  <2>5. late' = late /\ state # "Deleted"
    BY <2>1 DEF JobBecomes, JobState
  <2>. QED
    BY <2>2, <2>4, <2>5 DEF JobsMove
<1>7. ASSUME NEW n \in RunNames, RunJob(n)
      PROVE  JobsMove({}) /\ Targets(late)' \subseteq Targets(late) /\ UNCHANGED supervisorVars
  <2> DEFINE r == CreateReq("user", [name |-> n, query |-> Demo, parallelism |-> 3])
  <2>1. r \in Request /\ r.op = "create"
    BY <1>0, RunDefType DEF CreateReq
  <2>2. PICK reply \in Reply : Call(r, reply)
    BY <1>7 DEF RunJob
  <2>3. UNCHANGED supervisorVars
    BY <1>7 DEF RunJob
  <2>. HIDE DEF r
  <2>. QED
    BY <1>0, <2>1, <2>2, <2>3, CreatorsJobs
<1>8. ASSUME NEW t \in Topics, TopicAppears(t), UNCHANGED <<supervisorVars, incidents>>
      PROVE  JobsMove({}) /\ UNCHANGED <<late, supervisorVars>>
  BY <1>8, QuietJobs DEF TopicAppears, apiVars
<1>. QED
  BY <1>1, <1>2, <1>3, <1>4, <1>5, <1>6, <1>7, <1>8, <1>a DEF Next, Arroyo, supervisorVars, Targets

\* What does not run does not start to, so what is condemned never runs.
LEMMA StepJudged ==
    ASSUME TypeOK, JudgedInv, Next
    PROVE  JudgedInv'
<1>. SUFFICES ASSUME "resume" \notin JobEvents, NEW i \in Condemned'
              PROVE  i \in DOMAIN pipes' /\ ~Runs(i)'
  BY DEF JudgedInv
<1>1. JobsMove(Condemned) /\ i \in Condemned \cup Failing
  BY StepJobs
<1>2. i \in DOMAIN pipes /\ ~Runs(i)
  BY <1>1 DEF JudgedInv, Failing, hasFailed, Runs
<1>3. i \in DOMAIN pipes'
  BY <1>2, StepType DEF Grows
<1>. QED
  BY <1>1, <1>2, <1>3 DEF JobsMove, Runs

\* What is condemned has stopped, failed or been deleted, in every reachable state.
THEOREM CondemnedAreJudged == Spec => []JudgedInv
<1>1. Init => JudgedInv
  BY DEF Init, ApiInit, SupervisorInit, JudgedInv, Condemned, Targets
<1>2. TypeOK /\ JudgedInv /\ [Next]_vars => JudgedInv'
  <2>1. JudgedInv /\ UNCHANGED vars => JudgedInv'
    BY DEF JudgedInv, Condemned, Targets, Runs, vars, apiVars, supervisorVars
  <2>. QED
    BY <2>1, StepJudged
<1>. QED
  BY <1>1, <1>2, TypeCorrect, PTL DEF Spec

\* A restart, and a delete its client has given up on, never hits a pipeline that
\* is scheduled or runs, unless operators start jobs again (supervisor.go,
\* checkAndRestartPipelines; arroyo.go, RestartPipeline).
THEOREM RunningAreSpared == Spec => RunningNeverDeleted
<1>1. TypeOK /\ JudgedInv /\ [Next]_vars =>
        [ "resume" \notin JobEvents =>
            \A i \in DOMAIN pipes :
                pipes[i].job \in {"Scheduling", "Running"} => pipes'[i].job # "Deleted" ]_vars
  <2>. SUFFICES ASSUME TypeOK, JudgedInv, Next, "resume" \notin JobEvents,
                       NEW i \in DOMAIN pipes, Runs(i)
                PROVE  pipes'[i].job # "Deleted"
    BY DEF Runs
  <2>1. JobsMove(Condemned) /\ i \notin Condemned
    BY StepJobs DEF JudgedInv
  <2>. QED
    BY <2>1 DEF JobsMove, Runs
<1>. QED
  BY <1>1, TypeCorrect, CondemnedAreJudged, PTL DEF RunningNeverDeleted, Spec

-----------------------------------------------------------------------------
(***************************************************************************)
(* Parallelism.                                                            *)
(***************************************************************************)
\* The parallelism a query is first submitted with.
Given(query) == IF query \in Topics THEN 1 ELSE 3

Proper(d) == d.parallelism = Given(d.query)

\* The definitions with Arroyo, in its pipelines and in late creates.
StoredProper ==
    /\ \A i \in DOMAIN pipes : Proper(pipes[i].def)
    /\ \A r \in late : r.op = "create" => Proper(r.def)

\* Every definition that is, was or may yet become a pipeline's is as submitted:
\* the supervisor's is one of them.
ParallelismInv ==
    ReportsParallelism =>
        /\ StoredProper
        /\ spc \in {"delete", "recreate"} => Proper(held)

\* The pipelines' definitions stay proper when a proper request is executed.
LEMMA ExecutesProper ==
    ASSUME ApiTypeOK, NEW r \in Request, Accepts(r), Executes(r),
           \A i \in DOMAIN pipes : Proper(pipes[i].def),
           r.op = "create" => Proper(r.def)
    PROVE  \A i \in DOMAIN pipes' : Proper(pipes'[i].def)
<1>0. \A i \in DOMAIN pipes : pipes[i] \in Pipeline
  BY DEF ApiTypeOK
<1>1. CASE r.op = "create"
  <2>1. pipes' = Append(pipes, [def |-> r.def, job |-> "Scheduling"])
    BY <1>1 DEF Executes
  <2>2. \A i \in DOMAIN pipes' :
            (i \in DOMAIN pipes /\ pipes'[i] = pipes[i]) \/ pipes'[i].def = r.def
    BY <2>1 DEF ApiTypeOK
  <2>. QED
    BY <1>1, <2>2
<1>2. CASE r.op = "delete"
  <2>1. pipes' = [pipes EXCEPT ![r.id].job = "Deleted"]
    BY <1>2 DEF Executes
  <2>2. DOMAIN pipes' = DOMAIN pipes /\ \A i \in DOMAIN pipes : pipes'[i].def = pipes[i].def
    BY <1>0, <2>1 DEF Pipeline
  <2>. QED
    BY <2>2
<1>3. CASE r.op = "table"
  BY <1>3 DEF Executes
<1>. QED
  BY <1>1, <1>2, <1>3 DEF Request

\* So do the definitions with Arroyo, late ones included, whatever a call's reply.
LEMMA CallProper ==
    ASSUME ApiTypeOK, StoredProper, NEW r \in Request, NEW reply, Call(r, reply),
           r.op = "create" => Proper(r.def)
    PROVE  StoredProper'
<1>1. Accepts(r) /\ Executes(r) => \A i \in DOMAIN pipes' : Proper(pipes'[i].def)
  BY ExecutesProper DEF StoredProper
<1>2. pipes' = pipes => \A i \in DOMAIN pipes' : Proper(pipes'[i].def)
  BY DEF StoredProper
<1>3. late' \subseteq late \cup {r}
  BY DEF Call
<1>. QED
  BY <1>1, <1>2, <1>3 DEF Call, StoredProper, Proper, Given

\* Arroyo unchanged, its definitions are.
LEMMA QuietProper ==
    ASSUME UNCHANGED <<pipes, late>>, StoredProper
    PROVE  StoredProper'
BY DEF StoredProper, Proper, Given

\* The watcher's and the users' requests are proper.
LEMMA SubmittedProper ==
    /\ \A t \in Topics : Proper(CreateReq("watcher", FlowDef(t)).def)
    /\ \A n \in RunNames : Proper([name |-> n, query |-> Demo, parallelism |-> 3])
BY ApiAssumption DEF CreateReq, FlowDef, Proper, Given

\* The watcher submits nothing improper.
LEMMA WatcherProper ==
    ASSUME ApiTypeOK, WatcherTypeOK, StoredProper, WatcherStep
    PROVE  StoredProper'
<1>1. CASE Dial \/ ListExisting \/ Scan \/ NextTopic \/ EndScan \/ Refresh
  <2>1. UNCHANGED <<pipes, late>>
    BY <1>1 DEF Dial, ListExisting, Scan, NextTopic, EndScan, Refresh, FailedGet, apiVars
  <2>. QED
    BY <2>1, QuietProper
<1>2. CASE CreateTable
  <2>1. PICK reply \in Reply : Call(TableReq(topic), reply)
    BY <1>2 DEF CreateTable
  <2>2. TableReq(topic) \in Request /\ TableReq(topic).op = "table"
    BY <1>2, FaultsCount DEF CreateTable, WatcherTypeOK, TableReq, Request
  <2>. QED
    BY <2>1, <2>2, CallProper
<1>3. CASE CreatePipeline
  <2>1. PICK reply \in Reply : Call(CreateReq("watcher", FlowDef(topic)), reply)
    BY <1>3 DEF CreatePipeline
  <2>2. topic \in Topics
    BY <1>3 DEF CreatePipeline, WatcherTypeOK
  <2>. QED
    BY <2>1, <2>2, FlowDefType, SubmittedProper, CallProper
<1>. QED
  BY <1>1, <1>2, <1>3 DEF WatcherStep

\* The supervisor creates again what it fetched.
LEMMA SupervisorProper ==
    ASSUME ApiTypeOK, SupervisorTypeOK, ReportsParallelism, ParallelismInv, SupervisorStep
    PROVE  ParallelismInv'
<1>0. StoredProper
  BY DEF ParallelismInv, StoredProper
<1>a. ASSUME StoredProper', spc' \in {"delete", "recreate"} => Proper(held')
      PROVE  ParallelismInv'
  BY <1>a DEF ParallelismInv, StoredProper, Proper, Given
<1>1. CASE Tick \/ CheckJobs \/ EndRound
  <2>1. UNCHANGED <<pipes, late>> /\ spc' \notin {"delete", "recreate"}
    BY <1>1 DEF Tick, CheckJobs, EndRound, FailedGet, apiVars
  <2>. QED
    BY <1>0, <1>a, <2>1, QuietProper
<1>2. CASE FetchPipeline
  <2>1. UNCHANGED <<pipes, late>>
    BY <1>2 DEF FetchPipeline, FailedGet, apiVars
  <2>2. StoredProper'
    BY <1>0, <2>1, QuietProper
  <2>3. CASE cur \in Live /\ held' = Fetched(pipes[cur].def)
    BY <1>0, <1>a, <2>2, <2>3 DEF Fetched, Live, StoredProper
  <2>4. CASE GiveUp
    BY <1>a, <2>2, <2>4 DEF GiveUp
  <2>. QED
    BY <1>2, <2>3, <2>4 DEF FetchPipeline
<1>3. CASE DeletePipeline
  <2>1. PICK reply \in Reply :
            /\ Call(DeleteReq(cur), reply)
            /\ \/ reply = "ok" /\ spc' = "recreate" /\ UNCHANGED <<cur, held>>
               \/ reply # "ok" /\ GiveUp
    BY <1>3 DEF DeletePipeline
  <2>2. spc = "delete" /\ cur \in DOMAIN pipes /\ Proper(held)
    BY <1>3 DEF DeletePipeline, SupervisorTypeOK, ParallelismInv
  <2>3. DeleteReq(cur) \in Request /\ DeleteReq(cur).op = "delete"
    BY <2>2 DEF ApiTypeOK, DeleteReq, Request
  <2>4. StoredProper'
    BY <1>0, <2>1, <2>3, CallProper
  <2>. QED
    BY <1>a, <2>1, <2>2, <2>4 DEF GiveUp
<1>4. CASE RecreatePipeline
  <2>1. PICK reply \in Reply : Call(CreateReq("supervisor", held), reply)
    BY <1>4 DEF RecreatePipeline
  <2>2. spc = "recreate" /\ spc' = "check" /\ Proper(held)
    BY <1>4 DEF RecreatePipeline, GiveUp, ParallelismInv
  <2>3. CreateReq("supervisor", held) \in Request /\ CreateReq("supervisor", held).def = held
    BY <2>2, FaultsCount DEF SupervisorTypeOK, CreateReq, Request, Sender
  <2>4. StoredProper'
    BY <1>0, <2>1, <2>2, <2>3, CallProper
  <2>. QED
    BY <1>a, <2>2, <2>4
<1>. QED
  BY <1>1, <1>2, <1>3, <1>4 DEF SupervisorStep

\* A late request was proper when it was sent.
LEMMA LateProper ==
    ASSUME ApiTypeOK, StoredProper, LateRequest
    PROVE  StoredProper'
<1>1. PICK r \in late :
        /\ late' = late \ {r}
        /\ IF Accepts(r) THEN Executes(r) ELSE UNCHANGED <<pipes, tables>>
  BY DEF LateRequest
<1>2. r \in Request /\ (r.op = "create" => Proper(r.def))
  BY DEF ApiTypeOK, StoredProper
<1>3. \A i \in DOMAIN pipes' : Proper(pipes'[i].def)
  BY <1>1, <1>2, ExecutesProper DEF StoredProper
<1>. QED
  BY <1>1, <1>3 DEF StoredProper, Proper, Given

\* Every step keeps all definitions as they were submitted.
LEMMA StepParallelism ==
    ASSUME TypeOK, ParallelismInv, Next
    PROVE  ParallelismInv'
<1>. SUFFICES ASSUME ReportsParallelism PROVE ParallelismInv'
  BY DEF ParallelismInv
<1>0. ApiTypeOK /\ WatcherTypeOK /\ SupervisorTypeOK
  BY DEF TypeOK
<1>a. StoredProper
  BY DEF ParallelismInv, StoredProper
<1>b. ASSUME StoredProper', UNCHANGED <<spc, held>> \/ spc' \notin {"delete", "recreate"}
      PROVE  ParallelismInv'
  BY <1>b DEF ParallelismInv, StoredProper, Proper, Given
<1>1. CASE Boot
  <2>1. UNCHANGED <<pipes, late, held>> /\ (spc' = "idle" \/ spc' = spc)
    BY <1>1 DEF Boot, FailedGet, apiVars
  <2>. QED
    BY <2>1, <1>a, <1>b, QuietProper
<1>2. CASE Exit
  <2>1. PICK sent \in SUBSET (WatcherCall \cup SupervisorCall) : late' = late \cup sent
    BY <1>2 DEF Exit
  <2>2. pipes' = pipes /\ spc' = "off"
    BY <1>2 DEF Exit, SupervisorOff
  <2>3. \A r \in WatcherCall : r.op = "create" => Proper(r.def)
    <3>1. wpc = "pipeline" => topic \in Topics
      BY <1>0 DEF WatcherTypeOK
    <3>. QED
      BY <3>1, SubmittedProper DEF WatcherCall, TableReq
  <2>4. \A r \in SupervisorCall : r.op = "create" => Proper(r.def)
    BY DEF SupervisorCall, DeleteReq, CreateReq, ParallelismInv
  <2>5. \A r \in late' : r.op = "create" => Proper(r.def)
    BY <1>a, <2>1, <2>3, <2>4 DEF StoredProper
  <2>6. StoredProper'
    BY <1>a, <2>2, <2>5 DEF StoredProper, Proper, Given
  <2>. QED
    BY <1>b, <2>2, <2>6
<1>3. CASE Watch
  BY <1>0, <1>a, <1>b, <1>3, WatcherProper DEF Watch, supervisorVars
<1>4. CASE Supervise
  BY <1>0, <1>4, SupervisorProper DEF Supervise
<1>5. CASE LateRequest /\ UNCHANGED <<watcherVars, supervisorVars, incidents>>
  BY <1>0, <1>a, <1>b, <1>5, LateProper DEF supervisorVars
<1>6. ASSUME NEW i \in DOMAIN pipes, JobStarts(i) \/ JobFails(i) \/ JobStops(i) \/ JobResumes(i)
      PROVE  StoredProper' /\ UNCHANGED supervisorVars
  <2>1. PICK state \in JobState : JobBecomes(i, state)
    BY <1>6 DEF JobStarts, JobFails, JobStops, JobResumes, JobState
  <2>2. UNCHANGED supervisorVars
    BY <1>6 DEF JobStarts, JobFails, JobStops, JobResumes
  <2>3. \A j \in DOMAIN pipes : pipes[j] \in Pipeline
    BY <1>0 DEF ApiTypeOK
  <2>4. DOMAIN pipes' = DOMAIN pipes /\ \A j \in DOMAIN pipes : pipes'[j].def = pipes[j].def
    BY <2>1, <2>3 DEF JobBecomes, Pipeline
  <2>5. late' = late
    BY <2>1 DEF JobBecomes
  <2>. QED
    BY <1>a, <2>2, <2>4, <2>5 DEF StoredProper, Proper, Given
<1>7. ASSUME NEW n \in RunNames, RunJob(n)
      PROVE  StoredProper' /\ UNCHANGED supervisorVars
  <2> DEFINE d == [name |-> n, query |-> Demo, parallelism |-> 3]
  <2>1. CreateReq("user", d) \in Request /\ Proper(CreateReq("user", d).def)
    BY <1>0, RunDefType, SubmittedProper DEF CreateReq
  <2>2. PICK reply \in Reply : Call(CreateReq("user", d), reply)
    BY <1>7 DEF RunJob
  <2>3. UNCHANGED supervisorVars
    BY <1>7 DEF RunJob
  <2>. HIDE DEF d
  <2>. QED
    BY <1>0, <1>a, <2>1, <2>2, <2>3, CallProper
<1>8. ASSUME NEW t \in Topics, TopicAppears(t), UNCHANGED <<supervisorVars, incidents>>
      PROVE  StoredProper' /\ UNCHANGED supervisorVars
  BY <1>8, <1>a, QuietProper DEF TopicAppears, apiVars
<1>. QED
  BY <1>1, <1>2, <1>3, <1>4, <1>5, <1>6, <1>7, <1>8, <1>b DEF Next, Arroyo, supervisorVars

\* However often a pipeline is restarted, and whatever late requests do to it, it
\* keeps the parallelism it was submitted with, if Arroyo reports it (arroyo.go,
\* RestartPipeline).
THEOREM RestartsKeepParallelism == Spec => []ParallelismKept
<1>1. Init => ParallelismInv
  BY DEF Init, ApiInit, SupervisorInit, ParallelismInv, StoredProper
<1>2. TypeOK /\ ParallelismInv /\ [Next]_vars => ParallelismInv'
  <2>1. ParallelismInv /\ UNCHANGED vars => ParallelismInv'
    BY DEF ParallelismInv, StoredProper, Proper, Given, vars, apiVars, supervisorVars
  <2>. QED
    BY <2>1, StepParallelism
<1>3. ParallelismInv => ParallelismKept
  BY DEF ParallelismInv, StoredProper, ParallelismKept, Proper, Given, Live
<1>. QED
  BY <1>1, <1>2, <1>3, TypeCorrect, PTL DEF Spec
=============================================================================
