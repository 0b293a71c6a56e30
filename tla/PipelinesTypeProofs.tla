------------------------ MODULE PipelinesTypeProofs -------------------------
(***************************************************************************)
(* Type correctness of Pipelines, proved for every value of the constants, *)
(* and what every call to Arroyo preserves: pipelines are never forgotten  *)
(* and their definitions never change.                                     *)
(***************************************************************************)
EXTENDS Pipelines, TLAPS, FiniteSetTheorems

\* Pipelines are appended or deleted, never altered.
Grows ==
    /\ DOMAIN pipes \subseteq DOMAIN pipes'
    /\ \A i \in DOMAIN pipes : pipes'[i].def = pipes[i].def

\* What a call, answered or not, does to Arroyo and keeps of its type.
LEMMA ExecutesType ==
    ASSUME ApiTypeOK, NEW r \in Request, Executes(r), r.op = "delete" => r.id \in DOMAIN pipes
    PROVE  pipes' \in Seq(Pipeline) /\ tables' \subseteq Topics /\ Grows
<1>1. CASE r.op = "create"
  <2>1. r.def \in Definition
    BY <1>1 DEF Request
  <2>2. [def |-> r.def, job |-> "Scheduling"] \in Pipeline
    BY <2>1 DEF Pipeline, JobState
  <2>. QED
    BY <1>1, <2>2 DEF Executes, ApiTypeOK, Grows
<1>2. CASE r.op = "delete"
  <2>1. pipes' = [pipes EXCEPT ![r.id].job = "Deleted"] /\ tables' = tables
    BY <1>2 DEF Executes
  <2>2. pipes[r.id] \in Pipeline
    BY <1>2 DEF ApiTypeOK
  <2>3. [pipes[r.id] EXCEPT !.job = "Deleted"] \in Pipeline
    BY <2>2 DEF Pipeline
  <2>. QED
    BY <1>2, <2>1, <2>2, <2>3 DEF ApiTypeOK, Grows, Pipeline
<1>3. CASE r.op = "table"
  <2>1. r.topic \in Topics
    BY <1>3 DEF Request
  <2>. QED
    BY <1>3, <2>1 DEF Executes, ApiTypeOK, Grows
<1>. QED
  BY <1>1, <1>2, <1>3 DEF Executes

\* A call keeps Arroyo's state well typed, whatever its reply.
LEMMA CallType ==
    ASSUME ApiTypeOK, NEW r \in Request, NEW reply, Call(r, reply)
    PROVE  ApiTypeOK' /\ Grows
<1>1. Accepts(r) /\ r.op = "delete" => r.id \in DOMAIN pipes
  BY DEF Accepts, Live
<1>2. CASE Accepts(r) /\ Executes(r) /\ UNCHANGED <<late, faults>>
  BY <1>1, <1>2, ExecutesType DEF ApiTypeOK
<1>3. CASE UNCHANGED <<pipes, tables, late, faults>>
  BY <1>3 DEF ApiTypeOK, Grows
<1>4. CASE Fault /\ UNCHANGED <<pipes, tables, late>>
  BY <1>4, ApiAssumption DEF ApiTypeOK, Grows, Fault
<1>5. CASE Fault /\ Accepts(r) /\ Executes(r) /\ UNCHANGED late
  BY <1>1, <1>5, ExecutesType, ApiAssumption DEF ApiTypeOK, Fault
<1>6. CASE Fault /\ late' = late \cup {r} /\ UNCHANGED <<pipes, tables>>
  BY <1>6, ApiAssumption DEF ApiTypeOK, Grows, Fault
<1>. QED
  BY <1>2, <1>3, <1>4, <1>5, <1>6 DEF Call

\* So does a failed GET.
LEMMA QuietType ==
    ASSUME ApiTypeOK, FailedGet \/ UNCHANGED apiVars
    PROVE  ApiTypeOK' /\ Grows
BY ApiAssumption DEF ApiTypeOK, Grows, FailedGet, Fault, apiVars

\* So does a late request.
LEMMA LateRequestType ==
    ASSUME ApiTypeOK, LateRequest
    PROVE  ApiTypeOK' /\ Grows
<1>1. PICK r \in late :
        /\ late' = late \ {r}
        /\ IF Accepts(r) THEN Executes(r) ELSE UNCHANGED <<pipes, tables>>
        /\ UNCHANGED faults
  BY DEF LateRequest
<1>2. r \in Request
  BY DEF ApiTypeOK
<1>3. CASE Accepts(r)
  <2>1. r.op = "delete" => r.id \in DOMAIN pipes
    BY <1>3 DEF Accepts, Live
  <2>. QED
    BY <1>1, <1>2, <1>3, <2>1, ExecutesType DEF ApiTypeOK
<1>4. CASE ~Accepts(r)
  BY <1>1, <1>4 DEF ApiTypeOK, Grows
<1>. QED
  BY <1>3, <1>4

\* So does a job's change of state.
LEMMA JobBecomesType ==
    ASSUME ApiTypeOK, NEW i \in DOMAIN pipes, NEW state \in JobState, JobBecomes(i, state)
    PROVE  ApiTypeOK' /\ Grows
<1>1. pipes[i] \in Pipeline
  BY DEF ApiTypeOK
<1>2. [pipes[i] EXCEPT !.job = state] \in Pipeline
  BY <1>1 DEF Pipeline
<1>. QED
  BY <1>1, <1>2 DEF JobBecomes, ApiTypeOK, Grows, Pipeline

-----------------------------------------------------------------------------
\* The supervisor's state stays well typed when only the pipelines grow, and
\* the watcher's whatever Arroyo does.
LEMMA SupervisorUnmoved ==
    ASSUME SupervisorTypeOK, Grows, UNCHANGED supervisorVars
    PROVE  SupervisorTypeOK'
BY DEF SupervisorTypeOK, Grows, supervisorVars

\* Nobody but the watcher changes its variables.
LEMMA WatcherUnmoved ==
    ASSUME WatcherTypeOK, UNCHANGED watcherVars
    PROVE  WatcherTypeOK'
BY DEF WatcherTypeOK, watcherVars

\* Failures are counted.
LEMMA FaultsCount == ApiTypeOK => faults \in Nat
BY ApiAssumption DEF ApiTypeOK

\* The watcher's pipelines are definitions.
LEMMA FlowDefType ==
    ASSUME ApiTypeOK, NEW t \in Topics
    PROVE  FlowDef(t) \in Definition /\ CreateReq("watcher", FlowDef(t)) \in Request
<1>1. FlowDef(t) \in Definition
  BY DEF FlowDef, Definition, Names
<1>. QED
  BY <1>1, FaultsCount DEF CreateReq, Request, Sender

\* So are the users' pipelines.
LEMMA RunDefType ==
    ASSUME ApiTypeOK, NEW n \in RunNames
    PROVE  CreateReq("user", [name |-> n, query |-> Demo, parallelism |-> 3]) \in Request
<1>1. [name |-> n, query |-> Demo, parallelism |-> 3] \in Definition
  BY DEF Definition, Names
<1>. QED
  BY <1>1, FaultsCount DEF CreateReq, Request, Sender

\* The names listed are names.
LEMMA LiveNamesType ==
    ASSUME ApiTypeOK
    PROVE  LiveNames \subseteq Names
<1>. SUFFICES ASSUME NEW i \in Live
              PROVE  pipes[i].def.name \in Names
  BY DEF LiveNames
<1>1. pipes[i] \in Pipeline
  BY DEF Live, ApiTypeOK
<1>. QED
  BY <1>1 DEF Pipeline, Definition

\* Fetching a definition keeps its name and query.
LEMMA FetchedType ==
    ASSUME NEW d \in Definition
    PROVE  /\ Fetched(d) \in Definition
           /\ Fetched(d).name = d.name
           /\ Fetched(d).query = d.query
<1>1. CASE ReportsParallelism
  BY <1>1 DEF Fetched
<1>2. CASE ~ReportsParallelism
  <2>1. Fetched(d) = [d EXCEPT !.parallelism = 1]
    BY <1>2 DEF Fetched
  <2>2. d \in [name: Names, query: Topics \cup {Demo}, parallelism: {1, 3}]
    BY DEF Definition
  <2>3. [d EXCEPT !.parallelism = 1] \in [name: Names, query: Topics \cup {Demo}, parallelism: {1, 3}]
    BY <2>2
  <2>4. [d EXCEPT !.parallelism = 1].name = d.name /\ [d EXCEPT !.parallelism = 1].query = d.query
    BY <2>2
  <2>. QED
    BY <2>1, <2>3, <2>4 DEF Definition
<1>. QED
  BY <1>1, <1>2

-----------------------------------------------------------------------------
\* Neither goroutine ends, or starts, by itself.
LEMMA WatcherGoesOn ==
    ASSUME WatcherStep
    PROVE  wpc # "off" /\ wpc' # "off"
BY DEF WatcherStep, Dial, ListExisting, Scan, NextTopic, EndScan, CreateTable,
       CreatePipeline, Refresh

\* The supervisor does not turn itself off either.
LEMMA SupervisorGoesOn ==
    ASSUME SupervisorStep
    PROVE  spc # "off" /\ spc' # "off"
BY DEF SupervisorStep, Tick, CheckJobs, EndRound, FetchPipeline, DeletePipeline,
       RecreatePipeline, GiveUp

\* What a step of the watcher keeps.
LEMMA WatcherStepType ==
    ASSUME ApiTypeOK, WatcherTypeOK, WatcherStep
    PROVE  ApiTypeOK' /\ WatcherTypeOK' /\ Grows
<1>1. CASE Dial
  BY <1>1, QuietType DEF Dial, WatcherTypeOK
<1>2. CASE ListExisting
  BY <1>2, QuietType, LiveNamesType DEF ListExisting, WatcherTypeOK
<1>3. CASE Scan
  BY <1>3, QuietType DEF Scan, WatcherTypeOK
<1>4. CASE NextTopic
  BY <1>4, QuietType DEF NextTopic, WatcherTypeOK
<1>5. CASE EndScan
  BY <1>5, QuietType DEF EndScan, WatcherTypeOK
<1>6. CASE CreateTable
  <2>1. topic \in Topics
    BY <1>6 DEF CreateTable, WatcherTypeOK
  <2>2. TableReq(topic) \in Request
    BY <2>1, FaultsCount DEF TableReq, Request
  <2>3. PICK reply \in Reply : Call(TableReq(topic), reply)
    BY <1>6 DEF CreateTable
  <2>4. ApiTypeOK' /\ Grows
    BY <2>2, <2>3, CallType
  <2>. QED
    BY <1>6, <2>1, <2>4 DEF CreateTable, WatcherTypeOK
<1>7. CASE CreatePipeline
  <2>1. topic \in Topics
    BY <1>7 DEF CreatePipeline, WatcherTypeOK
  <2>2. CreateReq("watcher", FlowDef(topic)) \in Request
    BY <2>1, FlowDefType
  <2>3. PICK reply \in Reply :
            /\ Call(CreateReq("watcher", FlowDef(topic)), reply)
            /\ knownTopics' = IF reply = "error" THEN knownTopics ELSE knownTopics \cup {topic}
    BY <1>7 DEF CreatePipeline
  <2>4. ApiTypeOK' /\ Grows
    BY <2>2, <2>3, CallType
  <2>. QED
    BY <1>7, <2>1, <2>3, <2>4 DEF CreatePipeline, WatcherTypeOK, Names
<1>8. CASE Refresh
  BY <1>8, QuietType DEF Refresh, WatcherTypeOK
<1>. QED
  BY <1>1, <1>2, <1>3, <1>4, <1>5, <1>6, <1>7, <1>8 DEF WatcherStep

\* What a step of the supervisor keeps.
LEMMA SupervisorStepType ==
    ASSUME ApiTypeOK, SupervisorTypeOK, SupervisorStep
    PROVE  ApiTypeOK' /\ SupervisorTypeOK' /\ Grows
<1>0. pipes \in Seq(Pipeline) /\ DOMAIN pipes \subseteq Nat
  BY DEF ApiTypeOK
<1>1. CASE Tick
  BY <1>0, <1>1, QuietType DEF Tick, SupervisorTypeOK, Live, Grows
<1>2. CASE CheckJobs
  <2>1. PICK i \in queue :
            /\ queue' = queue \ {i}
            /\ \/ hasFailed(i) /\ spc' = "fetch" /\ cur' = i /\ UNCHANGED apiVars
               \/ ~hasFailed(i) /\ UNCHANGED <<spc, cur, apiVars>>
               \/ FailedGet /\ UNCHANGED <<spc, cur>>
    BY <1>2 DEF CheckJobs
  <2>2. ApiTypeOK' /\ Grows
    BY <2>1, QuietType
  <2>3. spc = "check" /\ held' = held
    BY <1>2 DEF CheckJobs
  <2>. QED
    BY <1>0, <2>1, <2>2, <2>3 DEF SupervisorTypeOK, Grows
<1>3. CASE EndRound
  BY <1>3, QuietType DEF EndRound, SupervisorTypeOK, Grows
<1>4. CASE FetchPipeline
  <2>1. ApiTypeOK' /\ Grows
    BY <1>4, QuietType DEF FetchPipeline
  <2>2. CASE cur \in Live /\ held' = Fetched(pipes[cur].def) /\ spc' = "delete" /\ UNCHANGED cur
    <3>1. cur \in DOMAIN pipes
      BY <2>2 DEF Live
    <3>2. pipes[cur].def \in Definition
      <4>1. pipes[cur] \in Pipeline
        BY <1>0, <3>1
      <4>. QED
        BY <4>1 DEF Pipeline
    <3>. QED
      BY <1>4, <2>1, <2>2, <3>1, <3>2, FetchedType DEF FetchPipeline, SupervisorTypeOK, Grows
  <2>3. CASE GiveUp
    BY <1>4, <2>1, <2>3 DEF FetchPipeline, GiveUp, SupervisorTypeOK, Grows
  <2>. QED
    BY <1>4, <2>2, <2>3 DEF FetchPipeline
<1>5. CASE DeletePipeline
  <2>1. PICK reply \in Reply :
            /\ Call(DeleteReq(cur), reply)
            /\ \/ reply = "ok" /\ spc' = "recreate" /\ UNCHANGED <<cur, held>>
               \/ reply # "ok" /\ GiveUp
    BY <1>5 DEF DeletePipeline
  <2>2. spc = "delete" /\ queue' = queue
    BY <1>5 DEF DeletePipeline
  <2>3. cur \in DOMAIN pipes /\ held \in Definition
    BY <2>2 DEF SupervisorTypeOK
  <2>4. DeleteReq(cur) \in Request
    BY <1>0, <2>3, FaultsCount DEF DeleteReq, Request
  <2>5. ApiTypeOK' /\ Grows
    BY <2>1, <2>4, CallType
  <2>. QED
    BY <2>1, <2>2, <2>3, <2>5 DEF GiveUp, SupervisorTypeOK, Grows
<1>6. CASE RecreatePipeline
  <2>1. PICK reply \in Reply : Call(CreateReq("supervisor", held), reply)
    BY <1>6 DEF RecreatePipeline
  <2>2. spc = "recreate" /\ queue' = queue /\ GiveUp
    BY <1>6 DEF RecreatePipeline
  <2>3. CreateReq("supervisor", held) \in Request
    BY <2>2, FaultsCount DEF SupervisorTypeOK, CreateReq, Request, Sender
  <2>4. ApiTypeOK' /\ Grows
    BY <2>1, <2>3, CallType
  <2>. QED
    BY <2>2, <2>4 DEF GiveUp, SupervisorTypeOK, Grows
<1>. QED
  BY <1>1, <1>2, <1>3, <1>4, <1>5, <1>6 DEF SupervisorStep

-----------------------------------------------------------------------------
\* Pipelines grow in every step of the system, and types are kept.
LEMMA StepType ==
    ASSUME TypeOK, Next
    PROVE  TypeOK' /\ Grows
<1>0. /\ ApiTypeOK /\ WatcherTypeOK /\ SupervisorTypeOK /\ incidents \in 0..MaxIncidents
      /\ wpc = "off" <=> spc = "off"
  BY DEF TypeOK
<1>a. UNCHANGED watcherVars => UNCHANGED wpc
  BY DEF watcherVars
<1>b. UNCHANGED supervisorVars => UNCHANGED spc
  BY DEF supervisorVars
<1>1. CASE Boot
  <2>1. ApiTypeOK' /\ Grows
    BY <1>0, <1>1, QuietType DEF Boot
  <2>. QED
    BY <1>0, <1>1, <2>1 DEF Boot, TypeOK, WatcherTypeOK, SupervisorTypeOK, Grows
<1>2. CASE Exit
  <2>1. PICK sent \in SUBSET (WatcherCall \cup SupervisorCall) : late' = late \cup sent
    BY <1>2 DEF Exit
  <2>2. WatcherCall \subseteq Request
    BY <1>0, FlowDefType, FaultsCount DEF WatcherCall, WatcherTypeOK, TableReq, Request
  <2>3. SupervisorCall \subseteq Request
    BY <1>0, FaultsCount
       DEF SupervisorCall, SupervisorTypeOK, ApiTypeOK, DeleteReq, CreateReq, Request, Sender
  <2>4. ApiTypeOK' /\ Grows
    BY <1>0, <1>2, <2>1, <2>2, <2>3, ApiAssumption DEF Exit, ApiTypeOK, Fault, Grows
  <2>5. WatcherTypeOK' /\ SupervisorTypeOK'
    BY <1>0, <1>2 DEF Exit, WatcherOff, SupervisorOff, WatcherTypeOK, SupervisorTypeOK
  <2>. QED
    BY <1>0, <1>2, <2>4, <2>5 DEF Exit, TypeOK, WatcherOff, SupervisorOff
<1>3. CASE Watch
  BY <1>0, <1>3, WatcherStepType, WatcherGoesOn, <1>b, SupervisorUnmoved DEF Watch, TypeOK
<1>4. CASE Supervise
  BY <1>0, <1>4, SupervisorStepType, SupervisorGoesOn, <1>a, WatcherUnmoved DEF Supervise, TypeOK
<1>5. CASE LateRequest /\ UNCHANGED <<watcherVars, supervisorVars, incidents>>
  BY <1>0, <1>a, <1>b, <1>5, LateRequestType, WatcherUnmoved, SupervisorUnmoved DEF TypeOK
<1>6. ASSUME NEW i \in DOMAIN pipes, JobStarts(i) \/ JobFails(i) \/ JobStops(i) \/ JobResumes(i)
      PROVE  TypeOK' /\ Grows
  <2>1. PICK state \in JobState : JobBecomes(i, state)
    BY <1>6 DEF JobStarts, JobFails, JobStops, JobResumes, JobState
  <2>2. UNCHANGED <<watcherVars, supervisorVars>> /\ incidents' \in 0..MaxIncidents
    BY <1>0, <1>6, PipelinesAssumption DEF JobStarts, JobFails, JobStops, JobResumes, Incident
  <2>. QED
    BY <1>0, <1>a, <1>b, <2>1, <2>2, JobBecomesType, WatcherUnmoved, SupervisorUnmoved DEF TypeOK
<1>7. ASSUME NEW n \in RunNames, RunJob(n)
      PROVE  TypeOK' /\ Grows
  <2>1. PICK reply \in Reply :
            Call(CreateReq("user", [name |-> n, query |-> Demo, parallelism |-> 3]), reply)
    BY <1>7 DEF RunJob
  <2>2. ApiTypeOK' /\ Grows
    BY <1>0, <2>1, RunDefType, CallType
  <2>3. UNCHANGED <<watcherVars, supervisorVars>> /\ incidents' \in 0..MaxIncidents
    BY <1>0, <1>7, PipelinesAssumption DEF RunJob, Incident
  <2>. QED
    BY <1>0, <1>a, <1>b, <2>2, <2>3, WatcherUnmoved, SupervisorUnmoved DEF TypeOK
<1>8. ASSUME NEW t \in Topics, TopicAppears(t), UNCHANGED <<supervisorVars, incidents>>
      PROVE  TypeOK' /\ Grows
  <2>1. ApiTypeOK' /\ Grows
    BY <1>0, <1>8, QuietType DEF TopicAppears
  <2>2. WatcherTypeOK'
    BY <1>0, <1>8 DEF TopicAppears, WatcherTypeOK
  <2>3. UNCHANGED wpc
    BY <1>8 DEF TopicAppears
  <2>. QED
    BY <1>0, <1>b, <1>8, <2>3, <2>1, <2>2, SupervisorUnmoved DEF TypeOK
<1>. QED
  BY <1>1, <1>2, <1>3, <1>4, <1>5, <1>6, <1>7, <1>8 DEF Next, Arroyo

\* The initial state is well typed.
LEMMA InitType == Init => TypeOK
BY ApiAssumption, PipelinesAssumption
   DEF Init, TypeOK, ApiInit, ApiTypeOK, WatcherInit, WatcherTypeOK,
       SupervisorInit, SupervisorTypeOK

\* Type correctness: among it, that the pipeline a restart works on was created
\* and that its definition is at hand when it is created again (arroyo.go).
THEOREM TypeCorrect == Spec => []TypeOK
<1>1. TypeOK /\ UNCHANGED vars => TypeOK'
  BY DEF vars, apiVars, watcherVars, supervisorVars, TypeOK, ApiTypeOK,
         WatcherTypeOK, SupervisorTypeOK
<1>2. TypeOK /\ [Next]_vars => TypeOK'
  BY <1>1, StepType
<1>. QED
  BY <1>2, InitType, PTL DEF Spec
=============================================================================
