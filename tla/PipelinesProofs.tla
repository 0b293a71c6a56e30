-------------------------- MODULE PipelinesProofs ---------------------------
(***************************************************************************)
(* What the pipelines promise, proved for every value of the constants:    *)
(* that a flow's connection table exists, that a topic the watcher knows   *)
(* had a pipeline, and that each failure costs at most one flow.           *)
(*                                                                         *)
(* All three speak of definitions, and a definition can be in three        *)
(* places: in a pipeline, in the supervisor's hands, or in a request that  *)
(* is late.  The first lemmas follow the flows through these places.       *)
(***************************************************************************)
EXTENDS PipelinesTypeProofs

LiveFlows == {FlowOf(pipes[i].def) : i \in Live}

LateFlows == {FlowOf(r.def) : r \in {q \in late : q.op = "create"}}

\* Every flow that is, was or may yet become a pipeline.
Around == Created \cup LateFlows

\* The flows of pipelines a late request may yet delete.
Doomed == {FlowOf(pipes[r.id].def) : r \in {q \in late : q.op = "delete"}}

LateTraceable == \A r \in late : r.op = "delete" => r.id \in DOMAIN pipes

\* The definition in the supervisor's hands is that of the pipeline it works
\* on, and late requests delete only pipelines that were created.
Traceable ==
    /\ spc \in {"delete", "recreate"} => FlowOf(held) = FlowOf(pipes[cur].def)
    /\ LateTraceable

-----------------------------------------------------------------------------
\* A create that is executed adds its flow.
LEMMA CreateFlows ==
    ASSUME ApiTypeOK, NEW r \in Request, r.op = "create", Executes(r)
    PROVE  /\ Created' = Created \cup {FlowOf(r.def)}
           /\ LiveFlows' = LiveFlows \cup {FlowOf(r.def)}
           /\ tables' = tables
<1> DEFINE n == Len(pipes)
<1>1. pipes' = Append(pipes, [def |-> r.def, job |-> "Scheduling"]) /\ tables' = tables
  BY DEF Executes
<1>2. n \in Nat /\ DOMAIN pipes = 1..n /\ pipes \in Seq(Pipeline)
  BY DEF ApiTypeOK
<1>3. DOMAIN pipes' = 1..(n + 1)
  BY <1>1, <1>2
<1>4. pipes'[n + 1] = [def |-> r.def, job |-> "Scheduling"]
  BY <1>1, <1>2
<1>5. \A i \in 1..n : pipes'[i] = pipes[i]
  BY <1>1, <1>2
<1>6. Live' = Live \cup {n + 1}
  BY <1>2, <1>3, <1>4, <1>5 DEF Live
<1>7. \A i \in DOMAIN pipes' : i \in DOMAIN pipes \/ i = n + 1
  BY <1>2, <1>3
<1>8. DOMAIN pipes \subseteq DOMAIN pipes' /\ n + 1 \in DOMAIN pipes'
  BY <1>2, <1>3
<1>9. Created' = Created \cup {FlowOf(r.def)}
  BY <1>2, <1>4, <1>5, <1>7, <1>8 DEF Created, FlowOf
<1>10. LiveFlows' = LiveFlows \cup {FlowOf(r.def)}
  <2>1. Live \subseteq DOMAIN pipes
    BY DEF Live
  <2>. QED
    BY <1>2, <1>4, <1>5, <1>6, <2>1 DEF LiveFlows, FlowOf
<1>. QED
  BY <1>1, <1>9, <1>10

\* A delete that is executed takes no other flow than its pipeline's.
LEMMA DeleteFlows ==
    ASSUME ApiTypeOK, NEW r \in Request, r.op = "delete", r.id \in Live, Executes(r)
    PROVE  /\ Created' = Created
           /\ LiveFlows' \subseteq LiveFlows
           /\ LiveFlows \subseteq LiveFlows' \cup {FlowOf(pipes[r.id].def)}
           /\ tables' = tables
<1>1. pipes' = [pipes EXCEPT ![r.id].job = "Deleted"] /\ tables' = tables
  BY DEF Executes
<1>2. \A i \in DOMAIN pipes : pipes[i] \in Pipeline
  BY DEF ApiTypeOK
<1>3. DOMAIN pipes' = DOMAIN pipes
  BY <1>1
<1>4. \A i \in DOMAIN pipes : pipes'[i].def = pipes[i].def
  BY <1>1, <1>2 DEF Pipeline
<1>5. \A i \in DOMAIN pipes : pipes'[i].job = IF i = r.id THEN "Deleted" ELSE pipes[i].job
  BY <1>1, <1>2 DEF Pipeline
<1>6. Live' = Live \ {r.id} /\ Live \subseteq DOMAIN pipes
  BY <1>3, <1>5 DEF Live
<1>7. Created' = Created
  BY <1>3, <1>4 DEF Created, FlowOf
<1>8. LiveFlows' \subseteq LiveFlows
  BY <1>4, <1>6 DEF LiveFlows, FlowOf
<1>9. LiveFlows \subseteq LiveFlows' \cup {FlowOf(pipes[r.id].def)}
  BY <1>4, <1>6 DEF LiveFlows, FlowOf
<1>. QED
  BY <1>1, <1>7, <1>8, <1>9

\* A table request adds its table and touches no pipeline.
LEMMA TableFlows ==
    ASSUME NEW r \in Request, r.op = "table", Executes(r)
    PROVE  pipes' = pipes /\ tables \subseteq tables' /\ r.topic \in tables'
BY DEF Executes

\* Without a change of the pipelines no flow changes.
LEMMA QuietFlows ==
    ASSUME pipes' = pipes
    PROVE  Created' = Created /\ LiveFlows' = LiveFlows
BY DEF Created, LiveFlows, Live, FlowOf

\* A job's events touch no flow.
LEMMA JobFlows ==
    ASSUME ApiTypeOK, NEW i \in Live, NEW state \in JobState, JobBecomes(i, state)
    PROVE  Created' = Created /\ LiveFlows' = LiveFlows
<1>1. pipes' = [pipes EXCEPT ![i].job = state]
  BY DEF JobBecomes
<1>2. \A j \in DOMAIN pipes : pipes[j] \in Pipeline
  BY DEF ApiTypeOK
<1>3. DOMAIN pipes' = DOMAIN pipes
  BY <1>1
<1>4. \A j \in DOMAIN pipes : pipes'[j].def = pipes[j].def
  BY <1>1, <1>2 DEF Pipeline
<1>5. \A j \in DOMAIN pipes : pipes'[j].job = IF j = i THEN state ELSE pipes[j].job
  BY <1>1, <1>2 DEF Pipeline
<1>6. Live' = Live /\ Live \subseteq DOMAIN pipes
  BY <1>3, <1>5 DEF Live, JobState
<1>. QED
  BY <1>3, <1>4, <1>6 DEF Created, LiveFlows, FlowOf

-----------------------------------------------------------------------------
\* The flow a request brings with it.
Brings(r) == IF r.op = "create" THEN {FlowOf(r.def)} ELSE {}

\* A request that is executed brings no flow but its own.
LEMMA ExecutesAround ==
    ASSUME ApiTypeOK, NEW r \in Request, Accepts(r), Executes(r), late' \subseteq late
    PROVE  /\ Around' \subseteq Around \cup Brings(r)
           /\ tables \subseteq tables'
           /\ r.op = "table" => r.topic \in tables'
<1>1. LateFlows' \subseteq LateFlows
  BY DEF LateFlows, FlowOf
<1>2. CASE r.op = "create"
  BY <1>1, <1>2, CreateFlows DEF Around, Brings
<1>3. CASE r.op = "delete"
  <2>1. r.id \in Live
    BY <1>3 DEF Accepts
  <2>. QED
    BY <1>1, <1>3, <2>1, DeleteFlows DEF Around
<1>4. CASE r.op = "table"
  BY <1>1, <1>4, TableFlows, QuietFlows DEF Around
<1>. QED
  BY <1>2, <1>3, <1>4 DEF Request

\* A call, whatever its reply, brings no flow but its own.
LEMMA CallAround ==
    ASSUME ApiTypeOK, LateTraceable, NEW r \in Request, NEW reply, Call(r, reply),
           r.op = "delete" => r.id \in DOMAIN pipes
    PROVE  /\ Around' \subseteq Around \cup Brings(r)
           /\ tables \subseteq tables'
           /\ r.op = "table" /\ reply # "error" => r.topic \in tables'
           /\ LateTraceable'
<1>1. Grows
  BY CallType
<1>2. CASE Accepts(r) /\ Executes(r) /\ UNCHANGED late
  BY <1>1, <1>2, ExecutesAround DEF LateTraceable, Grows
<1>3. CASE reply = "refused" /\ ~Accepts(r) /\ UNCHANGED <<pipes, tables, late>>
  <2>1. r.op = "table" => r.topic \in tables
    BY <1>3 DEF Accepts
  <2>. QED
    BY <1>3, <2>1, QuietFlows DEF Around, LateFlows, FlowOf, LateTraceable
<1>4. CASE reply = "error" /\ UNCHANGED <<pipes, tables, late>>
  BY <1>4, QuietFlows DEF Around, LateFlows, FlowOf, LateTraceable
<1>5. CASE reply = "error" /\ late' = late \cup {r} /\ UNCHANGED <<pipes, tables>>
  <2>1. LateFlows' \subseteq LateFlows \cup Brings(r)
    BY <1>5 DEF LateFlows, Brings, FlowOf
  <2>2. LateTraceable'
    BY <1>5 DEF LateTraceable
  <2>. QED
    BY <1>5, <2>1, <2>2, QuietFlows DEF Around
<1>. QED
  BY <1>2, <1>3, <1>4, <1>5 DEF Call

\* A late request brings no flow: its flow counted already.
LEMMA LateAround ==
    ASSUME ApiTypeOK, LateTraceable, LateRequest
    PROVE  /\ Around' \subseteq Around
           /\ tables \subseteq tables'
           /\ LateTraceable'
<1>1. PICK r \in late :
        /\ late' = late \ {r}
        /\ IF Accepts(r) THEN Executes(r) ELSE UNCHANGED <<pipes, tables>>
  BY DEF LateRequest
<1>2. r \in Request /\ late' \subseteq late
  BY <1>1 DEF ApiTypeOK
<1>3. LateTraceable'
  BY <1>2, LateRequestType DEF LateTraceable, Grows
<1>4. CASE Accepts(r)
  <2>1. Brings(r) \subseteq LateFlows
    BY <1>1 DEF Brings, LateFlows
  <2>. QED
    BY <1>1, <1>2, <1>3, <1>4, <2>1, ExecutesAround DEF Around
<1>5. CASE ~Accepts(r)
  <2>1. LateFlows' \subseteq LateFlows
    BY <1>2 DEF LateFlows, FlowOf
  <2>. QED
    BY <1>1, <1>3, <1>5, <2>1, QuietFlows DEF Around
<1>. QED
  BY <1>4, <1>5

\* Arroyo unchanged, what is around is unchanged.
LEMMA QuietAround ==
    ASSUME UNCHANGED <<pipes, tables, late>>
    PROVE  Around' = Around /\ tables' = tables /\ (LateTraceable => LateTraceable')
BY QuietFlows DEF Around, LateFlows, FlowOf, LateTraceable

-----------------------------------------------------------------------------
\* The flows a step can bring: the topic the watcher is working on, and the
\* demo query under a user's name.
Coming ==
    (IF wpc = "pipeline" THEN {<<topic, topic>>} ELSE {})
        \cup {<<n, Demo>> : n \in RunNames}

\* The watcher brings the flow of its topic, after the topic's table.
LEMMA WatcherAround ==
    ASSUME ApiTypeOK, WatcherTypeOK, LateTraceable, WatcherStep
    PROVE  /\ Around' \subseteq Around \cup Coming
           /\ tables \subseteq tables'
           /\ wpc' = "pipeline" => topic' \in tables'
           /\ LateTraceable'
<1>1. CASE Dial \/ ListExisting \/ Scan \/ NextTopic \/ EndScan \/ Refresh
  <2>1. UNCHANGED <<pipes, tables, late>> /\ wpc' # "pipeline"
    BY <1>1 DEF Dial, ListExisting, Scan, NextTopic, EndScan, Refresh, FailedGet, apiVars
  <2>. QED
    BY <2>1, QuietAround
<1>2. CASE CreateTable
  <2>1. PICK reply \in Reply :
            /\ Call(TableReq(topic), reply)
            /\ \/ reply = "error" /\ wpc' = "flow"
               \/ reply # "error" /\ wpc' = "pipeline" /\ UNCHANGED topic
    BY <1>2 DEF CreateTable
  <2>2. /\ TableReq(topic) \in Request
        /\ TableReq(topic).op = "table"
        /\ TableReq(topic).topic = topic
    BY <1>2, FaultsCount DEF CreateTable, WatcherTypeOK, TableReq, Request
  <2>. QED
    BY <2>1, <2>2, CallAround DEF Brings
<1>3. CASE CreatePipeline
  <2>1. PICK reply \in Reply : Call(CreateReq("watcher", FlowDef(topic)), reply)
    BY <1>3 DEF CreatePipeline
  <2>2. wpc = "pipeline" /\ wpc' = "flow" /\ topic \in Topics
    BY <1>3 DEF CreatePipeline, WatcherTypeOK
  <2>3. /\ CreateReq("watcher", FlowDef(topic)) \in Request
        /\ CreateReq("watcher", FlowDef(topic)).op = "create"
        /\ Brings(CreateReq("watcher", FlowDef(topic))) = {<<topic, topic>>}
    BY <2>2, FlowDefType DEF CreateReq, Brings, FlowDef, FlowOf
  <2>. QED
    BY <2>1, <2>2, <2>3, CallAround DEF Coming
<1>. QED
  BY <1>1, <1>2, <1>3 DEF WatcherStep

\* The supervisor brings nothing new: a restart creates what it fetched.
LEMMA SupervisorAround ==
    ASSUME ApiTypeOK, SupervisorTypeOK, Traceable, SupervisorStep
    PROVE  /\ Around' \subseteq Around
           /\ tables \subseteq tables'
           /\ Traceable'
<1>0. Grows
  BY SupervisorStepType
<1>1. CASE Tick \/ CheckJobs \/ EndRound
  <2>1. UNCHANGED <<pipes, tables, late>> /\ spc' \notin {"delete", "recreate"}
    BY <1>1 DEF Tick, CheckJobs, EndRound, FailedGet, apiVars
  <2>. QED
    BY <2>1, QuietAround DEF Traceable
<1>2. CASE FetchPipeline
  <2>1. UNCHANGED <<pipes, tables, late>>
    BY <1>2 DEF FetchPipeline, FailedGet, apiVars
  <2>2. CASE cur \in Live /\ held' = Fetched(pipes[cur].def) /\ spc' = "delete" /\ UNCHANGED cur
    <3>1. pipes[cur] \in Pipeline
      BY <2>2 DEF Live, ApiTypeOK
    <3>2. pipes[cur].def \in Definition
      BY <3>1 DEF Pipeline
    <3>3. FlowOf(held') = FlowOf(pipes[cur].def)
      BY <2>2, <3>2, FetchedType DEF FlowOf
    <3>. QED
      BY <2>1, <2>2, <3>3, QuietAround DEF Traceable, FlowOf
  <2>3. CASE GiveUp
    BY <2>1, <2>3, QuietAround DEF GiveUp, Traceable
  <2>. QED
    BY <1>2, <2>2, <2>3 DEF FetchPipeline
<1>3. CASE DeletePipeline
  <2>1. PICK reply \in Reply :
            /\ Call(DeleteReq(cur), reply)
            /\ \/ reply = "ok" /\ spc' = "recreate" /\ UNCHANGED <<cur, held>>
               \/ reply # "ok" /\ GiveUp
    BY <1>3 DEF DeletePipeline
  <2>2. /\ spc = "delete"
        /\ cur \in DOMAIN pipes
        /\ FlowOf(held) = FlowOf(pipes[cur].def)
    BY <1>3 DEF DeletePipeline, SupervisorTypeOK, Traceable
  <2>3. /\ DeleteReq(cur) \in Request
        /\ DeleteReq(cur).op = "delete"
        /\ DeleteReq(cur).id = cur
    BY <2>2 DEF ApiTypeOK, DeleteReq, Request
  <2>4. /\ Around' \subseteq Around
        /\ tables \subseteq tables'
        /\ LateTraceable'
    BY <2>1, <2>2, <2>3, CallAround DEF Traceable, Brings
  <2>5. CASE spc' = "recreate" /\ UNCHANGED <<cur, held>>
    <3>1. pipes'[cur].def = pipes[cur].def
      BY <1>0, <2>2 DEF Grows
    <3>. QED
      BY <2>2, <2>4, <2>5, <3>1 DEF Traceable, FlowOf
  <2>6. CASE GiveUp
    BY <2>4, <2>6 DEF GiveUp, Traceable
  <2>. QED
    BY <2>1, <2>5, <2>6, <2>4
<1>4. CASE RecreatePipeline
  <2>1. PICK reply \in Reply : Call(CreateReq("supervisor", held), reply)
    BY <1>4 DEF RecreatePipeline
  <2>2. /\ spc = "recreate"
        /\ GiveUp
        /\ cur \in DOMAIN pipes
        /\ held \in Definition
        /\ FlowOf(held) = FlowOf(pipes[cur].def)
    BY <1>4 DEF RecreatePipeline, SupervisorTypeOK, Traceable
  <2>3. /\ CreateReq("supervisor", held) \in Request
        /\ CreateReq("supervisor", held).op = "create"
        /\ Brings(CreateReq("supervisor", held)) = {FlowOf(held)}
    BY <2>2, FaultsCount DEF CreateReq, Brings, Request, Sender
  <2>4. FlowOf(held) \in Around
    BY <2>2 DEF Around, Created
  <2>5. /\ Around' \subseteq Around
        /\ tables \subseteq tables'
        /\ LateTraceable'
    BY <2>1, <2>3, <2>4, CallAround DEF Traceable
  <2>. QED
    BY <2>2, <2>5 DEF GiveUp, Traceable
<1>. QED
  BY <1>1, <1>2, <1>3, <1>4 DEF SupervisorStep

\* A step brings no flow but those that are coming, keeps every table, and the
\* watcher does not get to a pipeline before its table.
LEMMA StepAround ==
    ASSUME TypeOK, Traceable, Next
    PROVE  /\ Around' \subseteq Around \cup Coming
           /\ tables \subseteq tables'
           /\ wpc' = "pipeline" =>
                 \/ topic' \in tables'
                 \/ UNCHANGED <<wpc, topic>>
           /\ Traceable'
<1>0. ApiTypeOK /\ WatcherTypeOK /\ SupervisorTypeOK /\ LateTraceable
  BY DEF TypeOK, Traceable
<1>a. Grows
  BY StepType
<1>b. ASSUME LateTraceable', UNCHANGED supervisorVars
      PROVE  Traceable'
  BY <1>0, <1>a, <1>b DEF Traceable, Grows, SupervisorTypeOK, supervisorVars, FlowOf
<1>1. CASE Boot
  <2>1. UNCHANGED <<pipes, tables, late>> /\ wpc' # "pipeline"
    BY <1>1 DEF Boot, FailedGet, apiVars
  <2>2. UNCHANGED supervisorVars \/ spc' = "idle"
    BY <1>1 DEF Boot, supervisorVars
  <2>. QED
    BY <1>0, <1>b, <2>1, <2>2, QuietAround DEF Traceable
<1>2. CASE Exit
  <2>1. PICK sent \in SUBSET (WatcherCall \cup SupervisorCall) : late' = late \cup sent
    BY <1>2 DEF Exit
  <2>2. UNCHANGED <<pipes, tables>> /\ wpc' = "off" /\ spc' = "off"
    BY <1>2 DEF Exit, WatcherOff, SupervisorOff
  <2>3. \A r \in WatcherCall : r.op # "delete" /\ (r.op = "create" => FlowOf(r.def) \in Coming)
    BY DEF WatcherCall, TableReq, CreateReq, FlowDef, FlowOf, Coming
  <2>4. \A r \in SupervisorCall :
            /\ r.op = "delete" => r.id \in DOMAIN pipes
            /\ r.op = "create" => FlowOf(r.def) \in Around
    <3>1. spc = "delete" => cur \in DOMAIN pipes
      BY <1>0 DEF SupervisorTypeOK
    <3>2. spc = "recreate" => FlowOf(held) \in Around
      BY <1>0 DEF SupervisorTypeOK, Traceable, Around, Created
    <3>. QED
      BY <3>1, <3>2 DEF SupervisorCall, DeleteReq, CreateReq
  <2>5. LateFlows' \subseteq Around \cup Coming
    <3>1. SUFFICES ASSUME NEW r \in late', r.op = "create"
                   PROVE  FlowOf(r.def) \in Around \cup Coming
      BY DEF LateFlows, FlowOf
    <3>2. CASE r \in late
      BY <3>1, <3>2 DEF Around, LateFlows
    <3>3. CASE r \in WatcherCall
      BY <2>3, <3>1, <3>3
    <3>4. CASE r \in SupervisorCall
      BY <2>4, <3>1, <3>4
    <3>. QED
      BY <2>1, <3>2, <3>3, <3>4
  <2>6. LateTraceable'
    BY <1>0, <2>1, <2>2, <2>3, <2>4 DEF LateTraceable
  <2>. QED
    BY <2>2, <2>5, <2>6, QuietFlows DEF Around, Traceable
<1>3. CASE Watch
  BY <1>0, <1>3, <1>b, WatcherAround DEF Watch
<1>4. CASE Supervise
  BY <1>0, <1>4, SupervisorAround DEF Supervise, watcherVars
<1>5. CASE LateRequest /\ UNCHANGED <<watcherVars, supervisorVars, incidents>>
  BY <1>0, <1>5, <1>b, LateAround DEF watcherVars
<1>6. ASSUME NEW i \in DOMAIN pipes, JobStarts(i) \/ JobFails(i) \/ JobStops(i) \/ JobResumes(i)
      PROVE  /\ Around' \subseteq Around
             /\ tables' = tables
             /\ UNCHANGED <<wpc, topic>>
             /\ Traceable'
  <2>1. PICK state \in JobState : JobBecomes(i, state)
    BY <1>6 DEF JobStarts, JobFails, JobStops, JobResumes, JobState
  <2>2. i \in Live /\ UNCHANGED <<watcherVars, supervisorVars>>
    BY <1>6 DEF JobStarts, JobFails, JobStops, JobResumes, Live
  <2>3. tables' = tables /\ late' = late
    BY <2>1 DEF JobBecomes
  <2>4. LateTraceable'
    BY <1>0, <1>a, <2>3 DEF LateTraceable, Grows
  <2>5. LateFlows' = LateFlows
    BY <2>3 DEF LateFlows, FlowOf
  <2>. QED
    BY <1>0, <1>b, <2>1, <2>2, <2>3, <2>4, <2>5, JobFlows DEF Around, watcherVars
<1>7. ASSUME NEW n \in RunNames, RunJob(n)
      PROVE  /\ Around' \subseteq Around \cup Coming
             /\ tables \subseteq tables'
             /\ UNCHANGED <<wpc, topic>>
             /\ Traceable'
  <2> DEFINE d == [name |-> n, query |-> Demo, parallelism |-> 3]
  <2>1. PICK reply \in Reply : Call(CreateReq("user", d), reply)
    BY <1>7 DEF RunJob
  <2>2. /\ CreateReq("user", d) \in Request
        /\ CreateReq("user", d).op = "create"
        /\ Brings(CreateReq("user", d)) = {<<n, Demo>>}
    BY <1>0, RunDefType DEF CreateReq, Brings, FlowOf
  <2>3. UNCHANGED <<watcherVars, supervisorVars>>
    BY <1>7 DEF RunJob
  <2>4. <<n, Demo>> \in Coming
    BY DEF Coming
  <2>. HIDE DEF d
  <2>. QED
    BY <1>0, <1>b, <2>1, <2>2, <2>3, <2>4, CallAround DEF watcherVars
<1>8. ASSUME NEW t \in Topics, TopicAppears(t), UNCHANGED <<supervisorVars, incidents>>
      PROVE  /\ Around' = Around
             /\ tables' = tables
             /\ UNCHANGED <<wpc, topic>>
             /\ Traceable'
  BY <1>0, <1>8, <1>b, QuietAround DEF TopicAppears, apiVars
<1>. QED
  BY <1>1, <1>2, <1>3, <1>4, <1>5, <1>6, <1>7, <1>8 DEF Next, Arroyo

-----------------------------------------------------------------------------
\* A name that no user gives to a job belongs to its topic's flow, and a name that
\* is no topic's to users' jobs; a name of both kinds tells nothing.
NameFits(f) ==
    /\ f[1] \notin RunNames => f[2] = f[1]
    /\ f[1] \notin Topics => f[2] = Demo

NamesFit == \A f \in Around : NameFits(f)

\* The query a pipeline of this name has, when users keep off topic names.
QueryFor(n) == IF n \in Topics THEN n ELSE Demo

TablesFirst ==
    /\ \A f \in Around : f[2] \in Topics => f[2] \in tables
    /\ wpc = "pipeline" => topic \in tables

\* The inductive invariant under FlowHasTable and KnownTopicHadFlow.
FlowsInv ==
    /\ TypeOK
    /\ Traceable
    /\ NamesFit
    /\ TablesFirst
    /\ KnownTopicHadFlow

\* Initially there are no flows.
LEMMA InitFlows == Init => FlowsInv
<1>. SUFFICES ASSUME Init PROVE FlowsInv
  OBVIOUS
<1>1. pipes = <<>> /\ late = {} /\ wpc = "off" /\ spc = "off" /\ knownTopics = {}
  BY DEF Init, ApiInit, WatcherInit, SupervisorInit
<1>2. Around = {}
  BY <1>1 DEF Around, Created, LateFlows
<1>. QED
  BY <1>1, <1>2, InitType
     DEF FlowsInv, Traceable, LateTraceable, NamesFit, TablesFirst, KnownTopicHadFlow

\* An unchanged state keeps each part.
LEMMA StutterFlows ==
    ASSUME FlowsInv, UNCHANGED vars
    PROVE  FlowsInv'
<1>1. UNCHANGED <<pipes, tables, late, faults>> /\ UNCHANGED <<wpc, topic, knownTopics>>
  BY DEF vars, apiVars, watcherVars
<1>2. UNCHANGED <<spc, cur, held>>
  BY DEF vars, supervisorVars
<1>3. TypeOK'
  BY DEF FlowsInv, vars, apiVars, watcherVars, supervisorVars, TypeOK, ApiTypeOK,
         WatcherTypeOK, SupervisorTypeOK
<1>4. Around' = Around /\ LateTraceable'
  BY <1>1, QuietAround DEF FlowsInv, Traceable
<1>. QED
  BY <1>1, <1>2, <1>3, <1>4
     DEF FlowsInv, Traceable, NamesFit, TablesFirst, KnownTopicHadFlow, HadFlow, FlowOf

\* The flow of a live pipeline is around.
LEMMA LiveFlowAround ==
    ASSUME NEW i \in Live
    PROVE  <<pipes[i].def.name, pipes[i].def.query>> \in Around
<1>1. i \in DOMAIN pipes
  BY DEF Live
<1>2. FlowOf(pipes[i].def) \in Created
  BY <1>1 DEF Created
<1>. QED
  BY <1>2 DEF Around, FlowOf

\* Under the invariant a live pipeline's name tells its query.
LEMMA LiveNameTellsQuery ==
    ASSUME NamesFit, RunNames \cap Topics = {}, NEW i \in Live
    PROVE  pipes[i].def.query = QueryFor(pipes[i].def.name)
<1> DEFINE f == <<pipes[i].def.name, pipes[i].def.query>>
<1>1. NameFits(f)
  BY LiveFlowAround DEF NamesFit
<1>. QED
  BY <1>1 DEF NameFits, QueryFor

\* So it does for a name that users do not give to jobs.
LEMMA LiveNameIsServed ==
    ASSUME NamesFit, NEW i \in Live
    PROVE  pipes[i].def.name \notin RunNames => pipes[i].def.query = pipes[i].def.name
<1> DEFINE f == <<pipes[i].def.name, pipes[i].def.query>>
<1>1. NameFits(f)
  BY LiveFlowAround DEF NamesFit
<1>. QED
  BY <1>1 DEF NameFits

\* The watcher takes a topic for known only when it has, or had, a pipeline.
LEMMA LearnsFlow ==
    ASSUME FlowsInv, Next, NEW t \in (knownTopics' \ knownTopics) \cap Topics
    PROVE  HadFlow(t)'
<1>0. ApiTypeOK /\ WatcherTypeOK
  BY DEF FlowsInv, TypeOK
<1>1. knownTopics' # knownTopics
  OBVIOUS
<1>2. \A i \in Live : pipes[i].def.name = t /\ t \notin RunNames => pipes[i].def.query = t
  BY LiveNameIsServed DEF FlowsInv
<1>3. ListExisting \/ CreatePipeline
  BY <1>1 DEF Next, Boot, Exit, WatcherOff, Watch, WatcherStep, Dial, Scan, NextTopic, EndScan,
        CreateTable, Refresh, Supervise, Arroyo, JobStarts, JobFails, JobStops, JobResumes,
        RunJob, TopicAppears, watcherVars
<1>4. CASE ListExisting
  <2>1. t \in LiveNames /\ pipes' = pipes
    BY <1>4 DEF ListExisting, FailedGet, apiVars
  <2>2. PICK i \in Live : pipes[i].def.name = t
    BY <2>1 DEF LiveNames
  <2>. QED
    BY <1>2, <2>1, <2>2 DEF HadFlow, Live
<1>5. CASE CreatePipeline
  <2>1. PICK reply \in Reply :
            /\ Call(CreateReq("watcher", FlowDef(topic)), reply)
            /\ knownTopics' = IF reply = "error" THEN knownTopics ELSE knownTopics \cup {topic}
    BY <1>5 DEF CreatePipeline
  <2>2. reply # "error" /\ t = topic /\ topic \in Topics
    BY <2>1
  <2> DEFINE r == CreateReq("watcher", FlowDef(topic))
  <2>3. r \in Request /\ r.op = "create" /\ r.def.name = topic /\ FlowOf(r.def) = <<topic, topic>>
    BY <1>0, <2>2, FlowDefType DEF CreateReq, FlowDef, FlowOf
  <2>4. Call(r, reply)
    BY <2>1
  <2>. HIDE DEF r
  <2>5. CASE Executes(r)
    <3>1. <<topic, topic>> \in Created'
      BY <1>0, <2>3, <2>5, CreateFlows
    <3>. QED
      BY <2>2, <3>1 DEF Created, FlowOf, HadFlow
  <2>6. CASE ~Accepts(r) /\ pipes' = pipes
    <3>1. topic \in LiveNames
      BY <2>3, <2>6 DEF Accepts
    <3>2. PICK i \in Live : pipes[i].def.name = topic
      BY <3>1 DEF LiveNames
    <3>. QED
      BY <1>2, <2>2, <2>6, <3>2 DEF HadFlow, Live
  <2>. QED
    BY <2>2, <2>4, <2>5, <2>6 DEF Call
<1>. QED
  BY <1>3, <1>4, <1>5

\* Every step keeps the invariant of the flows.
LEMMA StepFlows ==
    ASSUME FlowsInv, Next
    PROVE  FlowsInv'
<1>1. TypeOK' /\ Grows
  BY StepType DEF FlowsInv
<1>2. /\ Around' \subseteq Around \cup Coming
      /\ tables \subseteq tables'
      /\ wpc' = "pipeline" => topic' \in tables' \/ UNCHANGED <<wpc, topic>>
      /\ Traceable'
  BY StepAround DEF FlowsInv
<1>3. wpc = "pipeline" => topic \in Topics /\ topic \in tables
  BY DEF FlowsInv, TypeOK, WatcherTypeOK, TablesFirst
<1>4. \A f \in Coming : f[2] \in Topics => f[2] \in tables
  BY <1>3, ApiAssumption DEF Coming
<1>5. \A f \in Coming : NameFits(f)
  BY <1>3 DEF Coming, NameFits
<1>6. NamesFit'
  BY <1>2, <1>5 DEF FlowsInv, NamesFit
<1>7. TablesFirst'
  BY <1>2, <1>3, <1>4 DEF FlowsInv, TablesFirst
<1>8. KnownTopicHadFlow'
  <2>. SUFFICES ASSUME NEW t \in knownTopics' \cap Topics
                PROVE  HadFlow(t)'
    BY DEF KnownTopicHadFlow
  <2>1. CASE t \in knownTopics
    BY <1>1, <2>1 DEF FlowsInv, KnownTopicHadFlow, HadFlow, Grows
  <2>2. CASE t \notin knownTopics
    BY <2>2, LearnsFlow
  <2>. QED
    BY <2>1, <2>2
<1>. QED
  BY <1>1, <1>2, <1>6, <1>7, <1>8 DEF FlowsInv

\* The inductive invariant of the flows: the watcher, the supervisor and the
\* users keep it between any two of their calls.
THEOREM FlowsInvariant == Spec => []FlowsInv
<1>1. FlowsInv /\ [Next]_vars => FlowsInv'
  BY StepFlows, StutterFlows
<1>. QED
  BY <1>1, InitFlows, PTL DEF Spec

\* No pipeline reads a connection table that was not created, in any
\* interleaving of the watcher, restarts and late requests (watcher.go).
THEOREM TablesPrecedePipelines == Spec => []FlowHasTable
<1>1. FlowsInv => FlowHasTable
  <2>. SUFFICES ASSUME FlowsInv, NEW i \in Live, pipes[i].def.query \in Topics
                PROVE  pipes[i].def.query \in tables
    BY DEF FlowHasTable
  <2> DEFINE f == <<pipes[i].def.name, pipes[i].def.query>>
  <2>1. f[2] \in Topics => f[2] \in tables
    BY LiveFlowAround DEF FlowsInv, TablesFirst
  <2>. QED
    BY <2>1
<1>. QED
  BY <1>1, FlowsInvariant, PTL

\* A topic the watcher will not look at again had a pipeline created for it,
\* whatever calls failed and whoever created it (watcher.go).
THEOREM KnownTopicsWereServed == Spec => []KnownTopicHadFlow
<1>1. FlowsInv => KnownTopicHadFlow
  BY DEF FlowsInv
<1>. QED
  BY <1>1, FlowsInvariant, PTL

-----------------------------------------------------------------------------
(***************************************************************************)
(* Losses.  What is owed is what is lost already and what a late delete    *)
(* may yet take; each failure adds at most one flow to it.                 *)
(***************************************************************************)
Owed == (Created \ Kept) \cup Doomed

\* The flow the supervisor has in hand.
InHand == IF spc = "recreate" THEN {FlowOf(held)} ELSE {}

\* What is kept: the live flows and the one in hand, before and after a step.
LEMMA KeptIs == Kept = LiveFlows \cup InHand /\ Kept' = LiveFlows' \cup InHand'
BY DEF Kept, LiveFlows, InHand

\* A request that is not a delete takes nothing away.
LEMMA ExecutesAdds ==
    ASSUME ApiTypeOK, NEW r \in Request, r.op # "delete", Executes(r)
    PROVE  /\ Created' = Created \cup Brings(r)
           /\ LiveFlows' = LiveFlows \cup Brings(r)
<1>1. CASE r.op = "create"
  BY <1>1, CreateFlows DEF Brings
<1>2. CASE r.op = "table"
  BY <1>2, TableFlows, QuietFlows DEF Brings
<1>. QED
  BY <1>1, <1>2 DEF Request

\* Late requests that are dropped or executed, or are not deletes, threaten no
\* other pipeline.
LEMMA DoomedShrinks ==
    ASSUME LateTraceable, Grows, \A q \in late' : q \in late \/ q.op # "delete"
    PROVE  Doomed' \subseteq Doomed
<1>. SUFFICES ASSUME NEW r \in late', r.op = "delete"
              PROVE  FlowOf(pipes'[r.id].def) \in Doomed
  BY DEF Doomed, FlowOf
<1>1. r \in late /\ r.id \in DOMAIN pipes
  BY DEF LateTraceable
<1>2. FlowOf(pipes'[r.id].def) = FlowOf(pipes[r.id].def)
  BY <1>1 DEF Grows, FlowOf
<1>. QED
  BY <1>1, <1>2 DEF Doomed

\* A delete that becomes late threatens its own pipeline only.
LEMMA DoomedGrows ==
    ASSUME LateTraceable, Grows, NEW i \in DOMAIN pipes,
           \A q \in late' : q \in late \/ (q.op = "delete" => q.id = i)
    PROVE  Doomed' \subseteq Doomed \cup {FlowOf(pipes[i].def)}
<1>. SUFFICES ASSUME NEW r \in late', r.op = "delete"
              PROVE  FlowOf(pipes'[r.id].def) \in Doomed \cup {FlowOf(pipes[i].def)}
  BY DEF Doomed, FlowOf
<1>1. r.id \in DOMAIN pipes
  BY DEF LateTraceable
<1>2. FlowOf(pipes'[r.id].def) = FlowOf(pipes[r.id].def)
  BY <1>1 DEF Grows, FlowOf
<1>. QED
  BY <1>1, <1>2 DEF Doomed, LateTraceable

\* How a step may change what exists and what is live: not at all, by adding
\* one flow, or by taking one pipeline of a flow away.
Adds(F) == Created' = Created \cup F /\ LiveFlows' = LiveFlows \cup F

Takes(f) ==
    /\ f \in LiveFlows
    /\ Created' = Created
    /\ LiveFlows' \subseteq LiveFlows
    /\ LiveFlows \subseteq LiveFlows' \cup {f}

\* A call that is not a delete takes no flow and threatens none.
LEMMA CallAdds ==
    ASSUME ApiTypeOK, LateTraceable, NEW r \in Request, NEW reply, Call(r, reply), r.op # "delete"
    PROVE  /\ Adds({}) \/ Adds(Brings(r))
           /\ Doomed' \subseteq Doomed
           /\ faults' = IF reply = "error" THEN faults + 1 ELSE faults
           /\ reply = "ok" => Adds(Brings(r))
<1>1. Grows
  BY CallType
<1>2. \A q \in late' : q \in late \/ q.op # "delete"
  BY DEF Call
<1>3. Doomed' \subseteq Doomed
  BY <1>1, <1>2, DoomedShrinks
<1>4. faults' = IF reply = "error" THEN faults + 1 ELSE faults
  BY DEF Call, Fault
<1>5. Executes(r) => Adds(Brings(r))
  BY ExecutesAdds DEF Adds
<1>6. pipes' = pipes => Adds({})
  BY QuietFlows DEF Adds
<1>. QED
  BY <1>3, <1>4, <1>5, <1>6 DEF Call

\* A delete takes at most its pipeline's flow; only a failed one leaves a threat.
LEMMA CallTakes ==
    ASSUME ApiTypeOK, LateTraceable, NEW i \in DOMAIN pipes, NEW reply, Call(DeleteReq(i), reply)
    PROVE  /\ Adds({}) \/ Takes(FlowOf(pipes[i].def))
           /\ reply = "ok" => Doomed' \subseteq Doomed /\ faults' = faults
           /\ reply = "refused" => Adds({}) /\ Doomed' \subseteq Doomed /\ faults' = faults
           /\ reply = "error" =>
                 Doomed' \subseteq Doomed \cup {FlowOf(pipes[i].def)} /\ faults' = faults + 1
           /\ reply \in Reply
<1> DEFINE r == DeleteReq(i)
<1>1. r \in Request /\ r.op = "delete" /\ r.id = i
  BY DEF ApiTypeOK, DeleteReq, Request
<1>2. Call(r, reply)
  OBVIOUS
<1>. HIDE DEF r
<1>3. Grows
  BY <1>1, <1>2, CallType
<1>4. Accepts(r) => i \in Live
  BY <1>1 DEF Accepts
<1>5. Accepts(r) /\ Executes(r) => Takes(FlowOf(pipes[i].def))
  BY <1>1, <1>4, DeleteFlows DEF Takes, LiveFlows
<1>6. pipes' = pipes => Adds({})
  BY QuietFlows DEF Adds
<1>7. late' = late => Doomed' \subseteq Doomed
  BY <1>3, DoomedShrinks
<1>8. late' \subseteq late \cup {r} => Doomed' \subseteq Doomed \cup {FlowOf(pipes[i].def)}
  BY <1>1, <1>3, DoomedGrows
<1>. QED
  BY <1>2, <1>5, <1>6, <1>7, <1>8 DEF Call, Fault, Reply

\* What is owed grows only with a failure, and then by one flow.
OwesNoMore == Owed' \subseteq Owed /\ faults \in Nat /\ faults' \in {faults, faults + 1}

OwesOneMore == \E f : Owed' \subseteq Owed \cup {f} /\ faults' = faults + 1

\* The watcher's calls cost no flow.
LEMMA WatcherOwes ==
    ASSUME ApiTypeOK, WatcherTypeOK, LateTraceable, WatcherStep, UNCHANGED supervisorVars
    PROVE  OwesNoMore
<1>0. InHand' = InHand /\ faults \in Nat
  BY ApiAssumption DEF InHand, supervisorVars, FlowOf, ApiTypeOK
<1>1. CASE Dial \/ ListExisting \/ Scan \/ NextTopic \/ EndScan \/ Refresh
  <2>1. UNCHANGED <<pipes, late>> /\ faults' \in {faults, faults + 1}
    BY <1>1 DEF Dial, ListExisting, Scan, NextTopic, EndScan, Refresh, FailedGet, Fault, apiVars
  <2>2. Doomed' = Doomed
    BY <2>1 DEF Doomed, FlowOf
  <2>. QED
    BY <1>0, <2>1, <2>2, QuietFlows, KeptIs DEF OwesNoMore, Owed
<1>2. ASSUME NEW r \in Request, NEW reply, Call(r, reply), r.op # "delete"
      PROVE  OwesNoMore
  <2>1. Doomed' \subseteq Doomed /\ faults' \in {faults, faults + 1}
    BY <1>2, CallAdds
  <2>2. PICK F : Adds(F)
    BY <1>2, CallAdds
  <2>. QED
    BY <1>0, <2>1, <2>2, KeptIs DEF OwesNoMore, Owed, Adds
<1>3. CASE CreateTable
  <2>1. TableReq(topic) \in Request /\ TableReq(topic).op # "delete"
    BY <1>3, FaultsCount DEF CreateTable, WatcherTypeOK, TableReq, Request
  <2>. QED
    BY <1>2, <1>3, <2>1 DEF CreateTable
<1>4. CASE CreatePipeline
  <2>1. topic \in Topics
    BY <1>4 DEF CreatePipeline, WatcherTypeOK
  <2>2. CreateReq("watcher", FlowDef(topic)) \in Request /\ CreateReq("watcher", FlowDef(topic)).op # "delete"
    BY <2>1, FlowDefType DEF CreateReq
  <2>. QED
    BY <1>2, <1>4, <2>2 DEF CreatePipeline
<1>. QED
  BY <1>1, <1>3, <1>4 DEF WatcherStep

\* In an Arroyo that refuses a second pipeline of a name, a refused definition
\* is running already.
LEMMA RefusedIsLive ==
    ASSUME NamesSeparate, NamesFit, NEW r \in Request, r.op = "create", ~Accepts(r),
           FlowOf(r.def) \in Around
    PROVE  FlowOf(r.def) \in LiveFlows
<1>1. NamesUnique /\ r.def.name \in LiveNames
  BY DEF Accepts
<1>2. RunNames \cap Topics = {}
  BY <1>1 DEF NamesSeparate
<1>3. PICK i \in Live : pipes[i].def.name = r.def.name
  BY <1>1 DEF LiveNames
<1>4. pipes[i].def.query = QueryFor(r.def.name)
  BY <1>2, <1>3, LiveNameTellsQuery
<1>5. r.def.query = QueryFor(r.def.name)
  <2> DEFINE f == FlowOf(r.def)
  <2>1. f[2] = QueryFor(f[1])
    BY <1>2 DEF NamesFit, NameFits, QueryFor
  <2>. QED
    BY <2>1 DEF FlowOf
<1>. QED
  BY <1>3, <1>4, <1>5 DEF LiveFlows, FlowOf

\* A restart costs a flow only when one of its calls fails.
LEMMA SupervisorOwes ==
    ASSUME FlowsInv, NamesSeparate, SupervisorStep
    PROVE  OwesNoMore \/ OwesOneMore
<1>0. ApiTypeOK /\ SupervisorTypeOK /\ Traceable /\ LateTraceable /\ faults \in Nat
  BY ApiAssumption DEF FlowsInv, TypeOK, ApiTypeOK, Traceable
<1>1. CASE Tick \/ CheckJobs \/ EndRound \/ FetchPipeline
  <2>1. UNCHANGED <<pipes, late>> /\ faults' \in {faults, faults + 1}
    BY <1>1 DEF Tick, CheckJobs, EndRound, FetchPipeline, FailedGet, Fault, apiVars
  <2>2. spc # "recreate" /\ spc' # "recreate"
    BY <1>1 DEF Tick, CheckJobs, EndRound, FetchPipeline, GiveUp
  <2>3. Doomed' = Doomed
    BY <2>1 DEF Doomed, FlowOf
  <2>4. InHand = {} /\ InHand' = {}
    BY <2>2 DEF InHand
  <2>. QED
    BY <1>0, <2>1, <2>3, <2>4, QuietFlows, KeptIs DEF OwesNoMore, Owed
<1>2. CASE DeletePipeline
  <2>1. PICK reply \in Reply :
            /\ Call(DeleteReq(cur), reply)
            /\ \/ reply = "ok" /\ spc' = "recreate" /\ UNCHANGED <<cur, held>>
               \/ reply # "ok" /\ GiveUp
    BY <1>2 DEF DeletePipeline
  <2>2. spc = "delete" /\ cur \in DOMAIN pipes /\ FlowOf(held) = FlowOf(pipes[cur].def)
    BY <1>0, <1>2 DEF DeletePipeline, SupervisorTypeOK, Traceable
  <2> DEFINE f == FlowOf(pipes[cur].def)
  <2>3. InHand = {}
    BY <2>2 DEF InHand
  <2>4. reply = "ok" => InHand' = {f}
    BY <2>1, <2>2 DEF InHand, FlowOf
  <2>5. reply # "ok" => InHand' = {}
    BY <2>1 DEF InHand, GiveUp
  <2>6. /\ Adds({}) \/ Takes(f)
        /\ reply = "ok" => Doomed' \subseteq Doomed /\ faults' = faults
        /\ reply = "refused" => Adds({}) /\ Doomed' \subseteq Doomed /\ faults' = faults
        /\ reply = "error" => Doomed' \subseteq Doomed \cup {f} /\ faults' = faults + 1
    BY <1>0, <2>1, <2>2, CallTakes
  <2>. HIDE DEF f
  <2>7. CASE reply = "ok"
    BY <1>0, <2>3, <2>4, <2>6, <2>7, KeptIs DEF OwesNoMore, Owed, Adds, Takes
  <2>8. CASE reply = "refused"
    BY <1>0, <2>3, <2>5, <2>6, <2>8, KeptIs DEF OwesNoMore, Owed, Adds
  <2>9. CASE reply = "error"
    <3>1. Owed' \subseteq Owed \cup {f}
      BY <2>3, <2>5, <2>6, <2>9, KeptIs DEF Owed, Adds, Takes
    <3>. QED
      BY <2>6, <2>9, <3>1 DEF OwesOneMore
  <2>. QED
    BY <2>7, <2>8, <2>9 DEF Reply
<1>3. CASE RecreatePipeline
  <2>1. PICK reply \in Reply : Call(CreateReq("supervisor", held), reply)
    BY <1>3 DEF RecreatePipeline
  <2> DEFINE r == CreateReq("supervisor", held)
           f == FlowOf(held)
  <2>2. /\ spc = "recreate"
        /\ spc' # "recreate"
        /\ cur \in DOMAIN pipes
        /\ held \in Definition
        /\ FlowOf(held) = FlowOf(pipes[cur].def)
    BY <1>0, <1>3 DEF RecreatePipeline, GiveUp, SupervisorTypeOK, Traceable
  <2>3. f \in Around
    BY <2>2 DEF Around, Created
  <2>4. r \in Request /\ r.op = "create" /\ FlowOf(r.def) = f /\ Brings(r) = {f}
    BY <1>0, <2>2, FaultsCount DEF CreateReq, Brings, Request, Sender
  <2>5. InHand = {f} /\ InHand' = {}
    BY <2>2 DEF InHand
  <2>6. Call(r, reply)
    BY <2>1
  <2>. HIDE DEF f, r
  <2>7. /\ Adds({}) \/ Adds(Brings(r))
        /\ Doomed' \subseteq Doomed
        /\ faults' = IF reply = "error" THEN faults + 1 ELSE faults
        /\ reply = "ok" => Adds(Brings(r))
    BY <1>0, <2>4, <2>6, CallAdds
  <2>8. CASE reply = "ok"
    BY <1>0, <2>4, <2>5, <2>7, <2>8, KeptIs DEF OwesNoMore, Owed, Adds
  <2>9. CASE reply = "refused"
    <3>1. ~Accepts(r)
      BY <2>6, <2>9 DEF Call
    <3>2. f \in LiveFlows
      BY <2>3, <2>4, <3>1, RefusedIsLive DEF FlowsInv
    <3>. QED
      BY <1>0, <2>4, <2>5, <2>7, <2>9, <3>2, KeptIs DEF OwesNoMore, Owed, Adds
  <2>10. CASE reply = "error"
    <3>1. Owed' \subseteq Owed \cup {f}
      BY <2>4, <2>5, <2>7, <2>10, KeptIs DEF Owed, Adds
    <3>. QED
      BY <2>7, <2>10, <3>1 DEF OwesOneMore
  <2>. QED
    BY <2>8, <2>9, <2>10 DEF Reply
<1>. QED
  BY <1>1, <1>2, <1>3 DEF SupervisorStep

\* A late request costs what was owed since its call failed, and no more.
LEMMA LateOwes ==
    ASSUME ApiTypeOK, LateTraceable, LateRequest, UNCHANGED supervisorVars
    PROVE  OwesNoMore
<1>0. InHand' = InHand /\ faults \in Nat /\ Grows
  BY ApiAssumption, LateRequestType DEF InHand, supervisorVars, FlowOf, ApiTypeOK
<1>1. PICK r \in late :
        /\ late' = late \ {r}
        /\ IF Accepts(r) THEN Executes(r) ELSE UNCHANGED <<pipes, tables>>
        /\ UNCHANGED faults
  BY DEF LateRequest
<1>2. r \in Request
  BY DEF ApiTypeOK
<1>3. Doomed' \subseteq Doomed
  BY <1>0, <1>1, DoomedShrinks
<1>4. CASE ~Accepts(r)
  BY <1>0, <1>1, <1>3, <1>4, QuietFlows, KeptIs DEF OwesNoMore, Owed
<1>5. CASE Accepts(r) /\ r.op # "delete"
  <2>1. Adds(Brings(r))
    BY <1>1, <1>2, <1>5, ExecutesAdds DEF Adds
  <2>. QED
    BY <1>0, <1>1, <1>3, <2>1, KeptIs DEF OwesNoMore, Owed, Adds
<1>6. CASE Accepts(r) /\ r.op = "delete"
  <2>1. r.id \in Live
    BY <1>6 DEF Accepts
  <2>2. Takes(FlowOf(pipes[r.id].def))
    BY <1>1, <1>2, <1>6, <2>1, DeleteFlows DEF Takes, LiveFlows
  <2>3. FlowOf(pipes[r.id].def) \in Doomed
    BY <1>1, <1>6 DEF Doomed
  <2>. QED
    BY <1>0, <1>1, <1>3, <2>2, <2>3, KeptIs DEF OwesNoMore, Owed, Takes
<1>. QED
  BY <1>4, <1>5, <1>6

\* The process exits: what the supervisor had in hand is owed, and so is what
\* its delete, still on its way, may take.
LEMMA ExitOwes ==
    ASSUME FlowsInv, Exit
    PROVE  OwesOneMore
<1>0. ApiTypeOK /\ SupervisorTypeOK /\ Traceable /\ LateTraceable
  BY DEF FlowsInv, TypeOK, Traceable
<1>1. PICK sent \in SUBSET (WatcherCall \cup SupervisorCall) : late' = late \cup sent
  BY DEF Exit
<1>2. pipes' = pipes /\ spc' = "off" /\ faults' = faults + 1 /\ Grows
  BY DEF Exit, SupervisorOff, Fault, Grows
<1>3. \A q \in WatcherCall : q.op # "delete"
  BY DEF WatcherCall, TableReq, CreateReq
<1>4. InHand' = {} /\ Created' = Created /\ LiveFlows' = LiveFlows
  BY <1>2, QuietFlows DEF InHand
<1>5. CASE spc \in {"delete", "recreate"}
  <2> DEFINE f == FlowOf(pipes[cur].def)
  <2>1. cur \in DOMAIN pipes /\ FlowOf(held) = f
    BY <1>0, <1>5 DEF SupervisorTypeOK, Traceable
  <2>2. \A q \in SupervisorCall : q.op = "delete" => q.id = cur
    BY DEF SupervisorCall, DeleteReq, CreateReq
  <2>3. Doomed' \subseteq Doomed \cup {f}
    BY <1>0, <1>1, <1>2, <1>3, <2>1, <2>2, DoomedGrows
  <2>4. InHand \subseteq {f}
    BY <2>1 DEF InHand
  <2>. HIDE DEF f
  <2>5. Owed' \subseteq Owed \cup {f}
    BY <1>4, <2>3, <2>4, KeptIs DEF Owed
  <2>. QED
    BY <1>2, <2>5 DEF OwesOneMore
<1>6. CASE spc \notin {"delete", "recreate"}
  <2>1. SupervisorCall = {} /\ InHand = {}
    BY <1>6 DEF SupervisorCall, InHand
  <2>2. Doomed' \subseteq Doomed
    BY <1>0, <1>1, <1>2, <1>3, <2>1, DoomedShrinks
  <2>3. Owed' \subseteq Owed \cup {None}
    BY <1>4, <2>1, <2>2, KeptIs DEF Owed
  <2>. QED
    BY <1>2, <2>3 DEF OwesOneMore
<1>. QED
  BY <1>5, <1>6

\* Any step owes at most one flow more, and only with a fault.
LEMMA StepOwes ==
    ASSUME FlowsInv, NamesSeparate, Next
    PROVE  OwesNoMore \/ OwesOneMore
<1>0. /\ ApiTypeOK /\ WatcherTypeOK /\ SupervisorTypeOK
      /\ LateTraceable /\ faults \in Nat
      /\ wpc = "off" <=> spc = "off"
  BY ApiAssumption DEF FlowsInv, TypeOK, ApiTypeOK, Traceable
<1>a. ASSUME UNCHANGED <<pipes, late>>, InHand' = InHand, faults' \in {faults, faults + 1}
      PROVE  OwesNoMore
  <2>1. Doomed' = Doomed
    BY <1>a DEF Doomed, FlowOf
  <2>. QED
    BY <1>0, <1>a, <2>1, QuietFlows, KeptIs DEF OwesNoMore, Owed
<1>b. UNCHANGED supervisorVars => InHand' = InHand
  BY DEF supervisorVars, InHand, FlowOf
<1>1. CASE Boot
  <2>1. UNCHANGED <<pipes, late>> /\ faults' \in {faults, faults + 1}
    BY <1>1 DEF Boot, FailedGet, Fault, apiVars
  <2>2. UNCHANGED held /\ (spc' = spc \/ (spc' = "idle" /\ spc # "recreate"))
    BY <1>0, <1>1 DEF Boot
  <2>. QED
    BY <1>a, <2>1, <2>2 DEF InHand, FlowOf
<1>2. CASE Exit
  BY <1>2, ExitOwes
<1>3. CASE Watch
  BY <1>0, <1>3, WatcherOwes DEF Watch
<1>4. CASE Supervise
  BY <1>4, SupervisorOwes DEF Supervise
<1>5. CASE LateRequest /\ UNCHANGED <<watcherVars, supervisorVars, incidents>>
  BY <1>0, <1>5, LateOwes
<1>6. ASSUME NEW i \in DOMAIN pipes, JobStarts(i) \/ JobFails(i) \/ JobStops(i) \/ JobResumes(i)
      PROVE  OwesNoMore
  <2>1. PICK state \in JobState : JobBecomes(i, state)
    BY <1>6 DEF JobStarts, JobFails, JobStops, JobResumes, JobState
  <2>2. i \in Live /\ UNCHANGED supervisorVars
    BY <1>6 DEF JobStarts, JobFails, JobStops, JobResumes, Live
  <2>3. late' = late /\ faults' = faults
    BY <2>1 DEF JobBecomes
  <2>4. Doomed' \subseteq Doomed
    BY <1>0, <2>1, <2>3, JobBecomesType, DoomedShrinks
  <2>. QED
    BY <1>0, <1>b, <2>1, <2>2, <2>3, <2>4, JobFlows, KeptIs DEF OwesNoMore, Owed
<1>7. ASSUME NEW n \in RunNames, RunJob(n)
      PROVE  OwesNoMore
  <2> DEFINE r == CreateReq("user", [name |-> n, query |-> Demo, parallelism |-> 3])
  <2>1. PICK reply \in Reply : Call(r, reply)
    BY <1>7 DEF RunJob
  <2>2. r \in Request /\ r.op # "delete"
    BY <1>0, RunDefType DEF CreateReq
  <2>3. UNCHANGED supervisorVars
    BY <1>7 DEF RunJob
  <2>. HIDE DEF r
  <2>4. Doomed' \subseteq Doomed /\ faults' \in {faults, faults + 1}
    BY <1>0, <2>1, <2>2, CallAdds
  <2>5. PICK F : Adds(F)
    BY <1>0, <2>1, <2>2, CallAdds
  <2>. QED
    BY <1>0, <1>b, <2>3, <2>4, <2>5, KeptIs DEF OwesNoMore, Owed, Adds
<1>8. ASSUME NEW t \in Topics, TopicAppears(t), UNCHANGED <<supervisorVars, incidents>>
      PROVE  OwesNoMore
  BY <1>0, <1>8, <1>a, <1>b DEF TopicAppears, apiVars
<1>. QED
  BY <1>1, <1>2, <1>3, <1>4, <1>5, <1>6, <1>7, <1>8 DEF Next, Arroyo

-----------------------------------------------------------------------------
\* The inductive invariant under LossWithinFaults: late deletes count as losses
\* already, for nothing can be done about them.
LossInv == NamesSeparate => IsFiniteSet(Owed) /\ Cardinality(Owed) <= faults

\* Initially nothing is owed.
LEMMA InitLoss == Init => LossInv
<1>. SUFFICES ASSUME Init PROVE LossInv
  OBVIOUS
<1>1. pipes = <<>> /\ late = {} /\ faults = 0
  BY DEF Init, ApiInit
<1>2. Owed = {}
  BY <1>1 DEF Owed, Created, Doomed
<1>. QED
  BY <1>1, <1>2, FS_EmptySet DEF LossInv

\* Every step keeps the invariant of the losses.
LEMMA StepLoss ==
    ASSUME FlowsInv, LossInv, Next
    PROVE  LossInv'
<1>. SUFFICES ASSUME NamesSeparate
              PROVE  IsFiniteSet(Owed') /\ Cardinality(Owed') <= faults'
  BY DEF LossInv, NamesSeparate
<1>0. IsFiniteSet(Owed) /\ Cardinality(Owed) <= faults /\ faults \in Nat
  BY ApiAssumption DEF LossInv, FlowsInv, TypeOK, ApiTypeOK
<1>1. Cardinality(Owed) \in Nat
  BY <1>0, FS_CardinalityType
<1>2. CASE OwesNoMore
  <2>1. Owed' \in SUBSET Owed /\ faults' \in {faults, faults + 1}
    BY <1>2 DEF OwesNoMore
  <2>2. IsFiniteSet(Owed') /\ Cardinality(Owed') <= Cardinality(Owed)
    BY <1>0, <2>1, FS_Subset
  <2>3. Cardinality(Owed') \in Nat
    BY <2>2, FS_CardinalityType
  <2>. QED
    BY <1>0, <1>1, <2>1, <2>2, <2>3
<1>3. CASE OwesOneMore
  <2>1. PICK f : Owed' \subseteq Owed \cup {f} /\ faults' = faults + 1
    BY <1>3 DEF OwesOneMore
  <2>2. /\ IsFiniteSet(Owed \cup {f})
        /\ Cardinality(Owed \cup {f}) \in {Cardinality(Owed), Cardinality(Owed) + 1}
    BY <1>0, FS_AddElement
  <2>3. Owed' \in SUBSET (Owed \cup {f})
    BY <2>1
  <2>4. IsFiniteSet(Owed') /\ Cardinality(Owed') <= Cardinality(Owed \cup {f})
    BY <2>2, <2>3, FS_Subset
  <2>5. Cardinality(Owed') \in Nat
    BY <2>4, FS_CardinalityType
  <2>. QED
    BY <1>0, <1>1, <2>1, <2>2, <2>4, <2>5
<1>. QED
  BY <1>2, <1>3, StepOwes

\* So does a step that changes nothing.
LEMMA StutterLoss ==
    ASSUME LossInv, UNCHANGED vars
    PROVE  LossInv'
<1>1. UNCHANGED <<pipes, late, faults, spc, held>>
  BY DEF vars, apiVars, supervisorVars
<1>2. Doomed' = Doomed /\ InHand' = InHand
  BY <1>1 DEF Doomed, InHand, FlowOf
<1>3. Owed' = Owed
  BY <1>1, <1>2, QuietFlows, KeptIs DEF Owed
<1>. QED
  BY <1>1, <1>3 DEF LossInv, NamesSeparate

\* The inductive invariant of the losses holds in every reachable state.
THEOREM LossInvariant == Spec => [](FlowsInv /\ LossInv)
<1>1. Init => FlowsInv /\ LossInv
  BY InitFlows, InitLoss
<1>2. FlowsInv /\ LossInv /\ [Next]_vars => (FlowsInv /\ LossInv)'
  BY StepFlows, StutterFlows, StepLoss, StutterLoss
<1>. QED
  BY <1>1, <1>2, PTL DEF Spec

\* Each failed call or process exit costs at most one flow, however restarts,
\* late deletes and exits interleave (arroyo.go, RestartPipeline).
THEOREM LossesAreBounded == Spec => []LossWithinFaults
<1>1. FlowsInv /\ LossInv => LossWithinFaults
  <2>. SUFFICES ASSUME FlowsInv, LossInv, NamesSeparate
                PROVE  Cardinality(Created \ Kept) <= faults
    BY DEF LossWithinFaults
  <2>1. IsFiniteSet(Owed) /\ Cardinality(Owed) <= faults /\ faults \in Nat
    BY ApiAssumption DEF LossInv, FlowsInv, TypeOK, ApiTypeOK
  <2>2. Created \ Kept \in SUBSET Owed
    BY DEF Owed
  <2>3. IsFiniteSet(Created \ Kept) /\ Cardinality(Created \ Kept) <= Cardinality(Owed)
    BY <2>1, <2>2, FS_Subset
  <2>4. Cardinality(Created \ Kept) \in Nat /\ Cardinality(Owed) \in Nat
    BY <2>1, <2>3, FS_CardinalityType
  <2>. QED
    BY <2>1, <2>3, <2>4
<1>. QED
  BY <1>1, LossInvariant, PTL

-----------------------------------------------------------------------------
(***************************************************************************)
(* Refinement: every step keeps the catalog as it is, adds one flow to it, *)
(* or loses one.                                                           *)
(***************************************************************************)
AllFlows == Names \X (Topics \cup {Demo})

Same == Created' = Created /\ Kept' = Kept

Gains == \E f \in AllFlows : Created' = Created \cup {f} /\ Kept' = Kept \cup {f}

Drops == \E f \in Kept : Created' = Created /\ Kept' = Kept \ {f}

\* The flows kept and lost are names with queries, as Catalog has them.
LEMMA KeptType ==
    ASSUME FlowsInv
    PROVE  Created \subseteq AllFlows /\ Kept \subseteq Created
<1>0. ApiTypeOK /\ SupervisorTypeOK /\ Traceable
  BY DEF FlowsInv, TypeOK
<1>1. \A i \in DOMAIN pipes : FlowOf(pipes[i].def) \in AllFlows
  <2>. SUFFICES ASSUME NEW i \in DOMAIN pipes PROVE FlowOf(pipes[i].def) \in AllFlows
    OBVIOUS
  <2>1. pipes[i] \in Pipeline
    BY <1>0 DEF ApiTypeOK
  <2>2. pipes[i].def \in Definition
    BY <2>1 DEF Pipeline
  <2>. QED
    BY <2>2 DEF Definition, FlowOf, AllFlows
<1>2. spc = "recreate" => FlowOf(held) \in Created
  BY <1>0 DEF SupervisorTypeOK, Traceable, Created
<1>. QED
  BY <1>1, <1>2 DEF Created, Kept, Live

\* Adding one flow is a step of Catalog, or none.
LEMMA AddsOne ==
    ASSUME NEW r \in Request, Adds({}) \/ Adds(Brings(r)), InHand' = InHand
    PROVE  Same \/ Gains
<1>1. CASE Adds({})
  BY <1>1, KeptIs DEF Adds, Same
<1>2. CASE Adds(Brings(r)) /\ r.op = "create"
  <2>1. FlowOf(r.def) \in AllFlows
    BY <1>2 DEF Request, Definition, FlowOf, AllFlows
  <2>. QED
    BY <1>2, <2>1, KeptIs DEF Adds, Brings, Gains
<1>3. CASE Adds(Brings(r)) /\ r.op # "create"
  BY <1>3, KeptIs DEF Adds, Brings, Same
<1>. QED
  BY <1>1, <1>2, <1>3

\* Taking one flow within the faults is a step of Catalog, or none.
LEMMA TakesOne ==
    ASSUME NEW f, Takes(f), InHand' = InHand
    PROVE  Same \/ Drops
<1>1. f \in Kept
  BY KeptIs DEF Takes
<1>2. Kept' = Kept \/ Kept' = Kept \ {f}
  BY KeptIs DEF Takes
<1>. QED
  BY <1>1, <1>2 DEF Same, Drops, Takes

\* The watcher's steps, as Catalog sees them.
LEMMA WatcherMoves ==
    ASSUME ApiTypeOK, WatcherTypeOK, LateTraceable, WatcherStep, UNCHANGED supervisorVars
    PROVE  Same \/ Gains
<1>0. InHand' = InHand
  BY DEF InHand, supervisorVars, FlowOf
<1>1. CASE Dial \/ ListExisting \/ Scan \/ NextTopic \/ EndScan \/ Refresh
  <2>1. pipes' = pipes
    BY <1>1 DEF Dial, ListExisting, Scan, NextTopic, EndScan, Refresh, FailedGet, apiVars
  <2>. QED
    BY <1>0, <2>1, QuietFlows, KeptIs DEF Same
<1>2. CASE CreateTable
  <2>1. TableReq(topic) \in Request /\ TableReq(topic).op # "delete"
    BY <1>2, FaultsCount DEF CreateTable, WatcherTypeOK, TableReq, Request
  <2>2. PICK reply \in Reply : Call(TableReq(topic), reply)
    BY <1>2 DEF CreateTable
  <2>3. Adds({}) \/ Adds(Brings(TableReq(topic)))
    BY <2>1, <2>2, CallAdds
  <2>. QED
    BY <1>0, <2>1, <2>3, AddsOne
<1>3. CASE CreatePipeline
  <2>1. topic \in Topics
    BY <1>3 DEF CreatePipeline, WatcherTypeOK
  <2>2. CreateReq("watcher", FlowDef(topic)) \in Request /\ CreateReq("watcher", FlowDef(topic)).op # "delete"
    BY <2>1, FlowDefType DEF CreateReq
  <2>3. PICK reply \in Reply : Call(CreateReq("watcher", FlowDef(topic)), reply)
    BY <1>3 DEF CreatePipeline
  <2>4. Adds({}) \/ Adds(Brings(CreateReq("watcher", FlowDef(topic))))
    BY <2>2, <2>3, CallAdds
  <2>. QED
    BY <1>0, <2>2, <2>4, AddsOne
<1>. QED
  BY <1>1, <1>2, <1>3 DEF WatcherStep

\* The supervisor's steps, as Catalog sees them.
LEMMA SupervisorMoves ==
    ASSUME FlowsInv, NamesSeparate, SupervisorStep
    PROVE  Same \/ Drops
<1>0. ApiTypeOK /\ SupervisorTypeOK /\ Traceable /\ LateTraceable
  BY DEF FlowsInv, TypeOK, Traceable
<1>1. CASE Tick \/ CheckJobs \/ EndRound \/ FetchPipeline
  <2>1. pipes' = pipes
    BY <1>1 DEF Tick, CheckJobs, EndRound, FetchPipeline, FailedGet, apiVars
  <2>2. InHand = {} /\ InHand' = {}
    BY <1>1 DEF Tick, CheckJobs, EndRound, FetchPipeline, GiveUp, InHand
  <2>. QED
    BY <2>1, <2>2, QuietFlows, KeptIs DEF Same
<1>2. CASE DeletePipeline
  <2>1. PICK reply \in Reply :
            /\ Call(DeleteReq(cur), reply)
            /\ \/ reply = "ok" /\ spc' = "recreate" /\ UNCHANGED <<cur, held>>
               \/ reply # "ok" /\ GiveUp
    BY <1>2 DEF DeletePipeline
  <2>2. spc = "delete" /\ cur \in DOMAIN pipes /\ FlowOf(held) = FlowOf(pipes[cur].def)
    BY <1>0, <1>2 DEF DeletePipeline, SupervisorTypeOK, Traceable
  <2> DEFINE f == FlowOf(pipes[cur].def)
  <2>3. InHand = {} /\ InHand' \in {{}, {f}}
    BY <2>1, <2>2 DEF InHand, FlowOf, GiveUp
  <2>4. Adds({}) \/ Takes(f)
    BY <1>0, <2>1, <2>2, CallTakes
  <2>5. reply = "ok" => f \in LiveFlows
    <3>1. reply = "ok" => cur \in Live
      BY <2>1 DEF Call, Accepts, DeleteReq
    <3>. QED
      BY <3>1 DEF LiveFlows
  <2>6. InHand' = {} \/ reply = "ok"
    BY <2>1 DEF GiveUp, InHand
  <2>. HIDE DEF f
  <2>7. CASE InHand' = {}
    BY <2>3, <2>4, <2>7, TakesOne, KeptIs DEF Adds, Same
  <2>8. CASE InHand' = {f} /\ f \in LiveFlows
    BY <2>3, <2>4, <2>8, KeptIs DEF Adds, Takes, Same
  <2>. QED
    BY <2>3, <2>5, <2>6, <2>7, <2>8
<1>3. CASE RecreatePipeline
  <2>1. PICK reply \in Reply : Call(CreateReq("supervisor", held), reply)
    BY <1>3 DEF RecreatePipeline
  <2> DEFINE r == CreateReq("supervisor", held)
           f == FlowOf(held)
  <2>2. /\ spc = "recreate"
        /\ spc' # "recreate"
        /\ cur \in DOMAIN pipes
        /\ held \in Definition
        /\ FlowOf(held) = FlowOf(pipes[cur].def)
    BY <1>0, <1>3 DEF RecreatePipeline, GiveUp, SupervisorTypeOK, Traceable
  <2>3. f \in Created
    BY <2>2 DEF Created
  <2>4. r \in Request /\ r.op # "delete" /\ Brings(r) = {f}
    BY <1>0, <2>2, FaultsCount DEF CreateReq, Brings, Request, Sender
  <2>5. InHand = {f} /\ InHand' = {}
    BY <2>2 DEF InHand
  <2>6. Call(r, reply)
    BY <2>1
  <2>. HIDE DEF f, r
  <2>7. Adds({}) \/ Adds({f})
    BY <1>0, <2>4, <2>6, CallAdds
  <2>8. CASE Adds({f})
    BY <2>3, <2>5, <2>8, KeptIs DEF Adds, Same
  <2>9. CASE Adds({})
    <3>1. f \in Kept /\ Created' = Created /\ (Kept' = Kept \/ Kept' = Kept \ {f})
      BY <2>5, <2>9, KeptIs DEF Adds
    <3>. QED
      BY <3>1 DEF Same, Drops
  <2>. QED
    BY <2>7, <2>8, <2>9
<1>. QED
  BY <1>1, <1>2, <1>3 DEF SupervisorStep

\* A late request, as Catalog sees it.
LEMMA LateMoves ==
    ASSUME ApiTypeOK, LateRequest, UNCHANGED supervisorVars
    PROVE  Same \/ Gains \/ Drops
<1>0. InHand' = InHand
  BY DEF InHand, supervisorVars, FlowOf
<1>1. PICK r \in late : IF Accepts(r) THEN Executes(r) ELSE UNCHANGED <<pipes, tables>>
  BY DEF LateRequest
<1>2. r \in Request
  BY DEF ApiTypeOK
<1>3. CASE ~Accepts(r)
  BY <1>0, <1>1, <1>3, QuietFlows, KeptIs DEF Same
<1>4. CASE Accepts(r) /\ r.op # "delete"
  <2>1. Adds(Brings(r))
    BY <1>1, <1>2, <1>4, ExecutesAdds DEF Adds
  <2>. QED
    BY <1>0, <1>2, <2>1, AddsOne
<1>5. CASE Accepts(r) /\ r.op = "delete"
  <2>1. r.id \in Live
    BY <1>5 DEF Accepts
  <2>2. Takes(FlowOf(pipes[r.id].def))
    BY <1>1, <1>2, <1>5, <2>1, DeleteFlows DEF Takes, LiveFlows
  <2>. QED
    BY <1>0, <2>2, TakesOne
<1>. QED
  BY <1>3, <1>4, <1>5

\* Every step is a step of Catalog, or none.
LEMMA StepMoves ==
    ASSUME FlowsInv, NamesSeparate, Next
    PROVE  Same \/ Gains \/ Drops
<1>0. /\ ApiTypeOK /\ WatcherTypeOK /\ SupervisorTypeOK
      /\ Traceable /\ LateTraceable
      /\ wpc = "off" <=> spc = "off"
  BY DEF FlowsInv, TypeOK, Traceable
<1>a. UNCHANGED supervisorVars => InHand' = InHand
  BY DEF supervisorVars, InHand, FlowOf
<1>b. ASSUME pipes' = pipes, InHand' = InHand
      PROVE  Same
  BY <1>b, QuietFlows, KeptIs DEF Same
<1>1. CASE Boot
  <2>1. pipes' = pipes
    BY <1>1 DEF Boot, FailedGet, apiVars
  <2>2. UNCHANGED held /\ (spc' = spc \/ (spc' = "idle" /\ spc # "recreate"))
    BY <1>0, <1>1 DEF Boot
  <2>. QED
    BY <1>b, <2>1, <2>2 DEF InHand, FlowOf
<1>2. CASE Exit
  <2>1. pipes' = pipes /\ spc' = "off"
    BY <1>2 DEF Exit, SupervisorOff
  <2>2. InHand' = {} /\ Created' = Created /\ LiveFlows' = LiveFlows
    BY <2>1, QuietFlows DEF InHand
  <2>3. InHand = {} \/ InHand = {FlowOf(held)}
    BY DEF InHand
  <2>4. InHand \subseteq Kept /\ (Kept' = Kept \/ Kept' = Kept \ InHand)
    BY <2>2, <2>3, KeptIs
  <2>. QED
    BY <2>2, <2>3, <2>4 DEF Same, Drops
<1>3. CASE Watch
  BY <1>0, <1>3, WatcherMoves DEF Watch
<1>4. CASE Supervise
  BY <1>4, SupervisorMoves DEF Supervise
<1>5. CASE LateRequest /\ UNCHANGED <<watcherVars, supervisorVars, incidents>>
  BY <1>0, <1>5, LateMoves
<1>6. ASSUME NEW i \in DOMAIN pipes, JobStarts(i) \/ JobFails(i) \/ JobStops(i) \/ JobResumes(i)
      PROVE  Same
  <2>1. PICK state \in JobState : JobBecomes(i, state)
    BY <1>6 DEF JobStarts, JobFails, JobStops, JobResumes, JobState
  <2>2. i \in Live /\ UNCHANGED supervisorVars
    BY <1>6 DEF JobStarts, JobFails, JobStops, JobResumes, Live
  <2>. QED
    BY <1>0, <1>a, <2>1, <2>2, JobFlows, KeptIs DEF Same
<1>7. ASSUME NEW n \in RunNames, RunJob(n)
      PROVE  Same \/ Gains
  <2> DEFINE r == CreateReq("user", [name |-> n, query |-> Demo, parallelism |-> 3])
  <2>1. PICK reply \in Reply : Call(r, reply)
    BY <1>7 DEF RunJob
  <2>2. r \in Request /\ r.op # "delete"
    BY <1>0, RunDefType DEF CreateReq
  <2>3. UNCHANGED supervisorVars
    BY <1>7 DEF RunJob
  <2>. HIDE DEF r
  <2>4. Adds({}) \/ Adds(Brings(r))
    BY <1>0, <2>1, <2>2, CallAdds
  <2>. QED
    BY <1>a, <2>2, <2>3, <2>4, AddsOne
<1>8. ASSUME NEW t \in Topics, TopicAppears(t), UNCHANGED <<supervisorVars, incidents>>
      PROVE  Same
  BY <1>8, <1>a, <1>b DEF TopicAppears, apiVars
<1>. QED
  BY <1>1, <1>2, <1>3, <1>4, <1>5, <1>6, <1>7, <1>8 DEF Next, Arroyo

\* The catalog is what the pipelines implement: whatever the interleaving, each
\* step is one step of Catalog on the flows kept and lost, or no step at all.
THEOREM PipelinesImplementCatalog ==
    ASSUME NamesSeparate
    PROVE  Spec => CatalogKept
<1>1. Init => Flows!Init
  <2>. SUFFICES ASSUME Init PROVE Flows!Init
    OBVIOUS
  <2>1. pipes = <<>> /\ faults = 0 /\ spc = "off"
    BY DEF Init, ApiInit, SupervisorInit
  <2>2. Created = {} /\ Kept = {}
    BY <2>1 DEF Created, Kept, Live
  <2>. QED
    BY <2>1, <2>2 DEF Flows!Init
<1>2. ASSUME FlowsInv, LossWithinFaults', [Next]_vars
      PROVE  [Flows!Next]_<<Kept, Created \ Kept, faults>>
  <2>1. CASE UNCHANGED vars
    <3>1. UNCHANGED <<pipes, faults, spc, held>>
      BY <2>1 DEF vars, apiVars, supervisorVars
    <3>2. InHand' = InHand
      BY <3>1 DEF InHand, FlowOf
    <3>. QED
      BY <3>1, <3>2, QuietFlows, KeptIs
  <2>2. CASE Next
    <3>1. faults' \in {faults, faults + 1}
      BY <1>2, <2>2, StepOwes DEF OwesNoMore, OwesOneMore
    <3>2. Kept \subseteq Created /\ Kept \subseteq AllFlows
      BY <1>2, KeptType
    <3>3. CASE Same
      BY <3>1, <3>3 DEF Same, Flows!Next, Flows!Fail
    <3>4. CASE Gains
      <4>1. PICK f \in AllFlows : Created' = Created \cup {f} /\ Kept' = Kept \cup {f}
        BY <3>4 DEF Gains
      <4>2. (Created \ Kept)' = (Created \ Kept) \ {f}
        BY <4>1
      <4>3. Flows!Add(f)
        BY <3>1, <4>1, <4>2 DEF Flows!Add, Flows!MayFail
      <4>. QED
        BY <4>3 DEF Flows!Next, AllFlows
    <3>5. CASE Drops
      <4>1. PICK f \in Kept : Created' = Created /\ Kept' = Kept \ {f}
        BY <3>5 DEF Drops
      <4>2. (Created \ Kept)' = (Created \ Kept) \cup {f}
        BY <3>2, <4>1
      <4>3. Cardinality((Created \ Kept)') <= faults'
        BY <1>2 DEF LossWithinFaults, NamesSeparate
      <4>4. Flows!Cardinality((Created \ Kept)') = Cardinality((Created \ Kept)')
        BY DEF Flows!Cardinality, Cardinality
      <4>5. Flows!Lose(f)
        BY <3>1, <4>1, <4>2, <4>3, <4>4 DEF Flows!Lose, Flows!MayFail
      <4>. QED
        BY <3>2, <4>1, <4>5 DEF Flows!Next, AllFlows
    <3>. QED
      BY <1>2, <2>2, <3>3, <3>4, <3>5, StepMoves
  <2>. QED
    BY <1>2, <2>1, <2>2
<1>. QED
  BY <1>1, <1>2, FlowsInvariant, LossesAreBounded, PTL DEF Spec, CatalogKept, Flows!Spec
=============================================================================
