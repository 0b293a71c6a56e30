------------------------------ MODULE Watcher ------------------------------
(***************************************************************************)
(* internal/kafka: the goroutine that turns every managed Kafka topic into *)
(* an Arroyo flow, a connection table and a pipeline named after the       *)
(* topic.  wpc is the place the goroutine is at; "off" means the process   *)
(* is not running.  Other processes step between any two of its calls.     *)
(***************************************************************************)
EXTENDS ArroyoApi

CONSTANT Managed      \* the topics with one of the three managed prefixes

ASSUME WatcherAssumption == None \notin Topics

VARIABLES
    topics,       \* Kafka: the topics that exist
    wpc,
    metadata,     \* the Kafka client's cached topic list
    knownTopics,
    todo,         \* the topics this scan has still to look at
    topic         \* the topic createArroyoFlow is working on

watcherVars == <<topics, wpc, metadata, knownTopics, todo, topic>>

-----------------------------------------------------------------------------
WatcherTypeOK ==
    /\ topics \subseteq Topics
    /\ wpc \in {"off", "dial", "list", "scan", "flow", "table", "pipeline", "refresh"}
    /\ metadata \subseteq Topics
    /\ knownTopics \subseteq Names
    /\ todo \subseteq Topics
    /\ topic \in Topics \cup {None}
    /\ wpc \in {"table", "pipeline"} => topic \in Topics

WatcherInit ==
    /\ topics = {}
    /\ wpc = "off"
    /\ metadata = {}
    /\ knownTopics = {}
    /\ todo = {}
    /\ topic = None

isKafkaManagedTopic(t) == t \in Managed

FlowDef(t) == [name |-> t, query |-> t, parallelism |-> 1]

\* The call the goroutine is making.
WatcherCall ==
    IF wpc = "table" THEN {TableReq(topic)}
    ELSE IF wpc = "pipeline" THEN {CreateReq("watcher", FlowDef(topic))}
    ELSE {}

\* The process exits: the goroutine ends and what it knows is gone.
WatcherOff ==
    /\ wpc' = "off"
    /\ metadata' = {}
    /\ knownTopics' = {}
    /\ todo' = {}
    /\ topic' = None
    /\ UNCHANGED topics

\* Kafka: a first reading is published under a new topic.
TopicAppears(t) ==
    /\ t \notin topics
    /\ topics' = topics \cup {t}
    /\ UNCHANGED <<wpc, metadata, knownTopics, todo, topic, apiVars>>

-----------------------------------------------------------------------------
\* The Kafka client connects and loads the topic list; when it cannot, the
\* process exits (Exit in module Pipelines).
Dial ==
    /\ wpc = "dial"
    /\ wpc' = "list"
    /\ metadata' = topics
    /\ UNCHANGED <<topics, knownTopics, todo, topic, apiVars>>

\* The names of the existing pipelines are taken as known topics.  A failure
\* is logged and the loop starts with none; so does an error reply whose body
\* decodes, as an empty list.
ListExisting ==
    /\ wpc = "list"
    /\ \/ knownTopics' = LiveNames /\ UNCHANGED apiVars
       \/ FailedGet /\ UNCHANGED knownTopics
    /\ wpc' = "scan"
    /\ UNCHANGED <<topics, metadata, todo, topic>>

\* client.Topics() answers from the cache; on an error the loop sleeps 10 s
\* and asks again.
Scan ==
    /\ wpc = "scan"
    /\ \/ /\ todo' = {t \in metadata : isKafkaManagedTopic(t) /\ t \notin knownTopics}
          /\ wpc' = "flow"
          /\ UNCHANGED apiVars
       \/ /\ FailedGet
          /\ UNCHANGED <<todo, wpc>>
    /\ UNCHANGED <<topics, metadata, knownTopics, topic>>

\* createArroyoFlow is entered for the next topic, in no particular order.
NextTopic ==
    /\ wpc = "flow"
    /\ \E t \in todo :
        /\ topic' = t
        /\ todo' = todo \ {t}
    /\ wpc' = "table"
    /\ UNCHANGED <<topics, metadata, knownTopics, apiVars>>

EndScan ==
    /\ wpc = "flow"
    /\ todo = {}
    /\ wpc' = "refresh"
    /\ UNCHANGED <<topics, metadata, knownTopics, todo, topic, apiVars>>

\* Faulty variant: an error does not end createArroyoFlow.
CreateTableGoingOn ==
    /\ wpc = "table"
    /\ \E reply \in Reply : Call(TableReq(topic), reply)
    /\ wpc' = "pipeline"
    /\ UNCHANGED <<topics, metadata, knownTopics, todo, topic>>

\* Faulty variant: "already exists" is an error like any other.
CreateTableAnew ==
    /\ wpc = "table"
    /\ \E reply \in Reply :
        /\ Call(TableReq(topic), reply)
        /\ \/ reply # "ok" /\ wpc' = "flow" /\ topic' = None
           \/ reply = "ok" /\ wpc' = "pipeline" /\ UNCHANGED topic
    /\ UNCHANGED <<topics, metadata, knownTopics, todo>>

\* Faulty variant: an error ends the scan.
CreateTableEndingScan ==
    /\ wpc = "table"
    /\ \E reply \in Reply :
        /\ Call(TableReq(topic), reply)
        /\ \/ reply = "error" /\ wpc' = "flow" /\ topic' = None /\ todo' = {}
           \/ reply # "error" /\ wpc' = "pipeline" /\ UNCHANGED <<topic, todo>>
    /\ UNCHANGED <<topics, metadata, knownTopics>>

\* Faulty variant: the topic becomes known with its table.
CreateTableKnowing ==
    /\ wpc = "table"
    /\ \E reply \in Reply :
        /\ Call(TableReq(topic), reply)
        /\ \/ reply = "error" /\ wpc' = "flow" /\ topic' = None /\ UNCHANGED knownTopics
           \/ /\ reply # "error"
              /\ wpc' = "pipeline"
              /\ knownTopics' = knownTopics \cup {topic}
              /\ UNCHANGED topic
    /\ UNCHANGED <<metadata, topics, todo>>

\* First call of createArroyoFlow; "already exists" counts as success, any
\* other error leaves the topic to the next scan.
CreateTable ==
    /\ wpc = "table"
    /\ \E reply \in Reply :
        /\ Call(TableReq(topic), reply)
        /\ \/ reply = "error" /\ wpc' = "flow" /\ topic' = None
           \/ reply # "error" /\ wpc' = "pipeline" /\ UNCHANGED topic
    /\ UNCHANGED <<topics, metadata, knownTopics, todo>>

\* Faulty variant: the topic becomes known whatever the reply.
CreatePipelineAlwaysKnown ==
    /\ wpc = "pipeline"
    /\ \E reply \in Reply : Call(CreateReq("watcher", FlowDef(topic)), reply)
    /\ knownTopics' = knownTopics \cup {topic}
    /\ wpc' = "flow"
    /\ topic' = None
    /\ UNCHANGED <<topics, metadata, todo>>

\* Faulty variant: the topic never becomes known.
CreatePipelineNeverKnown ==
    /\ wpc = "pipeline"
    /\ \E reply \in Reply : Call(CreateReq("watcher", FlowDef(topic)), reply)
    /\ wpc' = "flow"
    /\ topic' = None
    /\ UNCHANGED <<topics, metadata, knownTopics, todo>>

\* Second call; on success, or "already exists", the topic becomes known.
CreatePipeline ==
    /\ wpc = "pipeline"
    /\ \E reply \in Reply :
        /\ Call(CreateReq("watcher", FlowDef(topic)), reply)
        /\ knownTopics' =
               IF reply = "error" THEN knownTopics ELSE knownTopics \cup {topic}
    /\ wpc' = "flow"
    /\ topic' = None
    /\ UNCHANGED <<topics, metadata, todo>>

\* After 30 s: RefreshMetadata; a failure is logged and the old list scanned.
Refresh ==
    /\ wpc = "refresh"
    /\ \/ metadata' = topics /\ UNCHANGED apiVars
       \/ FailedGet /\ UNCHANGED metadata
    /\ wpc' = "scan"
    /\ UNCHANGED <<topics, knownTopics, todo, topic>>

WatcherStep ==
    \/ Dial \/ ListExisting \/ Scan \/ NextTopic \/ EndScan
    \/ CreateTable \/ CreatePipeline \/ Refresh
=============================================================================
