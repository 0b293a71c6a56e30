----------------------- MODULE PipelinesCopiesProofs ------------------------
(***************************************************************************)
(* A topic's flow is not multiplied: that a topic has one copy of it, and  *)
(* at most one more for each failure, proved for every value of the        *)
(* constants.  So is that without a failure it has exactly one; that the   *)
(* users' jobs are multiplied by nobody but users; and, at the end, that   *)
(* one topic's failures do not keep a scan from the others.                *)
(*                                                                         *)
(* A copy can be a live pipeline, a create that is late, or the definition *)
(* the supervisor holds; and a topic that the watcher does not know will   *)
(* get one more.  The proof counts all four.                               *)
(***************************************************************************)
EXTENDS PipelinesProofs

LiveOf(t) == {i \in Live : pipes[i].def.query = t}

LateOf(t) == {r \in late : r.op = "create" /\ r.def.query = t}

\* The copies with Arroyo, executed or late.
Stock(t) == Cardinality(LiveOf(t)) + Cardinality(LateOf(t))

InHandOf(t) == IF spc = "recreate" /\ held.query = t THEN 1 ELSE 0

UnknownOf(t) == IF t \in knownTopics THEN 0 ELSE 1

Weight(t) == Stock(t) + InHandOf(t) + UnknownOf(t)

\* The watcher works only on topics it does not know, on each once in a scan.
WatcherOnce ==
    /\ todo \cap knownTopics = {}
    /\ wpc \in {"table", "pipeline"} => topic \notin knownTopics \cup todo
    /\ wpc \in {"off", "dial", "list"} => knownTopics = {} /\ todo = {}

\* The inductive invariant under CopiesWithinFaults.
CopiesInv ==
    \A t \in Topics : IsFiniteSet(LateOf(t)) /\ Weight(t) <= 1 + faults

-----------------------------------------------------------------------------
\* A set that grows by at most one element, or shrinks.
LEMMA GrowsByOne ==
    ASSUME NEW S, IsFiniteSet(S), NEW T, NEW x, T \subseteq S \cup {x}
    PROVE  /\ IsFiniteSet(T)
           /\ Cardinality(S) \in Nat
           /\ Cardinality(T) \in Nat
           /\ Cardinality(T) <= Cardinality(S) + 1
<1>1. IsFiniteSet(S \cup {x}) /\ Cardinality(S \cup {x}) \in {Cardinality(S), Cardinality(S) + 1}
  BY FS_AddElement
<1>2. T \in SUBSET (S \cup {x})
  OBVIOUS
<1>3. IsFiniteSet(T) /\ Cardinality(T) <= Cardinality(S \cup {x})
  BY <1>1, <1>2, FS_Subset
<1>4. Cardinality(S) \in Nat /\ Cardinality(T) \in Nat
  BY <1>3, FS_CardinalityType
<1>. QED
  BY <1>1, <1>3, <1>4

\* A set that shrinks.
LEMMA Shrinks ==
    ASSUME NEW S, IsFiniteSet(S), NEW T, T \subseteq S
    PROVE  /\ IsFiniteSet(T)
           /\ Cardinality(S) \in Nat
           /\ Cardinality(T) \in Nat
           /\ Cardinality(T) <= Cardinality(S)
<1>1. IsFiniteSet(T) /\ Cardinality(T) <= Cardinality(S)
  BY FS_Subset, T \in SUBSET S
<1>. QED
  BY <1>1, FS_CardinalityType

\* A set that loses an element.
LEMMA LosesOne ==
    ASSUME NEW S, IsFiniteSet(S), NEW x \in S
    PROVE  /\ Cardinality(S \ {x}) \in Nat
           /\ Cardinality(S) \in Nat
           /\ Cardinality(S \ {x}) = Cardinality(S) - 1
<1>1. IsFiniteSet(S \ {x}) /\ Cardinality(S \ {x}) = Cardinality(S) - 1
  BY FS_RemoveElement
<1>. QED
  BY <1>1, FS_CardinalityType

\* There are finitely many pipelines.
LEMMA LiveFinite ==
    ASSUME ApiTypeOK, NEW t
    PROVE  IsFiniteSet(LiveOf(t)) /\ Cardinality(LiveOf(t)) \in Nat
<1>1. DOMAIN pipes = 1..Len(pipes) /\ Len(pipes) \in Nat
  BY DEF ApiTypeOK
<1>2. IsFiniteSet(1..Len(pipes))
  BY <1>1, FS_Interval
<1>3. LiveOf(t) \in SUBSET (1..Len(pipes))
  BY <1>1 DEF LiveOf, Live
<1>4. IsFiniteSet(LiveOf(t))
  BY <1>2, <1>3, FS_Subset
<1>. QED
  BY <1>4, FS_CardinalityType

-----------------------------------------------------------------------------
\* Does the request ask for a copy, of a topic's flow or of the users' job?
Asks(r, t) == r.op = "create" /\ r.def.query = t

\* A request that is executed adds the copy it asks for, and a delete takes one.
LEMMA ExecutesCopies ==
    ASSUME ApiTypeOK, NEW t, NEW r \in Request, Accepts(r), Executes(r)
    PROVE  /\ Asks(r, t) => \E n : LiveOf(t)' \subseteq LiveOf(t) \cup {n}
           /\ ~Asks(r, t) => LiveOf(t)' \subseteq LiveOf(t)
           /\ r.op = "delete" /\ pipes[r.id].def.query = t =>
                 r.id \in LiveOf(t) /\ LiveOf(t)' \subseteq LiveOf(t) \ {r.id}
<1>0. \A i \in DOMAIN pipes : pipes[i] \in Pipeline
  BY DEF ApiTypeOK
<1>1. CASE r.op = "create"
  <2> DEFINE n == Len(pipes) + 1
  <2>1. pipes' = Append(pipes, [def |-> r.def, job |-> "Scheduling"])
    BY <1>1 DEF Executes
  <2>2. DOMAIN pipes = 1..Len(pipes) /\ Len(pipes) \in Nat
    BY DEF ApiTypeOK
  <2>3. \A i \in DOMAIN pipes' :
            (i \in DOMAIN pipes /\ pipes'[i] = pipes[i]) \/ (i = n /\ pipes'[i].def = r.def)
    BY <2>1, <2>2 DEF ApiTypeOK
  <2>4. LiveOf(t)' \subseteq LiveOf(t) \cup {n}
    BY <2>3 DEF LiveOf, Live
  <2>5. ~Asks(r, t) => LiveOf(t)' \subseteq LiveOf(t)
    BY <1>1, <2>3 DEF LiveOf, Live, Asks
  <2>. QED
    BY <1>1, <2>4, <2>5
<1>2. CASE r.op = "delete"
  <2>1. pipes' = [pipes EXCEPT ![r.id].job = "Deleted"]
    BY <1>2 DEF Executes
  <2>2. DOMAIN pipes' = DOMAIN pipes
    BY <2>1
  <2>3. \A i \in DOMAIN pipes : pipes'[i].def = pipes[i].def
    BY <1>0, <2>1 DEF Pipeline
  <2>4. \A i \in DOMAIN pipes : pipes'[i].job = IF i = r.id THEN "Deleted" ELSE pipes[i].job
    BY <1>0, <2>1 DEF Pipeline
  <2>5. LiveOf(t)' \subseteq LiveOf(t) \ {r.id}
    BY <2>2, <2>3, <2>4 DEF LiveOf, Live
  <2>6. r.id \in Live
    BY <1>2 DEF Accepts
  <2>. QED
    BY <1>2, <2>5, <2>6 DEF LiveOf, Asks
<1>3. CASE r.op = "table"
  <2>1. pipes' = pipes
    BY <1>3 DEF Executes
  <2>. QED
    BY <1>3, <2>1 DEF LiveOf, Live, Asks
<1>. QED
  BY <1>1, <1>2, <1>3 DEF Request

\* The requests that wait: at most one more, and that only with a failure.
LEMMA LateGrows ==
    ASSUME NEW t, NEW r, late' \subseteq late \cup {r}
    PROVE  /\ LateOf(t)' \subseteq LateOf(t) \cup {r}
           /\ ~Asks(r, t) => LateOf(t)' \subseteq LateOf(t)
BY DEF LateOf, Asks

\* The stock after a step that adds at most one to one of its two parts.
LEMMA StockGrows ==
    ASSUME NEW t, IsFiniteSet(LiveOf(t)), IsFiniteSet(LateOf(t)), NEW x,
           \/ LiveOf(t)' \subseteq LiveOf(t) \cup {x} /\ LateOf(t)' \subseteq LateOf(t)
           \/ LiveOf(t)' \subseteq LiveOf(t) /\ LateOf(t)' \subseteq LateOf(t) \cup {x}
    PROVE  /\ IsFiniteSet(LateOf(t)')
           /\ Stock(t) \in Nat
           /\ Stock(t)' \in Nat
           /\ Stock(t)' <= Stock(t) + 1
<1>1. CASE LiveOf(t)' \subseteq LiveOf(t) \cup {x} /\ LateOf(t)' \subseteq LateOf(t)
  <2>1. /\ Cardinality(LiveOf(t)) \in Nat
        /\ Cardinality(LiveOf(t)') \in Nat
        /\ Cardinality(LiveOf(t)') <= Cardinality(LiveOf(t)) + 1
    BY <1>1, GrowsByOne
  <2>2. /\ IsFiniteSet(LateOf(t)')
        /\ Cardinality(LateOf(t)) \in Nat
        /\ Cardinality(LateOf(t)') \in Nat
        /\ Cardinality(LateOf(t)') <= Cardinality(LateOf(t))
    BY <1>1, Shrinks
  <2>. QED
    BY <2>1, <2>2 DEF Stock
<1>2. CASE LiveOf(t)' \subseteq LiveOf(t) /\ LateOf(t)' \subseteq LateOf(t) \cup {x}
  <2>1. /\ Cardinality(LiveOf(t)) \in Nat
        /\ Cardinality(LiveOf(t)') \in Nat
        /\ Cardinality(LiveOf(t)') <= Cardinality(LiveOf(t))
    BY <1>2, Shrinks
  <2>2. /\ IsFiniteSet(LateOf(t)')
        /\ Cardinality(LateOf(t)) \in Nat
        /\ Cardinality(LateOf(t)') \in Nat
        /\ Cardinality(LateOf(t)') <= Cardinality(LateOf(t)) + 1
    BY <1>2, GrowsByOne
  <2>. QED
    BY <2>1, <2>2 DEF Stock
<1>. QED
  BY <1>1, <1>2

\* The stock after a step that adds nothing.
LEMMA StockKept ==
    ASSUME NEW t, IsFiniteSet(LiveOf(t)), IsFiniteSet(LateOf(t)),
           LiveOf(t)' \subseteq LiveOf(t), LateOf(t)' \subseteq LateOf(t)
    PROVE  /\ IsFiniteSet(LateOf(t)')
           /\ Stock(t) \in Nat
           /\ Stock(t)' \in Nat
           /\ Stock(t)' <= Stock(t)
BY Shrinks DEF Stock

\* A call adds at most the copy it asks for; a delete that succeeds takes one.
LEMMA CallCopies ==
    ASSUME ApiTypeOK, NEW t, IsFiniteSet(LateOf(t)),
           NEW r \in Request, NEW reply, Call(r, reply)
    PROVE  /\ IsFiniteSet(LateOf(t)')
           /\ Stock(t) \in Nat
           /\ Stock(t)' \in Nat
           /\ Stock(t)' <= Stock(t) + (IF Asks(r, t) THEN 1 ELSE 0)
           /\ faults \in Nat
           /\ faults' = IF reply = "error" THEN faults + 1 ELSE faults
           /\ reply = "refused" => Stock(t)' <= Stock(t)
           /\ reply = "ok" /\ r.op = "delete" /\ pipes[r.id].def.query = t =>
                 Stock(t)' <= Stock(t) - 1
<1>0. IsFiniteSet(LiveOf(t)) /\ Cardinality(LiveOf(t)) \in Nat
  BY LiveFinite
<1>a. faults \in Nat /\ faults' = IF reply = "error" THEN faults + 1 ELSE faults
  BY ApiAssumption DEF Call, Fault, ApiTypeOK
<1>1. CASE Accepts(r) /\ Executes(r) /\ UNCHANGED late /\ reply \in {"ok", "error"}
  <2>1. LateOf(t)' = LateOf(t)
    BY <1>1 DEF LateOf
  <2>2. CASE Asks(r, t)
    <3>1. PICK n : LiveOf(t)' \subseteq LiveOf(t) \cup {n}
      BY <1>1, <2>2, ExecutesCopies
    <3>2. r.op # "delete" /\ reply # "refused"
      BY <1>1, <2>2 DEF Asks
    <3>. QED
      BY <1>0, <1>a, <2>1, <2>2, <3>1, <3>2, StockGrows
  <2>3. CASE ~Asks(r, t)
    <3>1. LiveOf(t)' \subseteq LiveOf(t)
      BY <1>1, <2>3, ExecutesCopies
    <3>2. /\ IsFiniteSet(LateOf(t)')
          /\ Stock(t) \in Nat
          /\ Stock(t)' \in Nat
          /\ Stock(t)' <= Stock(t)
      BY <1>0, <2>1, <3>1, StockKept
    <3>3. ASSUME r.op = "delete", pipes[r.id].def.query = t
          PROVE  Stock(t)' <= Stock(t) - 1
      <4>1. r.id \in LiveOf(t) /\ LiveOf(t)' \subseteq LiveOf(t) \ {r.id}
        BY <1>1, <3>3, ExecutesCopies
      <4>2. Cardinality(LiveOf(t) \ {r.id}) = Cardinality(LiveOf(t)) - 1
        BY <1>0, <4>1, LosesOne
      <4>3. IsFiniteSet(LiveOf(t) \ {r.id})
        BY <1>0, FS_RemoveElement
      <4>4. /\ Cardinality(LiveOf(t)') <= Cardinality(LiveOf(t)) - 1
            /\ Cardinality(LiveOf(t)') \in Nat
        BY <4>1, <4>2, <4>3, Shrinks
      <4>5. Cardinality(LateOf(t)') = Cardinality(LateOf(t)) /\ Cardinality(LateOf(t)) \in Nat
        BY <2>1, FS_CardinalityType
      <4>. QED
        BY <1>0, <4>4, <4>5 DEF Stock
    <3>. QED
      BY <1>1, <1>a, <2>3, <3>2, <3>3
  <2>. QED
    BY <2>2, <2>3
<1>2. CASE UNCHANGED <<pipes, tables, late>> /\ reply \in {"refused", "error"}
  <2>1. LiveOf(t)' = LiveOf(t) /\ LateOf(t)' = LateOf(t)
    BY <1>2 DEF LiveOf, Live, LateOf
  <2>2. /\ IsFiniteSet(LateOf(t)')
        /\ Stock(t) \in Nat
        /\ Stock(t)' \in Nat
        /\ Stock(t)' <= Stock(t)
    BY <1>0, <2>1, StockKept
  <2>. QED
    BY <1>2, <1>a, <2>2
<1>3. CASE reply = "error" /\ late' = late \cup {r} /\ UNCHANGED <<pipes, tables>>
  <2>1. LiveOf(t)' = LiveOf(t)
    BY <1>3 DEF LiveOf, Live
  <2>2. /\ LateOf(t)' \subseteq LateOf(t) \cup {r}
        /\ ~Asks(r, t) => LateOf(t)' \subseteq LateOf(t)
    BY <1>3, LateGrows
  <2>3. /\ IsFiniteSet(LateOf(t)')
        /\ Stock(t) \in Nat
        /\ Stock(t)' \in Nat
        /\ Stock(t)' <= Stock(t) + 1
    BY <1>0, <2>1, <2>2, StockGrows
  <2>4. ~Asks(r, t) => Stock(t)' <= Stock(t)
    BY <1>0, <2>1, <2>2, StockKept
  <2>. QED
    BY <1>3, <1>a, <2>3, <2>4
<1>. QED
  BY <1>1, <1>2, <1>3 DEF Call

\* Arroyo's pipelines and late requests unchanged, so is the stock.
LEMMA QuietCopies ==
    ASSUME ApiTypeOK, NEW t, IsFiniteSet(LateOf(t)), UNCHANGED <<pipes, late>>
    PROVE  IsFiniteSet(LateOf(t)') /\ Stock(t) \in Nat /\ Stock(t)' = Stock(t)
<1>1. LiveOf(t)' = LiveOf(t) /\ LateOf(t)' = LateOf(t)
  BY DEF LiveOf, Live, LateOf
<1>2. Cardinality(LiveOf(t)) \in Nat /\ Cardinality(LateOf(t)) \in Nat
  BY LiveFinite, FS_CardinalityType
<1>. QED
  BY <1>1, <1>2 DEF Stock

-----------------------------------------------------------------------------
\* What a step must do to keep the bound: add to a topic's weight no more than
\* failures.
Fits(t) ==
    /\ IsFiniteSet(LateOf(t)')
    /\ Stock(t)' \in Nat
    /\ Weight(t)' + faults <= Weight(t) + faults'

\* What most steps do: what is in hand or in stock of a query does not grow, whether
\* they fail or not; the query is a topic's, or the users' job's.
Steady(t) ==
    /\ IsFiniteSet(LateOf(t)')
    /\ Stock(t) \in Nat
    /\ Stock(t)' \in Nat
    /\ Stock(t)' + InHandOf(t)' <= Stock(t) + InHandOf(t)
    /\ faults' \in {faults, faults + 1}

\* A step is fit if it adds to the stock only what it takes from the supervisor's
\* hands or the watcher's unknown topics, but for failures.
LEMMA FitsIf ==
    ASSUME NEW t \in Topics, IsFiniteSet(LateOf(t)'), Stock(t) \in Nat, Stock(t)' \in Nat,
           faults \in Nat, faults' \in Nat,
           Stock(t)' + InHandOf(t)' + UnknownOf(t)' + faults
              <= Stock(t) + InHandOf(t) + UnknownOf(t) + faults'
    PROVE  Fits(t)
BY DEF Fits, Weight

\* A steady step is fit if the watcher forgets nothing in it.
LEMMA SteadyFits ==
    ASSUME NEW t \in Topics, Steady(t), faults \in Nat, UnknownOf(t)' = UnknownOf(t)
    PROVE  Fits(t)
<1>1. InHandOf(t) \in Nat /\ InHandOf(t)' \in Nat /\ UnknownOf(t) \in Nat
  BY DEF InHandOf, UnknownOf
<1>2. faults' \in Nat /\ faults <= faults'
  BY DEF Steady
<1>3. Stock(t)' + InHandOf(t)' <= Stock(t) + InHandOf(t)
  BY DEF Steady
<1>4. Stock(t) \in Nat /\ Stock(t)' \in Nat /\ IsFiniteSet(LateOf(t)')
  BY DEF Steady
<1>. QED
  BY <1>1, <1>2, <1>3, <1>4, FitsIf

\* Steps that neither call Arroyo nor take anything in hand or out of it.
LEMMA QuietSteady ==
    ASSUME ApiTypeOK, NEW t, IsFiniteSet(LateOf(t)),
           UNCHANGED <<pipes, late>>, faults' \in {faults, faults + 1},
           InHandOf(t)' <= InHandOf(t)
    PROVE  Steady(t)
<1>1. IsFiniteSet(LateOf(t)') /\ Stock(t) \in Nat /\ Stock(t)' = Stock(t)
  BY QuietCopies
<1>2. InHandOf(t) \in Nat /\ InHandOf(t)' \in Nat
  BY DEF InHandOf
<1>. QED
  BY <1>1, <1>2 DEF Steady

\* The watcher's step: the copy it creates is of a topic it did not know, and
\* afterwards does, unless the call failed.
LEMMA WatcherCopies ==
    ASSUME ApiTypeOK, WatcherTypeOK, WatcherOnce, NEW t \in Topics, IsFiniteSet(LateOf(t)),
           WatcherStep, UNCHANGED supervisorVars
    PROVE  Fits(t)
<1>0. /\ InHandOf(t)' = InHandOf(t)
      /\ InHandOf(t) \in Nat
      /\ UnknownOf(t) \in Nat
      /\ UnknownOf(t)' \in Nat
      /\ faults \in Nat
  BY ApiAssumption DEF InHandOf, UnknownOf, supervisorVars, ApiTypeOK
<1>1. CASE Dial \/ ListExisting \/ Scan \/ NextTopic \/ EndScan \/ Refresh
  <2>1. UNCHANGED <<pipes, late>> /\ faults' \in {faults, faults + 1}
    BY <1>1 DEF Dial, ListExisting, Scan, NextTopic, EndScan, Refresh, FailedGet, Fault, apiVars
  <2>2. knownTopics \subseteq knownTopics'
    BY <1>1 DEF Dial, ListExisting, Scan, NextTopic, EndScan, Refresh, WatcherOnce
  <2>3. UnknownOf(t)' <= UnknownOf(t)
    BY <2>2 DEF UnknownOf
  <2>4. IsFiniteSet(LateOf(t)') /\ Stock(t) \in Nat /\ Stock(t)' = Stock(t)
    BY <2>1, QuietCopies
  <2>. QED
    BY <1>0, <2>1, <2>3, <2>4, FitsIf
<1>2. CASE CreateTable
  <2>1. PICK reply \in Reply : Call(TableReq(topic), reply)
    BY <1>2 DEF CreateTable
  <2>2. TableReq(topic) \in Request /\ ~Asks(TableReq(topic), t)
    BY <1>2, FaultsCount DEF CreateTable, WatcherTypeOK, TableReq, Request, Asks
  <2>3. UnknownOf(t)' = UnknownOf(t)
    BY <1>2 DEF CreateTable, UnknownOf
  <2>4. /\ IsFiniteSet(LateOf(t)')
        /\ Stock(t) \in Nat
        /\ Stock(t)' \in Nat
        /\ Stock(t)' <= Stock(t)
        /\ faults' \in {faults, faults + 1}
    BY <1>0, <2>1, <2>2, CallCopies
  <2>. QED
    BY <1>0, <2>3, <2>4, FitsIf
<1>3. CASE CreatePipeline
  <2> DEFINE r == CreateReq("watcher", FlowDef(topic))
  <2>1. PICK reply \in Reply :
            /\ Call(r, reply)
            /\ knownTopics' = IF reply = "error" THEN knownTopics ELSE knownTopics \cup {topic}
    BY <1>3 DEF CreatePipeline
  <2>2. topic \in Topics /\ topic \notin knownTopics
    BY <1>3 DEF CreatePipeline, WatcherTypeOK, WatcherOnce
  <2>3. r \in Request /\ (Asks(r, t) <=> t = topic)
    BY <2>2, FlowDefType DEF CreateReq, FlowDef, Asks
  <2>. HIDE DEF r
  <2>4. /\ IsFiniteSet(LateOf(t)')
        /\ Stock(t) \in Nat
        /\ Stock(t)' \in Nat
        /\ Stock(t)' <= Stock(t) + (IF t = topic THEN 1 ELSE 0)
        /\ faults' = IF reply = "error" THEN faults + 1 ELSE faults
    BY <2>1, <2>3, CallCopies
  <2>5. UnknownOf(t)' <= UnknownOf(t)
    BY <2>1 DEF UnknownOf
  <2>6. t = topic /\ reply # "error" => UnknownOf(t)' + 1 <= UnknownOf(t)
    BY <2>1, <2>2 DEF UnknownOf
  <2>7. faults' \in Nat
    BY <1>0, <2>4
  <2>8. Stock(t)' + UnknownOf(t)' + faults <= Stock(t) + UnknownOf(t) + faults'
    BY <1>0, <2>4, <2>5, <2>6
  <2>. QED
    BY <1>0, <2>4, <2>7, <2>8, FitsIf
<1>. QED
  BY <1>1, <1>2, <1>3 DEF WatcherStep

\* The users' job is no topic's: the watcher creates none.
LEMMA WatcherSteady ==
    ASSUME ApiTypeOK, WatcherTypeOK, NEW t, t \notin Topics, IsFiniteSet(LateOf(t)),
           WatcherStep, UNCHANGED supervisorVars
    PROVE  Steady(t)
<1>0. InHandOf(t)' = InHandOf(t) /\ InHandOf(t) \in Nat /\ faults \in Nat
  BY ApiAssumption DEF InHandOf, supervisorVars, ApiTypeOK
<1>1. ASSUME NEW r \in Request, ~Asks(r, t), NEW reply \in Reply, Call(r, reply)
      PROVE  Steady(t)
  <2>1. /\ IsFiniteSet(LateOf(t)')
        /\ Stock(t) \in Nat
        /\ Stock(t)' \in Nat
        /\ Stock(t)' <= Stock(t)
        /\ faults' \in {faults, faults + 1}
    BY <1>0, <1>1, CallCopies
  <2>. QED
    BY <1>0, <2>1 DEF Steady
<1>2. CASE Dial \/ ListExisting \/ Scan \/ NextTopic \/ EndScan \/ Refresh
  <2>1. UNCHANGED <<pipes, late>> /\ faults' \in {faults, faults + 1}
    BY <1>2 DEF Dial, ListExisting, Scan, NextTopic, EndScan, Refresh, FailedGet, Fault, apiVars
  <2>. QED
    BY <1>0, <2>1, QuietSteady
<1>3. CASE CreateTable
  <2>1. TableReq(topic) \in Request /\ ~Asks(TableReq(topic), t)
    BY <1>3, FaultsCount DEF CreateTable, WatcherTypeOK, TableReq, Request, Asks
  <2>. QED
    BY <1>1, <1>3, <2>1 DEF CreateTable
<1>4. CASE CreatePipeline
  <2>1. topic \in Topics
    BY <1>4 DEF CreatePipeline, WatcherTypeOK
  <2>2. CreateReq("watcher", FlowDef(topic)) \in Request /\ ~Asks(CreateReq("watcher", FlowDef(topic)), t)
    BY <2>1, FlowDefType DEF CreateReq, FlowDef, Asks
  <2>. QED
    BY <1>1, <1>4, <2>2 DEF CreatePipeline
<1>. QED
  BY <1>2, <1>3, <1>4 DEF WatcherStep

\* The supervisor's step: the copy it takes in hand is one that it deleted, and the
\* one it creates is the one it had in hand.
LEMMA SupervisorCopies ==
    ASSUME ApiTypeOK, SupervisorTypeOK, Traceable, NEW t, IsFiniteSet(LateOf(t)),
           SupervisorStep
    PROVE  Steady(t)
<1>0. InHandOf(t) \in Nat /\ InHandOf(t)' \in Nat /\ faults \in Nat
  BY ApiAssumption DEF InHandOf, ApiTypeOK
<1>1. CASE Tick \/ CheckJobs \/ EndRound \/ FetchPipeline
  <2>1. UNCHANGED <<pipes, late>> /\ faults' \in {faults, faults + 1}
    BY <1>1 DEF Tick, CheckJobs, EndRound, FetchPipeline, FailedGet, Fault, apiVars
  <2>2. spc' # "recreate"
    BY <1>1 DEF Tick, CheckJobs, EndRound, FetchPipeline, GiveUp
  <2>3. InHandOf(t)' = 0
    BY <2>2 DEF InHandOf
  <2>. QED
    BY <1>0, <2>1, <2>3, QuietSteady
<1>2. CASE DeletePipeline
  <2> DEFINE r == DeleteReq(cur)
  <2>1. PICK reply \in Reply :
            /\ Call(r, reply)
            /\ \/ reply = "ok" /\ spc' = "recreate" /\ UNCHANGED <<cur, held>>
               \/ reply # "ok" /\ GiveUp
    BY <1>2 DEF DeletePipeline
  <2>2. /\ spc = "delete"
        /\ cur \in DOMAIN pipes
        /\ FlowOf(held) = FlowOf(pipes[cur].def)
    BY <1>2 DEF DeletePipeline, SupervisorTypeOK, Traceable
  <2>3. r \in Request /\ r.op = "delete" /\ r.id = cur
    BY <2>2 DEF ApiTypeOK, DeleteReq, Request
  <2>4. held.query = pipes[cur].def.query
    BY <2>2 DEF FlowOf
  <2>. HIDE DEF r
  <2>5. /\ IsFiniteSet(LateOf(t)')
        /\ Stock(t) \in Nat
        /\ Stock(t)' \in Nat
        /\ Stock(t)' <= Stock(t)
        /\ faults' \in {faults, faults + 1}
        /\ reply = "ok" /\ held.query = t => Stock(t)' <= Stock(t) - 1
    BY <1>0, <2>1, <2>3, <2>4, CallCopies DEF Asks
  <2>6. InHandOf(t)' = IF reply = "ok" /\ held.query = t THEN 1 ELSE 0
    BY <2>1 DEF InHandOf, GiveUp
  <2>7. Stock(t)' + InHandOf(t)' <= Stock(t)
    BY <2>5, <2>6
  <2>. QED
    BY <1>0, <2>5, <2>7 DEF Steady
<1>3. CASE RecreatePipeline
  <2> DEFINE r == CreateReq("supervisor", held)
  <2>1. PICK reply \in Reply : Call(r, reply)
    BY <1>3 DEF RecreatePipeline
  <2>2. spc = "recreate" /\ spc' = "check"
    BY <1>3 DEF RecreatePipeline, GiveUp
  <2>3. r \in Request /\ (Asks(r, t) <=> held.query = t)
    BY <2>2, FaultsCount DEF SupervisorTypeOK, CreateReq, Request, Sender, Asks
  <2>. HIDE DEF r
  <2>4. /\ IsFiniteSet(LateOf(t)')
        /\ Stock(t) \in Nat
        /\ Stock(t)' \in Nat
        /\ Stock(t)' <= Stock(t) + (IF held.query = t THEN 1 ELSE 0)
        /\ faults' \in {faults, faults + 1}
    BY <1>0, <2>1, <2>3, CallCopies
  <2>5. InHandOf(t) = (IF held.query = t THEN 1 ELSE 0) /\ InHandOf(t)' = 0
    BY <2>2 DEF InHandOf
  <2>. QED
    BY <1>0, <2>4, <2>5 DEF Steady
<1>. QED
  BY <1>1, <1>2, <1>3 DEF SupervisorStep

\* A late request that is executed was counted already.
LEMMA LateCopies ==
    ASSUME ApiTypeOK, NEW t, IsFiniteSet(LateOf(t)), LateRequest,
           UNCHANGED supervisorVars
    PROVE  Steady(t)
<1>0. InHandOf(t)' = InHandOf(t) /\ InHandOf(t) \in Nat
  BY DEF InHandOf, supervisorVars
<1>1. PICK r \in late :
        /\ late' = late \ {r}
        /\ IF Accepts(r) THEN Executes(r) ELSE UNCHANGED <<pipes, tables>>
        /\ faults' = faults
  BY DEF LateRequest
<1>2. r \in Request
  BY DEF ApiTypeOK
<1>3. LateOf(t)' \subseteq LateOf(t)
  BY <1>1 DEF LateOf
<1>4. IsFiniteSet(LiveOf(t)) /\ Cardinality(LiveOf(t)) \in Nat
  BY LiveFinite
<1>5. CASE Accepts(r) /\ Asks(r, t)
  <2>1. PICK n : LiveOf(t)' \subseteq LiveOf(t) \cup {n}
    BY <1>1, <1>2, <1>5, ExecutesCopies
  <2>2. /\ Cardinality(LiveOf(t)') \in Nat
        /\ Cardinality(LiveOf(t)') <= Cardinality(LiveOf(t)) + 1
    BY <1>4, <2>1, GrowsByOne
  <2>3. r \in LateOf(t) /\ LateOf(t)' = LateOf(t) \ {r}
    BY <1>1, <1>5 DEF LateOf, Asks
  <2>4. /\ Cardinality(LateOf(t)') \in Nat
        /\ Cardinality(LateOf(t)) \in Nat
        /\ Cardinality(LateOf(t)') = Cardinality(LateOf(t)) - 1
    BY <2>3, LosesOne
  <2>5. IsFiniteSet(LateOf(t)')
    BY <2>3, FS_RemoveElement
  <2>6. Stock(t) \in Nat /\ Stock(t)' \in Nat /\ Stock(t)' <= Stock(t)
    BY <1>4, <2>2, <2>4 DEF Stock
  <2>. QED
    BY <1>0, <1>1, <2>5, <2>6 DEF Steady
<1>6. CASE ~(Accepts(r) /\ Asks(r, t))
  <2>1. LiveOf(t)' \subseteq LiveOf(t)
    <3>1. CASE Accepts(r)
      BY <1>1, <1>2, <1>6, <3>1, ExecutesCopies
    <3>2. CASE ~Accepts(r)
      BY <1>1, <3>2 DEF LiveOf, Live
    <3>. QED
      BY <3>1, <3>2
  <2>2. /\ IsFiniteSet(LateOf(t)')
        /\ Stock(t) \in Nat
        /\ Stock(t)' \in Nat
        /\ Stock(t)' <= Stock(t)
    BY <1>3, <1>4, <2>1, StockKept
  <2>. QED
    BY <1>0, <1>1, <2>2 DEF Steady
<1>. QED
  BY <1>5, <1>6

\* The copy the watcher is about to create.
AboutToCreate(t) == IF wpc = "pipeline" /\ topic = t THEN 1 ELSE 0

\* An exit may leave both goroutines' calls behind.
LEMMA ExitStock ==
    ASSUME ApiTypeOK, NEW t, IsFiniteSet(LateOf(t)), Exit
    PROVE  /\ IsFiniteSet(LateOf(t)')
           /\ Stock(t) \in Nat
           /\ Stock(t)' \in Nat
           /\ Stock(t)' <= Stock(t) + InHandOf(t) + AboutToCreate(t)
           /\ InHandOf(t)' = 0
           /\ faults \in Nat
           /\ faults' = faults + 1
<1>0. faults \in Nat /\ faults' = faults + 1
  BY ApiAssumption DEF ApiTypeOK, Exit, Fault
<1>1. PICK sent \in SUBSET (WatcherCall \cup SupervisorCall) : late' = late \cup sent
  BY DEF Exit
<1>2. InHandOf(t)' = 0
  BY DEF Exit, SupervisorOff, InHandOf
<1>3. LiveOf(t)' = LiveOf(t) /\ Cardinality(LiveOf(t)) \in Nat
  BY LiveFinite DEF Exit, LiveOf, Live
<1> DEFINE w == CreateReq("watcher", FlowDef(topic))
           s == CreateReq("supervisor", held)
           W == IF wpc = "pipeline" /\ topic = t THEN LateOf(t) \cup {w} ELSE LateOf(t)
           S == IF InHandOf(t) = 1 THEN W \cup {s} ELSE W
<1>4. LateOf(t)' \subseteq S
  <2>1. SUFFICES ASSUME NEW r \in LateOf(t)' PROVE r \in S
    OBVIOUS
  <2>2. r \in late \cup WatcherCall \cup SupervisorCall /\ r.op = "create" /\ r.def.query = t
    BY <1>1, <2>1 DEF LateOf
  <2>3. CASE r \in late
    BY <2>2, <2>3 DEF LateOf
  <2>4. CASE r \in WatcherCall
    BY <2>2, <2>4 DEF WatcherCall, TableReq, CreateReq, FlowDef
  <2>5. CASE r \in SupervisorCall
    BY <2>2, <2>5 DEF SupervisorCall, DeleteReq, CreateReq, InHandOf
  <2>. QED
    BY <2>2, <2>3, <2>4, <2>5
<1>5. /\ IsFiniteSet(W)
      /\ Cardinality(LateOf(t)) \in Nat
      /\ Cardinality(W) \in Nat
      /\ Cardinality(W) <= Cardinality(LateOf(t)) + AboutToCreate(t)
  <2>1. CASE wpc = "pipeline" /\ topic = t
    <3>1. AboutToCreate(t) = 1
      BY <2>1 DEF AboutToCreate
    <3>2. W = LateOf(t) \cup {w}
      BY <2>1
    <3>. HIDE DEF w, W
    <3>. QED
      BY <3>1, <3>2, GrowsByOne
  <2>2. CASE ~(wpc = "pipeline" /\ topic = t)
    <3>1. W = LateOf(t) /\ AboutToCreate(t) = 0
      BY <2>2 DEF AboutToCreate
    <3>. HIDE DEF w, W
    <3>. QED
      BY <3>1, FS_CardinalityType
  <2>. QED
    BY <2>1, <2>2
<1>6. /\ IsFiniteSet(S)
      /\ Cardinality(S) \in Nat
      /\ Cardinality(S) <= Cardinality(W) + InHandOf(t)
  <2>1. CASE InHandOf(t) = 1
    <3>1. S = W \cup {s}
      BY <2>1
    <3>. HIDE DEF s, S, W
    <3>. QED
      BY <1>5, <2>1, <3>1, GrowsByOne
  <2>2. CASE InHandOf(t) # 1
    <3>1. S = W /\ InHandOf(t) = 0
      BY <2>2 DEF InHandOf
    <3>. HIDE DEF S, W
    <3>. QED
      BY <1>5, <3>1
  <2>. QED
    BY <2>1, <2>2
<1>. HIDE DEF S, W
<1>7. /\ IsFiniteSet(LateOf(t)')
      /\ Cardinality(LateOf(t)') \in Nat
      /\ Cardinality(LateOf(t)') <= Cardinality(S)
  BY <1>4, <1>6, Shrinks
<1>8. InHandOf(t) \in Nat /\ AboutToCreate(t) \in Nat
  BY DEF InHandOf, AboutToCreate
<1>9. Stock(t) \in Nat /\ Stock(t)' \in Nat /\ Stock(t)' <= Stock(t) + AboutToCreate(t) + InHandOf(t)
  BY <1>3, <1>5, <1>6, <1>7, <1>8 DEF Stock
<1>. QED
  BY <1>0, <1>2, <1>7, <1>8, <1>9

\* An exit forgets what is known and in hand: with the calls left behind, one copy
\* more at most.
LEMMA ExitCopies ==
    ASSUME ApiTypeOK, WatcherOnce, NEW t \in Topics, IsFiniteSet(LateOf(t)), Exit
    PROVE  Fits(t)
<1>1. UnknownOf(t)' = 1
  BY DEF Exit, WatcherOff, UnknownOf
<1>2. AboutToCreate(t) <= UnknownOf(t) /\ AboutToCreate(t) \in Nat
  BY DEF AboutToCreate, UnknownOf, WatcherOnce
<1>3. InHandOf(t) \in Nat /\ UnknownOf(t) \in Nat
  BY DEF InHandOf, UnknownOf
<1>. QED
  BY <1>1, <1>2, <1>3, ExitStock, FitsIf

\* Of the users' job an exit leaves at most what the supervisor had in hand.
LEMMA ExitSteady ==
    ASSUME ApiTypeOK, WatcherTypeOK, NEW t, t \notin Topics, IsFiniteSet(LateOf(t)), Exit
    PROVE  Steady(t)
<1>1. AboutToCreate(t) = 0
  BY DEF AboutToCreate, WatcherTypeOK
<1>2. InHandOf(t) \in Nat
  BY DEF InHandOf
<1>. QED
  BY <1>1, <1>2, ExitStock DEF Steady

\* The other steps, but for requests of users: a start, a change of a job, a new
\* topic.
LEMMA OtherSteady ==
    ASSUME TypeOK, NEW t, IsFiniteSet(LateOf(t)),
           \/ Boot
           \/ \E i \in DOMAIN pipes : JobStarts(i) \/ JobFails(i) \/ JobStops(i) \/ JobResumes(i)
           \/ \E u \in Topics : TopicAppears(u) /\ UNCHANGED <<supervisorVars, incidents>>
    PROVE  Steady(t) /\ UNCHANGED knownTopics
<1>0. ApiTypeOK /\ faults \in Nat /\ InHandOf(t) \in Nat
  BY ApiAssumption DEF TypeOK, ApiTypeOK, InHandOf
<1>1. CASE Boot
  <2>1. UNCHANGED <<pipes, late>> /\ faults' \in {faults, faults + 1}
    BY <1>1 DEF Boot, FailedGet, Fault, apiVars
  <2>2. UNCHANGED <<held, knownTopics>> /\ (spc' = "idle" \/ spc' = spc) /\ spc = "off"
    BY <1>1 DEF Boot, TypeOK
  <2>. QED
    BY <1>0, <2>1, <2>2, QuietSteady DEF InHandOf
<1>2. ASSUME NEW i \in DOMAIN pipes, JobStarts(i) \/ JobFails(i) \/ JobStops(i) \/ JobResumes(i)
      PROVE  Steady(t) /\ UNCHANGED knownTopics
  <2>1. PICK state \in JobState : JobBecomes(i, state)
    BY <1>2 DEF JobStarts, JobFails, JobStops, JobResumes, JobState
  <2>2. i \in Live /\ UNCHANGED <<watcherVars, supervisorVars>>
    BY <1>2 DEF JobStarts, JobFails, JobStops, JobResumes, Live
  <2>3. \A j \in DOMAIN pipes : pipes[j] \in Pipeline
    BY <1>0 DEF ApiTypeOK
  <2>4. /\ DOMAIN pipes' = DOMAIN pipes
        /\ \A j \in DOMAIN pipes :
              pipes'[j].def = pipes[j].def /\ pipes'[j].job = IF j = i THEN state ELSE pipes[j].job
    BY <2>1, <2>3 DEF JobBecomes, Pipeline
  <2>5. LiveOf(t)' \subseteq LiveOf(t) /\ LateOf(t)' \subseteq LateOf(t) /\ faults' = faults
    BY <2>1, <2>2, <2>4 DEF LiveOf, Live, LateOf, JobBecomes
  <2>6. /\ IsFiniteSet(LateOf(t)')
        /\ Stock(t) \in Nat
        /\ Stock(t)' \in Nat
        /\ Stock(t)' <= Stock(t)
    BY <1>0, <2>5, LiveFinite, StockKept
  <2>7. InHandOf(t)' = InHandOf(t) /\ UNCHANGED knownTopics
    BY <2>2 DEF InHandOf, watcherVars, supervisorVars
  <2>. QED
    BY <1>0, <2>5, <2>6, <2>7 DEF Steady
<1>3. ASSUME NEW u \in Topics, TopicAppears(u), UNCHANGED <<supervisorVars, incidents>>
      PROVE  Steady(t) /\ UNCHANGED knownTopics
  BY <1>0, <1>3, QuietSteady DEF TopicAppears, apiVars, supervisorVars, InHandOf
<1>. QED
  BY <1>1, <1>2, <1>3

-----------------------------------------------------------------------------
\* Initially the watcher knows nothing and works on nothing.
LEMMA InitOnce == Init => WatcherOnce
BY DEF Init, WatcherInit, WatcherOnce

\* In every step the watcher goes on looking only at what it does not know.
LEMMA StepOnce ==
    ASSUME TypeOK, WatcherOnce, Next
    PROVE  WatcherOnce'
<1>0. WatcherTypeOK
  BY DEF TypeOK
<1>a. UNCHANGED <<wpc, knownTopics, todo, topic>> => WatcherOnce'
  BY DEF WatcherOnce
<1>1. CASE Boot
  BY <1>1, <1>a DEF Boot, WatcherOnce
<1>2. CASE Exit
  BY <1>2 DEF Exit, WatcherOff, WatcherOnce
<1>3. CASE WatcherStep
  <2>1. CASE Dial
    BY <2>1 DEF Dial, WatcherOnce
  <2>2. CASE ListExisting
    BY <2>2 DEF ListExisting, WatcherOnce
  <2>3. CASE Scan
    BY <2>3 DEF Scan, WatcherOnce
  <2>4. CASE NextTopic
    BY <2>4 DEF NextTopic, WatcherOnce
  <2>5. CASE EndScan
    BY <2>5 DEF EndScan, WatcherOnce
  <2>6. CASE CreateTable
    BY <2>6 DEF CreateTable, WatcherOnce
  <2>7. CASE CreatePipeline
    BY <2>7 DEF CreatePipeline, WatcherOnce
  <2>8. CASE Refresh
    BY <2>8 DEF Refresh, WatcherOnce
  <2>. QED
    BY <1>3, <2>1, <2>2, <2>3, <2>4, <2>5, <2>6, <2>7, <2>8 DEF WatcherStep
<1>4. CASE UNCHANGED watcherVars
  BY <1>4, <1>a DEF watcherVars
<1>5. ASSUME NEW i \in DOMAIN pipes, JobStarts(i) \/ JobFails(i) \/ JobStops(i) \/ JobResumes(i)
      PROVE  UNCHANGED watcherVars
  BY <1>5 DEF JobStarts, JobFails, JobStops, JobResumes
<1>6. ASSUME NEW n \in RunNames, RunJob(n)
      PROVE  UNCHANGED watcherVars
  BY <1>6 DEF RunJob
<1>7. ASSUME NEW t \in Topics, TopicAppears(t)
      PROVE  WatcherOnce'
  BY <1>7, <1>a DEF TopicAppears
<1>. QED
  BY <1>1, <1>2, <1>3, <1>4, <1>5, <1>6, <1>7 DEF Next, Watch, Supervise, Arroyo

\* Every step is fit.
LEMMA StepFits ==
    ASSUME TypeOK, Traceable, WatcherOnce, Next, NEW t \in Topics, IsFiniteSet(LateOf(t))
    PROVE  Fits(t)
<1>0. ApiTypeOK /\ WatcherTypeOK /\ SupervisorTypeOK /\ faults \in Nat
  BY ApiAssumption DEF TypeOK, ApiTypeOK
<1>a. ASSUME Steady(t), UNCHANGED knownTopics PROVE Fits(t)
  BY <1>0, <1>a, SteadyFits DEF UnknownOf
<1>1. CASE Boot
  BY <1>1, <1>a, OtherSteady
<1>2. CASE Exit
  BY <1>0, <1>2, ExitCopies
<1>3. CASE Watch
  BY <1>0, <1>3, WatcherCopies DEF Watch
<1>4. CASE Supervise
  BY <1>0, <1>4, <1>a, SupervisorCopies DEF Supervise, watcherVars
<1>5. CASE LateRequest /\ UNCHANGED <<watcherVars, supervisorVars, incidents>>
  BY <1>0, <1>5, <1>a, LateCopies DEF watcherVars
<1>6. ASSUME NEW i \in DOMAIN pipes, JobStarts(i) \/ JobFails(i) \/ JobStops(i) \/ JobResumes(i)
      PROVE  Fits(t)
  BY <1>6, <1>a, OtherSteady
<1>7. ASSUME NEW n \in RunNames, RunJob(n)
      PROVE  Fits(t)
  <2> DEFINE r == CreateReq("user", [name |-> n, query |-> Demo, parallelism |-> 3])
  <2>1. r \in Request /\ ~Asks(r, t)
    BY <1>0, RunDefType, ApiAssumption DEF CreateReq, Asks
  <2>2. PICK reply \in Reply : Call(r, reply)
    BY <1>7 DEF RunJob
  <2>3. InHandOf(t)' = InHandOf(t) /\ InHandOf(t) \in Nat /\ UNCHANGED knownTopics
    BY <1>7 DEF RunJob, InHandOf, watcherVars, supervisorVars
  <2>. HIDE DEF r
  <2>4. /\ IsFiniteSet(LateOf(t)')
        /\ Stock(t) \in Nat
        /\ Stock(t)' \in Nat
        /\ Stock(t)' <= Stock(t)
        /\ faults' \in {faults, faults + 1}
    BY <1>0, <2>1, <2>2, CallCopies
  <2>5. Steady(t)
    BY <2>3, <2>4 DEF Steady
  <2>. QED
    BY <1>a, <2>3, <2>5
<1>8. ASSUME NEW u \in Topics, TopicAppears(u), UNCHANGED <<supervisorVars, incidents>>
      PROVE  Fits(t)
  BY <1>8, <1>a, OtherSteady
<1>. QED
  BY <1>1, <1>2, <1>3, <1>4, <1>5, <1>6, <1>7, <1>8 DEF Next, Arroyo

\* Initially no topic has a copy, and none is known.
LEMMA InitCopies == Init => CopiesInv
<1>. SUFFICES ASSUME Init, NEW t \in Topics
              PROVE  IsFiniteSet(LateOf(t)) /\ Weight(t) <= 1 + faults
  BY DEF CopiesInv
<1>1. LiveOf(t) = {} /\ LateOf(t) = {}
  BY DEF Init, ApiInit, LiveOf, Live, LateOf
<1>2. InHandOf(t) = 0 /\ UnknownOf(t) = 1 /\ faults = 0
  BY DEF Init, ApiInit, SupervisorInit, WatcherInit, InHandOf, UnknownOf
<1>. QED
  BY <1>1, <1>2, FS_EmptySet DEF Weight, Stock

\* A fit step keeps the bound.
LEMMA StepCopies ==
    ASSUME TypeOK, Traceable, WatcherOnce, CopiesInv, Next
    PROVE  CopiesInv'
<1>. SUFFICES ASSUME NEW t \in Topics
              PROVE  IsFiniteSet(LateOf(t)') /\ Weight(t)' <= 1 + faults'
  BY DEF CopiesInv
<1>1. IsFiniteSet(LateOf(t)) /\ Weight(t) <= 1 + faults
  BY DEF CopiesInv
<1>2. Fits(t)
  BY <1>1, StepFits
<1>3. faults \in Nat /\ faults' \in Nat
  BY StepType, ApiAssumption DEF TypeOK, ApiTypeOK
<1>4. Weight(t) \in Nat /\ Weight(t)' \in Nat
  <2>1. Stock(t) \in Nat
    BY <1>1, LiveFinite, FS_CardinalityType DEF TypeOK, Stock
  <2>. QED
    BY <1>2, <2>1 DEF Fits, Weight, InHandOf, UnknownOf
<1>. QED
  BY <1>1, <1>2, <1>3, <1>4 DEF Fits

\* A topic has one flow, and at most one more for each failed call or process exit,
\* however the watcher's retries, restarts and late requests interleave (watcher.go,
\* Run; arroyo.go, RestartPipeline).
THEOREM CopiesAreBounded == Spec => []CopiesWithinFaults
<1>1. WatcherOnce /\ UNCHANGED vars => WatcherOnce'
  BY DEF WatcherOnce, vars, watcherVars
<1>2. CopiesInv /\ UNCHANGED vars => CopiesInv'
  BY DEF CopiesInv, Weight, Stock, LiveOf, Live, LateOf, InHandOf, UnknownOf, vars, apiVars,
         watcherVars, supervisorVars
<1>3. FlowsInv /\ WatcherOnce /\ CopiesInv /\ [Next]_vars => (WatcherOnce /\ CopiesInv)'
  BY <1>1, <1>2, StepOnce, StepCopies DEF FlowsInv
<1>4. FlowsInv /\ CopiesInv => CopiesWithinFaults
  <2>. SUFFICES ASSUME FlowsInv, CopiesInv, NEW t \in Topics
                PROVE  Copies(t) <= 1 + faults
    BY DEF CopiesWithinFaults
  <2>1. IsFiniteSet(LateOf(t)) /\ Weight(t) <= 1 + faults
    BY DEF CopiesInv
  <2>2. Cardinality(LiveOf(t)) \in Nat /\ Cardinality(LateOf(t)) \in Nat /\ faults \in Nat
    BY <2>1, LiveFinite, FS_CardinalityType, ApiAssumption DEF FlowsInv, TypeOK, ApiTypeOK
  <2>3. Copies(t) = Cardinality(LiveOf(t)) + InHandOf(t)
    BY DEF Copies, LiveOf, InHandOf
  <2>4. InHandOf(t) \in Nat /\ UnknownOf(t) \in Nat
    BY DEF InHandOf, UnknownOf
  <2>. QED
    BY <2>1, <2>2, <2>3, <2>4 DEF Weight, Stock
<1>. QED
  BY <1>3, <1>4, InitOnce, InitCopies, FlowsInvariant, PTL DEF Spec

\* Without a failure a topic the watcher has done with has its one flow: the lost and
\* the superfluous are bounded by the failures (watcher.go, Run; arroyo.go,
\* RestartPipeline).
THEOREM TopicsHaveTheirFlow == Spec => []TopicHasItsFlow
<1>1. ASSUME TypeOK, KnownTopicHadFlow, FlowsInv, LossInv, CopiesWithinFaults
      PROVE  TopicHasItsFlow
  <2>. SUFFICES ASSUME faults = 0, NamesSeparate, NEW t \in (knownTopics \cap Topics) \ RunNames
                PROVE  Copies(t) = 1
    BY DEF TopicHasItsFlow
  <2>1. PICK i \in DOMAIN pipes : pipes[i].def.query = t
    BY <1>1 DEF KnownTopicHadFlow, HadFlow
  <2>2. Created \ Kept = {}
    <3>1. IsFiniteSet(Owed) /\ Cardinality(Owed) <= 0
      BY <1>1 DEF LossInv, NamesSeparate
    <3>2. Owed = {}
      BY <3>1, FS_CardinalityType, FS_EmptySet
    <3>. QED
      BY <3>2 DEF Owed
  <2>3. FlowOf(pipes[i].def) \in Kept
    BY <2>2 DEF Created
  <2>4. LiveOf(t) # {} \/ InHandOf(t) = 1
    BY <2>1, <2>3 DEF Kept, FlowOf, LiveOf, InHandOf
  <2>5. IsFiniteSet(LiveOf(t)) /\ Cardinality(LiveOf(t)) \in Nat
    BY <1>1, LiveFinite DEF TypeOK
  <2>6. LiveOf(t) # {} => Cardinality(LiveOf(t)) # 0
    BY <2>5, FS_EmptySet
  <2>7. Copies(t) = Cardinality(LiveOf(t)) + InHandOf(t) /\ InHandOf(t) \in Nat
    BY DEF Copies, LiveOf, InHandOf
  <2>8. Copies(t) <= 1
    BY <1>1 DEF CopiesWithinFaults
  <2>. QED
    BY <2>4, <2>5, <2>6, <2>7, <2>8
<1>. QED
  BY <1>1, TypeCorrect, KnownTopicsWereServed, LossInvariant, CopiesAreBounded, PTL

-----------------------------------------------------------------------------
(* The users' jobs. *)

\* Every step but a user's request leaves the job's copies, late and in hand
\* included, as they are or fewer.
LEMMA StepJobs ==
    ASSUME TypeOK, Traceable, Next, IsFiniteSet(LateOf(Demo))
    PROVE  /\ IsFiniteSet(LateOf(Demo)')
           /\ Steady(Demo) \/ \E n \in RunNames : RunJob(n)
<1>0. ApiTypeOK /\ WatcherTypeOK /\ SupervisorTypeOK /\ Demo \notin Topics
  BY ApiAssumption DEF TypeOK
<1>1. CASE Exit
  BY <1>0, <1>1, ExitSteady DEF Steady
<1>2. CASE Watch
  BY <1>0, <1>2, WatcherSteady DEF Watch, Steady
<1>3. CASE Supervise
  BY <1>0, <1>3, SupervisorCopies DEF Supervise, Steady
<1>4. CASE Arroyo
  BY <1>0, <1>4, LateCopies, OtherSteady DEF Arroyo, Steady
<1>5. ASSUME NEW n \in RunNames, RunJob(n)
      PROVE  IsFiniteSet(LateOf(Demo)')
  <2> DEFINE r == CreateReq("user", [name |-> n, query |-> Demo, parallelism |-> 3])
  <2>1. r \in Request
    BY <1>0, RunDefType DEF CreateReq
  <2>2. PICK reply \in Reply : Call(r, reply)
    BY <1>5 DEF RunJob
  <2>. HIDE DEF r
  <2>. QED
    BY <1>0, <2>1, <2>2, CallCopies
<1>6. CASE Boot \/ \E u \in Topics : TopicAppears(u) /\ UNCHANGED <<supervisorVars, incidents>>
  BY <1>6, OtherSteady DEF Steady
<1>. QED
  BY <1>1, <1>2, <1>3, <1>4, <1>5, <1>6 DEF Next

\* The job's copies are those in stock and in hand.
LEMMA JobCopiesAre ==
    ASSUME ApiTypeOK, IsFiniteSet(LateOf(Demo))
    PROVE  JobCopies = Stock(Demo) + InHandOf(Demo)
<1>1. Cardinality(LiveOf(Demo)) \in Nat /\ Cardinality(LateOf(Demo)) \in Nat
  BY LiveFinite, FS_CardinalityType
<1>2. InHandOf(Demo) \in Nat
  BY DEF InHandOf
<1>3. JobCopies = (Cardinality(LiveOf(Demo)) + InHandOf(Demo)) + Cardinality(LateOf(Demo))
  BY DEF JobCopies, Copies, LiveOf, LateOf, InHandOf
<1>. QED
  BY <1>1, <1>2, <1>3 DEF Stock

\* Nothing but a user's request adds to the users' jobs, whatever fails, ends or comes
\* late (pipelines.go, CreatePipeline; arroyo.go, RestartPipeline).
THEOREM JobsAreNotMultiplied == Spec => JobsNotMultiplied
<1> DEFINE J == FlowsInv /\ IsFiniteSet(LateOf(Demo))
<1>1. Init => J
  BY InitFlows, FS_EmptySet DEF Init, ApiInit, LateOf
<1>2. J /\ [Next]_vars => J'
  <2>1. UNCHANGED vars => LateOf(Demo)' = LateOf(Demo)
    BY DEF LateOf, vars, apiVars
  <2>2. FlowsInv /\ [Next]_vars => FlowsInv'
    BY StepFlows, StutterFlows
  <2>. QED
    BY <2>1, <2>2, StepJobs DEF FlowsInv
<1>3. J => JobCopies = Stock(Demo) + InHandOf(Demo)
  BY JobCopiesAre DEF FlowsInv, TypeOK
<1>a. (J => JobCopies = Stock(Demo) + InHandOf(Demo))'
  BY <1>3, PTL
<1>4. J /\ J' /\ [Next]_vars => [JobCopies' <= JobCopies \/ \E n \in RunNames : RunJob(n)]_vars
  <2>. SUFFICES ASSUME J, J', Next
                PROVE  JobCopies' <= JobCopies \/ \E n \in RunNames : RunJob(n)
    OBVIOUS
  <2>1. Steady(Demo) \/ \E n \in RunNames : RunJob(n)
    BY StepJobs DEF FlowsInv
  <2>2. JobCopies = Stock(Demo) + InHandOf(Demo) /\ JobCopies' = Stock(Demo)' + InHandOf(Demo)'
    BY <1>3, <1>a
  <2>. QED
    BY <2>1, <2>2 DEF Steady
<1>. HIDE DEF J
<1>. QED
  BY <1>1, <1>2, <1>4, PTL DEF Spec, JobsNotMultiplied

-----------------------------------------------------------------------------
(* The scans of the watcher. *)

\* The topic createArroyoFlow is working on.
InWork == IF wpc \in {"table", "pipeline"} THEN {topic} ELSE {}

\* The listed topics the scan has been through without giving them a flow.
Unserved == (metadata \cap Managed) \ (knownTopics \cup todo \cup InWork)

\* The inductive invariant under ScanWithinFaults.
ScanInv ==
    /\ wpc \in {"flow", "table", "pipeline", "refresh"} =>
          IsFiniteSet(Unserved) /\ Cardinality(Unserved) <= faults
    /\ wpc = "refresh" => todo = {}

\* A call counts a failure exactly when it ends in an error.
LEMMA CallFaults ==
    ASSUME NEW r, NEW reply, Call(r, reply)
    PROVE  faults' = IF reply = "error" THEN faults + 1 ELSE faults
BY DEF Call, Fault

\* What is unserved of a scan is no more than before, but for a failure.
LEMMA UnservedFits ==
    ASSUME faults \in Nat, ScanInv, wpc \in {"flow", "table", "pipeline", "refresh"},
           \/ Unserved' \subseteq Unserved /\ faults' \in {faults, faults + 1}
           \/ \E x : Unserved' \subseteq Unserved \cup {x} /\ faults' = faults + 1
    PROVE  IsFiniteSet(Unserved') /\ Cardinality(Unserved') <= faults'
<1>1. IsFiniteSet(Unserved) /\ Cardinality(Unserved) <= faults
  BY DEF ScanInv
<1>2. CASE Unserved' \subseteq Unserved /\ faults' \in {faults, faults + 1}
  <2>1. IsFiniteSet(Unserved') /\ Cardinality(Unserved') \in Nat
        /\ Cardinality(Unserved) \in Nat /\ Cardinality(Unserved') <= Cardinality(Unserved)
    BY <1>1, <1>2, Shrinks
  <2>. QED
    BY <1>1, <1>2, <2>1
<1>3. ASSUME NEW x, Unserved' \subseteq Unserved \cup {x}, faults' = faults + 1
      PROVE  IsFiniteSet(Unserved') /\ Cardinality(Unserved') <= faults'
  <2>1. IsFiniteSet(Unserved') /\ Cardinality(Unserved') \in Nat
        /\ Cardinality(Unserved) \in Nat /\ Cardinality(Unserved') <= Cardinality(Unserved) + 1
    BY <1>1, <1>3, GrowsByOne
  <2>. QED
    BY <1>1, <1>3, <2>1
<1>. QED
  BY <1>2, <1>3

\* The watcher's steps: a topic ends unserved only by a call that failed.
LEMMA WatcherScan ==
    ASSUME faults \in Nat, faults' \in Nat, ScanInv, WatcherStep
    PROVE  ScanInv'
<1>1. CASE Dial \/ ListExisting \/ Refresh
  BY <1>1 DEF Dial, ListExisting, Refresh, ScanInv
<1>2. CASE Scan
  <2>1. CASE wpc' = "flow"
    <3>1. Unserved' = {}
      BY <1>2, <2>1 DEF Scan, Unserved, InWork, isKafkaManagedTopic
    <3>. QED
      BY <2>1, <3>1, FS_EmptySet DEF ScanInv
  <2>2. CASE wpc' # "flow"
    BY <1>2, <2>2 DEF Scan, ScanInv
  <2>. QED
    BY <2>1, <2>2
<1>3. CASE NextTopic
  <2>1. Unserved' \subseteq Unserved /\ faults' = faults /\ wpc = "flow" /\ wpc' = "table"
    BY <1>3 DEF NextTopic, Unserved, InWork, apiVars
  <2>. QED
    BY <2>1, UnservedFits DEF ScanInv
<1>4. CASE EndScan
  <2>1. /\ Unserved' \subseteq Unserved /\ faults' = faults
        /\ wpc = "flow" /\ wpc' = "refresh" /\ todo' = {}
    BY <1>4 DEF EndScan, Unserved, InWork, apiVars
  <2>. QED
    BY <2>1, UnservedFits DEF ScanInv
<1>5. CASE CreateTable
  <2>1. PICK reply \in Reply :
            /\ Call(TableReq(topic), reply)
            /\ \/ reply = "error" /\ wpc' = "flow" /\ topic' = None
               \/ reply # "error" /\ wpc' = "pipeline" /\ UNCHANGED topic
    BY <1>5 DEF CreateTable
  <2>2. wpc = "table" /\ UNCHANGED <<metadata, knownTopics, todo>>
    BY <1>5 DEF CreateTable
  <2>3. faults' = IF reply = "error" THEN faults + 1 ELSE faults
    BY <2>1, CallFaults
  <2>4. CASE reply = "error"
    <3>1. Unserved' \subseteq Unserved \cup {topic}
      BY <2>1, <2>2, <2>4 DEF Unserved, InWork
    <3>. QED
      BY <2>1, <2>2, <2>3, <2>4, <3>1, UnservedFits DEF ScanInv
  <2>5. CASE reply # "error"
    <3>1. Unserved' \subseteq Unserved
      BY <2>1, <2>2, <2>5 DEF Unserved, InWork
    <3>. QED
      BY <2>1, <2>2, <2>3, <2>5, <3>1, UnservedFits DEF ScanInv
  <2>. QED
    BY <2>4, <2>5
<1>6. CASE CreatePipeline
  <2>1. PICK reply \in Reply :
            /\ Call(CreateReq("watcher", FlowDef(topic)), reply)
            /\ knownTopics' = IF reply = "error" THEN knownTopics ELSE knownTopics \cup {topic}
    BY <1>6 DEF CreatePipeline
  <2>2. wpc = "pipeline" /\ wpc' = "flow" /\ UNCHANGED <<metadata, todo>>
    BY <1>6 DEF CreatePipeline
  <2>3. faults' = IF reply = "error" THEN faults + 1 ELSE faults
    BY <2>1, CallFaults
  <2>4. Unserved' \subseteq Unserved \cup {topic}
    BY <2>1, <2>2 DEF Unserved, InWork
  <2>5. reply # "error" => Unserved' \subseteq Unserved
    BY <2>1, <2>2 DEF Unserved, InWork
  <2>. QED
    BY <2>2, <2>3, <2>4, <2>5, UnservedFits DEF ScanInv
<1>. QED
  BY <1>1, <1>2, <1>3, <1>4, <1>5, <1>6 DEF WatcherStep

\* Everybody else leaves the scan alone, and failures only add up.
LEMMA StepScan ==
    ASSUME TypeOK, ScanInv, Next
    PROVE  ScanInv'
<1>0. ApiTypeOK /\ faults \in Nat /\ faults' \in Nat
  BY StepType, ApiAssumption DEF TypeOK, ApiTypeOK
<1>a. ASSUME UNCHANGED <<wpc, metadata, knownTopics, todo, topic>>, faults' \in {faults, faults + 1}
      PROVE  ScanInv'
  <2>1. Unserved' \subseteq Unserved
    BY <1>a DEF Unserved, InWork
  <2>. QED
    BY <1>0, <1>a, <2>1, UnservedFits DEF ScanInv
<1>1. CASE Boot
  BY <1>1 DEF Boot, ScanInv
<1>2. CASE Exit
  BY <1>2 DEF Exit, WatcherOff, ScanInv
<1>3. CASE Watch
  BY <1>0, <1>3, WatcherScan DEF Watch
<1>4. CASE Supervise
  <2>1. faults' \in {faults, faults + 1}
    BY <1>4, CallFaults
       DEF Supervise, SupervisorStep, Tick, CheckJobs, EndRound, FetchPipeline, DeletePipeline,
           RecreatePipeline, FailedGet, Fault, apiVars
  <2>. QED
    BY <1>4, <1>a, <2>1 DEF Supervise, watcherVars
<1>5. CASE Arroyo
  BY <1>5, <1>a DEF Arroyo, LateRequest, JobStarts, JobFails, JobStops, JobResumes, JobBecomes,
                    watcherVars
<1>6. ASSUME NEW n \in RunNames, RunJob(n)
      PROVE  ScanInv'
  BY <1>6, <1>a, CallFaults DEF RunJob, watcherVars
<1>7. ASSUME NEW u \in Topics, TopicAppears(u)
      PROVE  ScanInv'
  BY <1>7, <1>a DEF TopicAppears, apiVars
<1>. QED
  BY <1>1, <1>2, <1>3, <1>4, <1>5, <1>6, <1>7 DEF Next

\* A scan leaves no more of its topics unserved than there were failures: one topic's
\* does not end the scan for the others (watcher.go, Run and createArroyoFlow).
THEOREM ScansServeWithinFaults == Spec => []ScanWithinFaults
<1>1. Init => ScanInv
  BY DEF Init, WatcherInit, ScanInv
<1>2. TypeOK /\ ScanInv /\ [Next]_vars => ScanInv'
  <2>1. ScanInv /\ UNCHANGED vars => ScanInv'
    BY DEF ScanInv, Unserved, InWork, vars, apiVars, watcherVars
  <2>. QED
    BY <2>1, StepScan
<1>3. ScanInv => ScanWithinFaults
  <2>. SUFFICES ASSUME ScanInv, wpc = "refresh"
                PROVE  Cardinality((metadata \cap Managed) \ knownTopics) <= faults
    BY DEF ScanWithinFaults
  <2>1. Unserved = (metadata \cap Managed) \ knownTopics
    BY DEF ScanInv, Unserved, InWork
  <2>. QED
    BY <2>1 DEF ScanInv
<1>. QED
  BY <1>1, <1>2, <1>3, TypeCorrect, PTL DEF Spec
=============================================================================
