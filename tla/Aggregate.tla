------------------------------ MODULE Aggregate -----------------------------
(***************************************************************************)
(* GET /aggregate: aggregateHandler in internal/routes, GetReadings in     *)
(* internal/db, and StoreAggregate / FetchAggregate of the two cache       *)
(* drivers.  Each request is served by a goroutine; the cache and the      *)
(* tables are shared, and nothing orders the calls of two requests.        *)
(*                                                                         *)
(* An aggregate is represented by the readings it was computed from and    *)
(* its Timestamp; average, minimum, maximum and count are functions of     *)
(* these readings.  Requests with bad parameters are turned away before    *)
(* anything is read.                                                       *)
(***************************************************************************)
EXTENDS Readings

CONSTANTS
    Requests,    \* the requests that may arrive
    Args,        \* what they ask for: [sensor, type, window]
    TTL,         \* how long the cache keeps an aggregate
    Patience,    \* the sum of the time limits up to the call that stores
    SetLag,      \* how much later a Set may take effect after the handler gave up on it
    MaxClock,    \* bound on the time that passes
    NoAnswer

Argument == [sensor: {a.sensor : a \in Args}, type: {a.type : a \in Args}, window: Int]

ASSUME AggregateAssumption ==
    /\ TTL \in Nat \ {0}
    /\ Patience \in Nat
    /\ SetLag \in Nat
    /\ MaxClock \in Nat
    /\ Args \subseteq Argument

VARIABLES
    arg,         \* what each request asks for
    pc,          \* what its goroutine does next, or how it ended
    now,         \* the time its goroutine took as now
    day,         \* the bucket it queries next
    rows,        \* the readings it has scanned
    answer,      \* the aggregate it was answered with
    cache,       \* the entries under agg:..., at most one for a key
    late         \* Sets given up on, which may still take effect

request == <<arg, pc, now, day, rows, answer>>
vars == <<readings, request, cache, late>>

-----------------------------------------------------------------------------
Ended == {"ok", "notfound", "error"}

Waiting == {"fetch", "query", "store"}

Init ==
    /\ clock = 0
    /\ arrived = [r \in Readings |-> Never]
    /\ arg \in [Requests -> Args]
    /\ pc = [q \in Requests |-> "idle"]
    /\ now = [q \in Requests |-> 0]
    /\ day = [q \in Requests |-> 0]
    /\ rows = [q \in Requests |-> {}]
    /\ answer = [q \in Requests |-> NoAnswer]
    /\ cache = {}
    /\ late = {}

Goto(q, label) == pc' = [pc EXCEPT ![q] = label]

From(q) == now[q] - arg[q].window

\* Faulty variant of Key: any window of the day.
KeyWithoutWindow(q) == [sensor |-> arg[q].sensor, day |-> DayOf(now[q]), window |-> 0]

\* Faulty variant of Key: the day is left out.
KeyWithoutDay(q) == [sensor |-> arg[q].sensor, day |-> 0, window |-> arg[q].window]

\* cacheKey: the sensor, the day and the window, but not the sensor type.
Key(q) == [sensor |-> arg[q].sensor, day |-> DayOf(now[q]), window |-> arg[q].window]

Computed(q) == [at |-> now[q], rows |-> rows[q]]

\* Faulty variant of Set: an entry that is there is not replaced.
SetBeside(key, agg) ==
    cache' = cache \cup {[key |-> key, agg |-> agg, until |-> clock + TTL]}

\* The cache executes a Set: the entry is replaced, and its life begins now.
Set(key, agg) ==
    cache' = {e \in cache : e.key # key}
                \cup {[key |-> key, agg |-> agg, until |-> clock + TTL]}

-----------------------------------------------------------------------------
Start(q) ==
    /\ pc[q] = "idle"
    /\ now' = [now EXCEPT ![q] = clock]
    /\ Goto(q, "fetch")
    /\ UNCHANGED <<readings, arg, day, rows, answer, cache, late>>

\* Faulty variant of Hit: reading an entry prolongs its life.
HitProlongs(q) ==
    /\ pc[q] = "fetch"
    /\ \E e \in cache :
          /\ e.key = Key(q)
          /\ clock < e.until
          /\ answer' = [answer EXCEPT ![q] = e.agg]
          /\ Set(e.key, e.agg)
    /\ Goto(q, "ok")
    /\ UNCHANGED <<readings, arg, now, day, rows, late>>

\* FetchAggregate finds a live entry.
Hit(q) ==
    /\ pc[q] = "fetch"
    /\ \E e \in cache :
          /\ e.key = Key(q)
          /\ clock < e.until
          /\ answer' = [answer EXCEPT ![q] = e.agg]
    /\ Goto(q, "ok")
    /\ UNCHANGED <<readings, arg, now, day, rows, cache, late>>

\* Faulty variant of Miss: the buckets of earlier days are not queried.
MissFromToday(q) ==
    /\ pc[q] = "fetch"
    /\ day' = [day EXCEPT ![q] = DayOf(now[q])]
    /\ Goto(q, "query")
    /\ UNCHANGED <<readings, arg, now, rows, answer, cache, late>>

\* It finds none, the entry was evicted, the call failed or timed out, or what it
\* returned does not parse: all the same to the handler.
Miss(q) ==
    /\ pc[q] = "fetch"
    /\ day' = [day EXCEPT ![q] = DayOf(From(q))]
    /\ Goto(q, "query")
    /\ UNCHANGED <<readings, arg, now, rows, answer, cache, late>>

\* One round of GetReadings' loop: the query of one bucket.
QueryBucket(q) ==
    /\ pc[q] = "query"
    /\ day[q] <= DayOf(now[q])
    /\ rows' = [rows EXCEPT ![q] = @ \cup
                  {r \in InWindow(arg[q].sensor, arg[q].type, From(q), now[q]) : r.day = day[q]}]
    /\ day' = [day EXCEPT ![q] = @ + 1]
    /\ UNCHANGED <<readings, arg, pc, now, answer, cache, late>>

\* Its failure or timeout: what earlier buckets returned is dropped.
QueryFails(q) ==
    /\ pc[q] = "query"
    /\ day[q] <= DayOf(now[q])
    /\ Goto(q, "error")
    /\ UNCHANGED <<readings, arg, now, day, rows, answer, cache, late>>

\* Faulty variant of Compute: the loop ends before the window's last day.
ComputeEarly(q) ==
    /\ pc[q] = "query"
    /\ day[q] >= DayOf(now[q])
    /\ Goto(q, IF rows[q] = {} THEN "notfound" ELSE "store")
    /\ UNCHANGED <<readings, arg, now, day, rows, answer, cache, late>>

\* Faulty variant of Compute: that nothing was found is cached as well.
ComputeEmpty(q) ==
    /\ pc[q] = "query"
    /\ day[q] > DayOf(now[q])
    /\ Goto(q, "store")
    /\ UNCHANGED <<readings, arg, now, day, rows, answer, cache, late>>

\* All buckets are read: nothing found, or an aggregate to store.
Compute(q) ==
    /\ pc[q] = "query"
    /\ day[q] > DayOf(now[q])
    /\ Goto(q, IF rows[q] = {} THEN "notfound" ELSE "store")
    /\ UNCHANGED <<readings, arg, now, day, rows, answer, cache, late>>

\* StoreAggregate, and the answer, whether it succeeded or not.  When the call
\* fails or is given up (Valkey's client after 200 ms; Memcached's goroutine goes
\* on after the 100 ms of store), the Set was executed, never is, or is later.
StoreAggregate(q) ==
    /\ pc[q] = "store"
    /\ \/ Set(Key(q), Computed(q)) /\ UNCHANGED late
       \/ UNCHANGED <<cache, late>>
       \/ /\ late' = late \cup {[key |-> Key(q), agg |-> Computed(q), by |-> clock + SetLag]}
          /\ UNCHANGED cache
    /\ answer' = [answer EXCEPT ![q] = Computed(q)]
    /\ Goto(q, "ok")
    /\ UNCHANGED <<readings, arg, now, day, rows>>

LateSet ==
    /\ \E s \in late :
          /\ Set(s.key, s.agg)
          /\ late' = late \ {s}
    /\ UNCHANGED <<readings, request>>

\* Faulty variant of WithinLimits: GetReadings sets no deadline.
WithinSomeLimits ==
    /\ \A q \in Requests : pc[q] \in Waiting \ {"query"} => clock < now[q] + Patience
    /\ \A s \in late : clock < s.by

\* The contexts' deadlines: a goroutine does not get past them with its calls.
WithinLimits ==
    /\ \A q \in Requests : pc[q] \in Waiting => clock < now[q] + Patience
    /\ \A s \in late : clock < s.by

Tick ==
    /\ clock < MaxClock
    /\ WithinLimits
    /\ clock' = clock + 1
    /\ UNCHANGED <<arrived, request, cache, late>>

Arrive == \E r \in Readings : Insert(r) /\ UNCHANGED <<request, cache, late>>

Serve(q) ==
    \/ Start(q) \/ Hit(q) \/ Miss(q) \/ QueryBucket(q) \/ QueryFails(q)
    \/ Compute(q) \/ StoreAggregate(q)

Next ==
    \/ Tick
    \/ Arrive
    \/ LateSet
    \/ \E q \in Requests : Serve(q)

Spec == Init /\ [][Next]_vars

-----------------------------------------------------------------------------
Agg == [at: Int, rows: SUBSET Readings]

CacheKey == [sensor: {a.sensor : a \in Args}, day: Int, window: Int]

\* Requests, what they compute and what the cache holds have their types, and a
\* goroutine about to store has something to store.
TypeOK ==
    /\ ReadingsTypeOK
    /\ arg \in [Requests -> Args]
    /\ pc \in [Requests -> Waiting \cup Ended \cup {"idle"}]
    /\ now \in [Requests -> Int]
    /\ day \in [Requests -> Int]
    /\ rows \in [Requests -> SUBSET Stored]
    /\ answer \in [Requests -> Agg \cup {NoAnswer}]
    /\ cache \subseteq [key: CacheKey, agg: Agg, until: Int]
    /\ late \subseteq [key: CacheKey, agg: Agg, by: Int]
    /\ \A e, f \in cache : e.key = f.key => e = f

\* The longest time between now and the end of the cache entry made from it.
MaxAge == Patience + SetLag + TTL

\* An aggregate of readings of this sensor and type over this window, complete as
\* of its timestamp.
Covers(agg, sensor, type, window) ==
    /\ agg.rows \subseteq InWindow(sensor, type, agg.at - window, agg.at)
    /\ Due(sensor, type, agg.at - window, agg.at, agg.at) \subseteq agg.rows

\* Although buckets are queried one after the other while readings arrive, and
\* however answers travel through the cache, an answer is made of readings of the
\* sensor and window asked for, and leaves out none that was in its bucket before
\* the answer's Timestamp: not at the window's edges, not of its first or last day.
\* The readings are of one type, not necessarily of the type asked for.
AnswersAreComplete ==
    \A q \in Requests : pc[q] = "ok" =>
        \E a \in Args :
            /\ a.sensor = arg[q].sensor /\ a.window = arg[q].window
            /\ answer[q].rows # {}
            /\ Covers(answer[q], a.sensor, a.type, a.window)

\* "no readings found" is never the effect of a stale or foreign cache entry: at
\* the time the handler took as now there was none for this sensor and type.
NotFoundIsTrue ==
    \A q \in Requests : pc[q] = "notfound" =>
        Due(arg[q].sensor, arg[q].type, From(q), now[q], now[q]) = {}

\* The key has no type, so a request may be answered with an aggregate of another
\* type; but only if another request asked for that type, with the same sensor and
\* window, and at the time the answer bears.
OtherTypeWasAskedFor ==
    \A q \in Requests : pc[q] = "ok" => \A r \in answer[q].rows :
        \E p \in Requests :
            /\ pc[p] # "idle"
            /\ arg[p] = [arg[q] EXCEPT !.type = r.type]
            /\ now[p] = answer[q].at

\* No answer is of an earlier UTC day than its request: the day is in the key.
AnswersAreOfToday ==
    \A q \in Requests : pc[q] = "ok" => DayOf(answer[q].at) = DayOf(now[q])

\* A request is never answered with an aggregate older than the life of an entry and
\* the delays before that life begins: the entry lives from the moment the Set is
\* executed, not from the aggregate's Timestamp.
AnswersAreFresh ==
    [][\A q \in Requests : pc'[q] = "ok" /\ pc[q] # "ok" =>
          answer'[q].at > clock - MaxAge]_vars

\* A slow request or a Set that its handler gave up on may replace an aggregate by
\* an older one, but by one older by no more than these delays.
SetsGoBackLittle ==
    [][\A e \in cache, f \in cache' : e.key = f.key =>
          f.agg.at >= e.agg.at - (Patience + SetLag)]_vars

Status(label) ==
    IF label = "idle" THEN "new" ELSE IF label \in Waiting THEN "asked" ELSE label

Statuses == [q \in Requests |-> Status(pc[q])]

Promise == INSTANCE Answers WITH asked <- arg, status <- Statuses

\* The handler, its cache and the tables serve what Answers promises.
AnswersKept == Promise!Spec
=============================================================================
