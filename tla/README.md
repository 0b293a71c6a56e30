# Nostradamus API: a TLA+ verification project

The program (Go, about 2800 lines) is the HTTP API of a sensor platform. Readings arrive
over MQTT (EMQX) and Kafka; the stream processor Arroyo moves every Kafka topic into a
Scylla table; the API registers fields and sensors, hands out MQTT credentials, answers
queries on the readings through a cache (Valkey or Memcached), and, in two background
goroutines, keeps Arroyo supplied with one pipeline for every topic and restarts the
pipelines that failed. The repository has no tests. What is hard in it happens between
processes: Arroyo, Scylla and EMQX are changed by sequences of calls, with no transaction,
while other goroutines, other requests and the services themselves go on.

## 1. Inventory

| Component (source) | State | Operations | Hard behaviour | Modelled in |
|---|---|---|---|---|
| Arroyo client (`internal/arroyo`) | none; the state is Arroyo's: pipelines, jobs, connection tables | create, delete, list and fetch pipelines; create tables; `RestartPipeline` | calls that time out and are executed later; fetch, delete, create without atomicity | `ArroyoApi`, `Supervisor` |
| Kafka watcher (`internal/kafka`) | cached topic list, `knownTopics` | dial, list, scan, `createArroyoFlow`, refresh | a stale topic list, retries of half-done flows, names shared with users' pipelines | `Watcher` |
| Pipeline supervisor (`internal/worker`) | ticker | tick, check jobs, restart | decides on jobs it read earlier; loses what it holds when the process exits | `Supervisor` |
| API process (`cmd/api`, `pipelines.go`) | starts both goroutines | start, `POST /jobs/run`, exit | `log.Fatal` runs no deferred call: nothing is completed on exit | `Pipelines` |
| Registration (`internal/db`, `routes/handlers.go`) | Scylla tables `fields`, `sensors_by_field`, `sensors` | `RegisterField`, `RegisterSensor`, `StoreSensorCredentials` | check-then-insert without a lock; four writes in two systems | `Registry`, `Directory` |
| EMQX client (`internal/emqx`) | none; EMQX's users | `CreateUser` | failure is logged and the request goes on | `Registry` |
| Aggregates (`handlers.go`, `internal/cache`) | cache entries of 5 minutes | `GET /aggregate` | stale and late cache writes, a key without the sensor type | `Aggregate`, `Answers` |
| Latest values (`handlers.go`, `sensors.go`, `valkey.go`) | a sorted set per key | `GET /latest` | the key written is not the key read; equal values collapse; the local date as bucket | `Latest`, `Uncached` |
| Readings (`readings.go`) | none; the tables are Scylla's | `GetReadings` over day buckets | the edges of the window; readings that arrive between two buckets | `Readings`, `Aggregate` |
| Job and profile listings (`jobs.go`, `connection_profile.go`) | none | proxies of Arroyo | none | no |
| Routing, JSON, readiness (`routes`, `pkg/utils`) | none | | none | no |
| Metrics, tracing | counters, spans | | never read by the program | no |
| Schema, deployment (`migrations`, `compose.yml`) | | | | no |

How they interact: the watcher, the supervisor and `POST /jobs/run` share Arroyo and nothing
else; registration requests share Scylla's registration tables and EMQX and nothing else;
the requests for aggregates and latest values share the readings tables, which the program
only reads, and the cache. `/aggregate` stores plain keys `agg:...` and `/latest` sorted
sets under other keys, so they meet in the tables only. The groups have no state in common
(Arroyo fills the readings tables, outside this program), so they are separate
specifications: `Pipelines`, `Registry`, `Aggregate` and `Latest`.

`PROJECT.json` lists the hazards at their lines, with the properties that cover each and a
note on those that none covers yet.

## 2. Modules

    ArroyoApi            Arroyo's pipelines and tables; one HTTP call and its outcomes
      |        \
    Watcher   Supervisor     the two goroutines, one action per call
       \        /
       Pipelines ------------ Catalog      the process; its abstract specification
          |
       MCPipelines                          instances for TLC
       PipelinesTypeProofs <- PipelinesProofs <- PipelinesCopiesProofs
                           <- PipelinesJobsProofs

    Registry ------------- Directory        POST /fields, POST /sensors; its abstract
       |                                    specification
       MCRegistry, RegistryProofs

    Readings             the readings tables, and time
      |       \
    Aggregate  Latest    GET /aggregate, GET /latest
      |  \        |  \
      |  Answers  |  Uncached   what GET /aggregate promises; GET /latest without a cache
      |           |
      |           MCLatest, LatestProofs
      |
      MCAggregate, AggregateProofs

**ArroyoApi.** `pipes` is every pipeline ever created, deleted ones included (the history
the properties need), `tables` the connection tables, by topic. `Call(r, reply)` is one POST
or DELETE: executed and answered (`"ok"`), refused without effect (`"refused"`: "already
exists", 404), or `"error"`: the client learns nothing, and the request was not executed,
was executed, or waits in `late` and is executed at any later time (`LateRequest`). That is
what the client's 10 s timeout (`arroyo.go`) and the status checks leave open. A query is
represented by the topic whose table it reads, or `Demo` for the fixed query of `POST
/jobs/run`. `NamesUnique` says whether Arroyo refuses a second pipeline of one name;
`ReportsParallelism` whether `GET /pipelines/{id}` returns that field. The code is written
for either (it handles "already exists", and logs "duplicates expected"), so both values are
checked, and the proofs hold for both. A network error and an error status are the same
`"error"`; a GET that fails is `FailedGet`. `late` is a set, and two requests may ask for the
same: a request is told from an equal one by its sender and by the number of failures before
it, so two equal creates that both timed out are two, and may both be executed.

**Watcher.** `wpc` is the place in `Run` and `createArroyoFlow`. `Dial` loads the topic
list; `ListExisting` fills `knownTopics` (or leaves it empty on failure, as the code does);
`Scan` collects the managed, unknown topics; `NextTopic`, `CreateTable` and `CreatePipeline`
are one round of the loop body; `Refresh` is the sleep and `RefreshMetadata`. `knownTopics`
changes only in `CreatePipeline` during a scan, and only for the topic just handled, so
collecting `todo` at once is the code's test of each topic in turn. A topic name starting
with `__` has none of the managed prefixes, so `Managed` stands for both tests.

**Supervisor.** `Tick` lists, `CheckJobs` asks for one pipeline's jobs and judges it,
`FetchPipeline`, `DeletePipeline`, `RecreatePipeline` are the three calls of
`RestartPipeline`; between the last two, `held` is the only copy of the definition. A
pipeline has one job here, the worst of its jobs: the code restarts on the first stopped or
failed one.

**Pipelines.** Starts both goroutines after the profiles were listed (`Boot`), lets the
process exit at any step with its calls still on their way (`Exit`: `log.Fatal` after
`ListenAndServe` or in the dial, or a crash), serves `RunJob`, and gives Arroyo's jobs their
life: `JobStarts`, `JobFails`, `JobStops`, `JobResumes` (an operator at Arroyo's console).
Apart from `Boot` and `Exit`, a step is one call of one process.

**Catalog.** What pipeline management promises: a set of flows (name and query) that only
grows, except that each fault may cost one. `Pipelines!Flows` maps to it: a flow is kept
while a live pipeline runs it or the supervisor holds it between delete and create.

**Registry.** Each request is a process; `pc` is its next call, or its answer. The three
inserts, `CreateUser` and `StoreSensorCredentials` succeed, or fail having happened, not
happened, or going to happen (`late`). `Restart` ends all requests in progress. A UUID is
fresh, so a row is named by its request, and so is the password; the MQTT user name takes
the first 8 characters of the sensor's id (`Prefix`), which two ids may share. `seen` and
`failed` are history variables: the rows there were when a request arrived, and the calls
that failed or that an exit cut off, so that a property can excuse the very call that failed
and no other (`faulted` is the set of requests with such a call). The check of names is one
action: rows are never changed or removed, so reading them one by one gives what the list at
its start gives, or misses a row whose read failed (the branch that goes on to the insert
with `"check"` in `failed`). That the field of a sensor exists is checked neither in the
code nor here.

**Directory.** What registration promises, without calls, tables or a broker: a request asks
once, and its answer is final; one that is turned away ("already exists") never leaves
anything behind; what is listed stays listed; only a listed sensor gets credentials; a
request that met no failure enters no name listed when it asked, and is answered "created"
only for what is listed and, if a sensor, has its credentials. `Registry` maps to it with
`status` read off `pc`, `listed` the stored rows and `given` the stored credentials: a
handler's first call is `Ask`, its last one a write and an answer in one step, a late write
is a write after the answer, and `Restart` is `Abort`.

**Readings.** `arrived` says when each reading was inserted (`Never` before), `clock` counts
ticks, `Day` of them to a UTC day. A reading has a timestamp `at` and the bucket `day` it is
filed under, which is a field of the message and not computed from `at` (`JSONSchema` in
`arroyo`): the two may disagree, and the properties speak of the readings filed rightly
(`Due`). Arroyo may insert in any order, late ones included. A read sees what was inserted
before it. Rewriting a row is left out: a reading is inserted once, as its table's key
identifies it.

**Aggregate.** `pc` is the next call of a request's goroutine: `fetch`, `query` (one
`QueryBucket` for each day of the window, with `day` and `rows` the loop's variables; the
pages of one bucket are one step), `store`. `now` is taken once, at `Start`. An aggregate is
represented by the readings it was computed from and its `Timestamp`. `Hit` needs a live
entry; `Miss` is always possible, as an eviction, a failed or timed-out fetch and a value
that does not parse are one to the handler. `StoreAggregate` answers whatever becomes of its
`Set`: executed, lost, or in `late` to be executed afterwards. That is Memcached's
goroutine, which goes on when `store` returns after 100 ms, and a call to Valkey that its
client gave up on. A window is its length: `60m` and `1h` make two keys in the code, which
only adds misses. Argument errors are answered before anything is read and are left out.

**Answers.** What `/aggregate` promises, without buckets, cache or lateness: an answer is
complete as of a time at most `MaxAge` ago, "no readings found" is true of such a time, and
the readings are of one type, though not always the type asked for. `Aggregate` maps to it
with `status` read off `pc`.

**Uncached.** `GET /latest` without a cache: a request reads the table once, at some moment
after it began, and is answered with the newest N of what its day's bucket held then, or
fails. `Latest` maps to it: `GetLast5Values` is the read; fetching and storing are
invisible; how the readings look (`Form`) is `Entry`.

**Latest.** One sensor and its temperatures, as the handler has them hard-coded. A sorted
set maps values to times: `ZAdd` gives a value that is there the new time. A round of the
handler's loop is two steps, `Store` (`ZADD`) and, if that was answered, `Expire`: other
requests' commands come between them, and so may the end of the set. Either may fail
unnoticed: the set may then keep its old end, or have none. `slipped` is a history variable,
the requests one of whose storing calls failed. `FetchKey` and `StoreKey` differ as in the
code, one formatted as a date, the other as a whole time. `Rounded` is `%.4f`, with `Grain`
the last place. `Today` is the local date (`Zone`). With `Driver = "memcached"`, storing
does nothing and fetching finds nothing, as in `memcached.go`. A ZADD that is executed after
its client gave up is not modelled.

Definitions called "Faulty variant" are not part of any specification: each is a plausible
mistake in the definition that follows, and `PROJECT.json` pairs it with the property that
notices.

## 3. What the runs check

| Run | Instance | Properties |
|---|---|---|
| `pipelines` | 1 topic, 1 user name, equal names accepted, failing jobs, 2 faults, 2 incidents | see below |
| `pipelines_unique` | 3 topics (one not managed), equal names refused, all job events, 1 fault, 2 incidents | `LossWithinFaults`, `KnownTopicHadFlow`, `ScanWithinFaults` |
| `pipelines_live` | 2 topics (one not managed), 2 faults and exits, 1 incident, fair | `TopicGetsFlow` |
| `restarts_live` | 2 topics, users' jobs named like one of them, failing and stopped jobs, no fault, no exit, 2 incidents, fair | `KnownTopicHadFlow`, `TopicHasItsFlow`, `FailedIsRestarted` |
| `restart_lost` | 1 topic, no users' jobs, failing jobs, 1 fault, fair | `FailedIsRestarted` is **violated** |
| `stopped_restarted` | 1 topic, 1 user name, failing and stopped jobs, no fault | `OnlyFailedDeleted` is **violated** |
| `registry` | 3 requests, 1 owner, 2 names, ids of two requests clash, 2 failures | see below |
| `aggregate` | 2 requests, 3 choices of type and window, 3 readings of 2 types around midnight (2 ticks to a day), 4 times | see below |
| `aggregate_sets` | 3 requests for one aggregate, 8 times | `AnswersAreFresh`, `SetsGoBackLittle` |
| `latest` | 2 requests for 2 values, 3 readings of which 2 are equal when rounded, 4 times over a midnight | `TypeOK`, `NothingNewerMissed`, `SetsExpire`, `CacheIsInvisible` |
| `latest_midnight` | the same with 1 request and a local time ahead of UTC | `LatestOfAllDays` is **violated** |
| `latest_collapse` | the same with 1 request | `OlderLeaveRecentAlone` is **violated** |

`pipelines` checks, besides the type invariant:

- `LossWithinFaults`: flows created and no longer kept are at most as many as the faults.
  With no fault, nothing is lost, whatever the three creators do to one another.
- `CatalogKept`: the refinement of `Catalog`, with `faults` mapped to itself.
- `FlowHasTable`: no live pipeline reads a table that was not created.
- `KnownTopicHadFlow`: a topic the watcher will not look at again had a pipeline of its
  name, and that was its own flow unless users may give their jobs this very name. (They
  may: a job named like a topic hides that topic from the next process, and the topic then
  gets no flow. `restarts_live` has such jobs.)
- `CopiesWithinFaults`: a topic has one flow, and at most one more per fault: the retry of a
  call that had been executed, a late request, a list that failed.
- `TopicHasItsFlow`: without a fault, a topic the watcher has done with has exactly one copy
  of its flow: the bounds on losses and on copies meet. A job named like a topic takes only
  that topic out.
- `JobsNotMultiplied`: nothing but a user's request adds to the users' jobs, however the
  calls of a restart fail, come late or are cut off. A late create is counted as a copy, and
  so is the definition the supervisor is about to create again.
- `ParallelismKept`: restarts keep the parallelism, if Arroyo reports it.
- `RunningNeverDeleted`: the supervisor's judgement is two calls old when it deletes, yet a
  scheduled or running pipeline is never deleted, unless operators start jobs again.

`pipelines_unique` adds an order among topics, and with it `ScanWithinFaults`: at the end of
a scan no more of its topics are without a flow than there were faults. One topic's failure
does not end the scan for the others.

`restarts_live` checks `FailedIsRestarted`: while no call fails and the process stays up,
however many pipelines of one name there are, as many have at that time or later not failed.
Counting them keeps a second pipeline of the name, which `POST /jobs/run` or a job named
like a topic can make, from standing in for a failed one that is left alone. A stopped
pipeline asks for nothing here: that the code restarts it too is the finding of
`stopped_restarted`. The two invariants of this run speak of the topics beside a topic whose
name a user's job took.

`registry` checks `CreatedIsUsable`, `StoredCredentialsWork`, `UserHasCredentials`,
`DuplicateNeedsOverlap`, `ExistsIsTrue` and `IndexedIsStored`; each is explained where it is
defined. They say how far check-then-insert and four unprotected writes can be trusted, and
what a failure may cost: a duplicate comes only from a request that overlapped the other or
whose own check failed, not from a late insert or any other failure; a 201 whose
`CreateUser` failed still has its row and its stored credentials, and one whose store failed
still has its user; a user whose password nobody can read comes only from a failed store or
an exit. Two sensors whose ids and names agree share a user (`Shared`), and only they are
excused. `DirectoryKept`, the refinement of
`Directory`, says of steps what the invariants say of states: answers are final, nothing
listed vanishes, and no write of a refused request is ever made, not even late.

`aggregate` checks, besides the type invariant:

- `AnswersAreComplete`: an answer leaves out no reading of its window that was in its bucket
  before the answer's `Timestamp`, and holds none from outside, although buckets are queried
  one by one while readings arrive and the result goes through the cache.
- `NotFoundIsTrue`: "no readings found" never comes from a stale or foreign entry.
- `OtherTypeWasAskedFor`: how far the key without a sensor type misleads. A request may be
  answered with humidities for temperatures, but only with what another request for that
  type, sensor and window computed.
- `AnswersAreOfToday`: the day in the key keeps yesterday's entries, and those stored after
  midnight by requests begun before it, from today's requests.
- `AnswersKept`: the refinement of `Answers`.

`aggregate_sets` bounds staleness. An entry's life begins when the `Set` is executed and not
at its `Timestamp`, so an answer can be older than the five minutes: by the limits of the
calls before (`Patience`) and by how late a `Set` can land (`SetLag`). `AnswersAreFresh`
shows that this is all; `SetsGoBackLittle`, that an entry is never replaced by one older by
more than that.

`NothingNewerMissed` (`latest`) says that no answer of `/latest` omits a reading of the day
in favour of an older one. It holds because the cache is never hit: the key stored is not
the key fetched. Were they the same (the mutant of this run), it would fail, as no arriving
reading is ever put into a sorted set. `CacheIsInvisible`, the refinement of `Uncached`,
says the same of the whole handler: with any number of requests storing and fetching, each
answer is that of one read of the table.

`SetsExpire` (`latest`) is about the two commands of a round: no order of `ZADD`, `EXPIRE`
and the end of a set, of any number of requests for one key, leaves a set that stays for
ever, unless a call failed. `EXPIRE` before `ZADD` would (the mutant).

**Findings.** (1) `RestartPipeline` deletes before it creates; if the create fails, the
pipeline is not restarted but gone, and neither goroutine will create it again, as the
watcher has its topic among `knownTopics` (`restart_lost`). "Supervisor checks Arroyo
pipelines periodically and restarts failed ones" (`supervisor.go:14`). (2) The same comment
speaks of failed pipelines; the code also restarts those an operator stopped
(`stopped_restarted`). (3) "get 5 latest values" (`mux.go:21`): the handler reads the bucket
of the current local date only, so after local midnight the newest readings are not
returned: those of the day before, and, where local time is ahead of UTC, those of the UTC
day that still runs, of which the run's counterexample is one (`latest_midnight`). (4)
"FetchLast retrieves the N most recent entries from a sorted cache" (`interface.go:16`): the
member is the value alone (`valkey.go:41`), and the handler stores newest first, so an older
reading of the same value moves the recent one back in time (`latest_collapse`). As the keys
differ, no answer shows it today.

**Bounds.** `MaxFaults` bounds failed calls and exits, `MaxIncidents` job events and
submitted jobs; both only limit how often the environment acts, never the program. Two
faults are enough for a fault during the recovery from another (an exit while a late request
waits; a failed list after a late create). One topic with one user's pipeline already gives
the supervisor two pipelines to inspect; three topics, with one not managed, give the
watcher's loop an order. Three requests are enough for one pair that overlaps and one that
comes later, and the two names and three ids for every combination of equal name and equal
prefix. One owner is enough: owners matter only where names do (`SameName`), and the proofs
cover any number of them. Two of the three requests are interchangeable, and so are the
names (`SYMMETRY`). `MaxFailures` ends failures in `Registry`: with two, a failure meets the
consequences of another (a late insert and a failed check, a failed user and an exit), and
one exit may cut off several calls at once; the proofs hold for any number. A run with three
gives no other result, in three times the time.

In the runs of `Aggregate` and `Latest`, `MaxClock` ends time, and readings, requests and
arguments are finite sets. Two requests are enough for one to find what the other stored, of
its own type or another; windows of one and of three ticks begin on the day or on the one
before it; a reading lies on either side of midnight, and each may arrive at any time. For
the age of entries the number of times matters more: eight, against a life of 2 and delays
of 1 each, with three requests so that a slow one and a late `Set` meet an entry of a third.
For `Latest`, three readings are one more than are asked for. `Patience` is the sum of the
calls' time limits, which `WithinLimits` enforces by holding the clock. Every call of the
handler has a limit: the query by its context, Valkey's calls and Memcached's store by
theirs, Memcached's fetch by its client's socket timeout. `SetLag` is an assumption: nothing
in the repository bounds how late a `Set` that was given up lands, except the socket
timeouts of the cache clients. The proofs hold for every value of both.

`SYMMETRY` is used in safety runs only. The runs of `Registry`, `Aggregate` and `Latest` set
`CHECK_DEADLOCK FALSE`, because they end when the requests have been served and time is up;
the pipelines' runs check deadlock.

**Fairness** (`FairSpec`): weak fairness of the watcher's steps and of the supervisor's
steps. Nothing is assumed of `Boot`: `compose.yml` names no restart policy, so a process
that has exited may stay down, and `TopicGetsFlow` allows for that and nothing else. Every
call returns, by its timeout, and every wait is a timer, so a goroutine that can step does.
Nothing is assumed of Arroyo's job events, of late requests, of users, or of calls
succeeding: the fault bound is what ends failures. `FailedIsRestarted` holds without fault
only, as the finding shows.

## 4. What is proved

TLAPS checks the following for every value of the constants that meets the ASSUMEs
(`ApiAssumption`, `WatcherAssumption`, `PipelinesAssumption`, `RegistryAssumption`,
`ReadingsAssumption`, `AggregateAssumption`, `LatestAssumption`). Every safety property that
a passing run checks is among them.

| Theorem | States |
|---|---|
| `TypeCorrect` | `Spec => []TypeOK` of Pipelines |
| `TablesPrecedePipelines` | `Spec => []FlowHasTable` |
| `KnownTopicsWereServed` | `Spec => []KnownTopicHadFlow` |
| `LossesAreBounded` | `Spec => []LossWithinFaults` |
| `PipelinesImplementCatalog` | `NamesSeparate` implies `Spec => CatalogKept` |
| `RunningAreSpared`, `RestartsKeepParallelism` | `Spec => []RunningNeverDeleted`, `Spec => []ParallelismKept` |
| `CopiesAreBounded`, `TopicsHaveTheirFlow` | `Spec => []CopiesWithinFaults`, `Spec => []TopicHasItsFlow` |
| `JobsAreNotMultiplied` | `Spec => JobsNotMultiplied` |
| `ScansServeWithinFaults` | `Spec => []ScanWithinFaults` |
| `RegistryTypeCorrect` | `Spec => []TypeOK` of Registry |
| `NamesAreNotRepeated`, `ExistsIsNeverWrong`, `SensorsAreConsistent`, `ReadCredentialsWork`, `CreatedMeansUsable`, `UsersHaveCredentials` | the six safety properties of Registry |
| `RegistryImplementsDirectory` | `Spec => DirectoryKept` |
| `AggregateTypeCorrect`, `AnswersLeaveNothingOut`, `NotFoundIsNeverWrong`, `OtherTypesAreShared`, `AnswersStayInTheirDay` | the five invariants of Aggregate |
| `AnswersAreNeverStale`, `EntriesGoBackLittle` | its two action properties |
| `AggregateImplementsAnswers` | `Spec => AnswersKept` |
| `LatestTypeCorrect`, `LatestLeavesNothingNewerOut` | `Spec => []TypeOK`, `Spec => []NothingNewerMissed` of Latest |
| `StoredSetsExpire` | `Spec => []SetsExpire` |
| `LatestImplementsUncached` | `Spec => CacheIsInvisible` |

*Flows.* None of the properties is inductive, since a definition can come back from three
places: a pipeline, the supervisor's `held`, a late create. `FlowsInv` says that all these
(`Around`) carry a name that fits the query (`NameFits`; a name that is both a topic's and a
user's tells nothing) and a table that exists, that `held` is the definition of the pipeline
`cur`, and that a late delete is of a pipeline that was created. Lemmas follow `Around`
through one call, one late request, one step of each goroutine; `StepAround` joins them.

*Losses.* `LossWithinFaults` alone is not inductive: a failed delete loses nothing at the
step that counts as the fault, only when it is executed. `LossInv` bounds what is *owed*
instead: the flows lost or threatened, by a late delete or by a restart whose delete may
have been executed. Each step adds at most one to it, and only with a fault.

*Refinement.* Every step leaves the kept flows alone, adds one, or drops one within the
bound `LossInv` gives, so it is a step of `Catalog` or a stutter.

*Jobs.* What may be deleted is not only the pipeline in the supervisor's hands: a late
delete is of one it held earlier. `JudgedInv` says that none of all these (`Condemned`)
runs, if operators resume no jobs. `ParallelismInv` follows a definition's parallelism
wherever the definition is.

*Copies.* A count of live pipelines alone is not inductive. `Weight(t)` adds up the live
copies of a topic's flow, the late creates, the one in the supervisor's hands, and one if
the watcher will create it (the topic is unknown to it); `CopiesInv` bounds it by one more
than the faults. A restart moves weight from place to place, and only a fault adds to it.
`TopicsHaveTheirFlow` needs no invariant of its own: without a fault `CopiesWithinFaults`
leaves at most one copy, and `LossInv` at least one. The same counting lemmas, stated for
any query, prove `JobsAreNotMultiplied`: every step but `RunJob` is `Steady` for the users'
query, so stock and hand together do not grow, whether or not the step fails.

*Scans.* What is counted is `Unserved`: the listed topics that are neither known nor still
to be looked at nor in work. A successful list empties it, and after that only a call that
ends in an error adds to it, one topic for one fault (`ScanInv`).

*Registry.* `Good(r)` describes one request: nothing of it is anywhere before its insert;
nothing of a sensor without its row; late writes mean a failure; and (`Sound`) what each
stage has achieved, but for the calls that failed. With `BrokerTrue` (EMQX's users belong to
stored sensors of that user name) it is inductive. A step of one request changes nothing of
another (`Frame`, `SameStaysGood`), so each action has one lemma about its own request. The
same lemmas carry the refinement: a step of one request changes one entry of `Statuses`
(`StatusChanges`), and `Good` gives what `Directory` asks of a write or an answer. Here
`Good` must say that index rows, credentials and late writes belong to a stored *sensor*;
without it a late write of a field's would have nothing to map to.

*Aggregate.* An answer is as good as the request that computed it, which may have ended long
ago. `ServiceInv` says of every entry, every late `Set` and every answer that some request
made it (`Made`): it bears that request's `now`, covers its window, and is filed under its
day. For a request at work, `Scanned` says that what it has read so far holds all readings
due in the buckets passed. Readings that arrive later cannot disturb this (`DueIsSettled`),
as they arrive no earlier than `now`. The two bounds on age come from `InTime` and from the
`until` and `by` of entries and late `Set`s. For the refinement, each step of the handler is
a step of `Answers` or a stutter.

*Latest.* The heart is a fact on finite sets, proved without induction (`NewestAreNewer`):
the rank of a reading (how many come after it) is an injection into the numbers below the
size of the set, hence a bijection, so that whatever is not among the N newest has exactly N
newer ones. `LatestInv` adds that no sorted set lies under a key that is fetched, so every
answer is the table's. `LatestImplementsUncached` is then a matter of steps: a fetch finds
nothing and is a stutter, the query is `Read`, by the same fact on finite sets, and storing
changes neither status nor answer. `ExpiryInv` makes `SetsExpire` inductive: a request whose
call failed has begun, so the key it stores under, which is taken from its first moment, is
settled, and no witness is lost to another request's commands.

Only model-checked: the liveness properties `TopicGetsFlow` and `FailedIsRestarted`. They
rest on fairness, so on ENABLED, which the prover does not reason about; what is proved of
them is their safety part, that no topic is passed over but by a fault
(`ScansServeWithinFaults`) and that no flow is lost but by one (`LossesAreBounded`).

## 5. Not modelled

The services themselves, beyond what the client code distinguishes; the environment checks
at start, which run before anything else and end the process; the connection tables' schema
and the profile ids put into it; HTTP request validation (no state, first in each handler);
reads without state (`/fields`, `/sensors`, `/jobs`, ...) other than as the operators
`GetFieldsByUserID`, `GetSensorsByFieldID` and `GetSensorCredentials`; average, minimum and
maximum of an aggregate's readings (pure functions of `rows`); metrics, tracing, logging,
formatting. `ListPipelines` writes a second body after its error reply (`pipelines.go:40`):
a single sequential path without state, which is listed among the hazards and has no
property.

There is no liveness property of the requests: each is a fixed sequence of calls with a time
limit each, so that it ends needs no argument beyond the limits.

## 6. Plan

1. Done: `ArroyoApi`, `Watcher`, `Supervisor`, `Pipelines`, `Catalog`, `Registry`,
   `Directory`, `Readings`, `Answers`, `Aggregate`, `Latest`, `Uncached`, the runs above, and
   the proofs of all their safety properties and of the four refinements.
2. Left: `Latest` with both keys made equal, if the code is changed so; more than one sensor
   in `Latest`, if the handler stops naming one; what an answer of `/aggregate` may say of
   the readings filed under a day that is not theirs.
