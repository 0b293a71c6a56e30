------------------------------- MODULE Latest -------------------------------
(***************************************************************************)
(* GET /latest: latestHandler in internal/routes, GetLast5Values in        *)
(* internal/db, and Store / FetchLast of the cache drivers.  Valkey keeps  *)
(* a sorted set for a key: its members are the readings' values, their     *)
(* scores the timestamps.  Memcached's two operations do nothing.          *)
(*                                                                         *)
(* The handler knows one sensor and reads its temperatures; Readings are   *)
(* those of this sensor.  Fetch key and store key are formatted            *)
(* differently ("2006-01-02", and the time with its zone), which is        *)
(* represented by their field format.                                      *)
(***************************************************************************)
EXTENDS Readings, FiniteSets

CONSTANTS
    Requests,    \* the requests that may arrive
    N,           \* how many readings are asked for: 5 in the code
    Driver,      \* "valkey" or "memcached"
    Zone,        \* the server's local time is UTC plus this
    Life,        \* the life Expire gives to a sorted set
    Grain,       \* a value is rounded to a multiple of this
    MaxClock     \* bound on the time that passes

\* A timestamp occurs once in a bucket, as the tables' key demands.
ASSUME LatestAssumption ==
    /\ N \in Nat \ {0}
    /\ Driver \in {"valkey", "memcached"}
    /\ Zone \in Int
    /\ Life \in Nat
    /\ Grain \in Nat \ {0}
    /\ MaxClock \in Nat
    /\ \A r \in Readings : r.value \in Int
    /\ \A r, s \in Readings : r.at = s.at /\ r.day = s.day => r = s

VARIABLES
    pc,          \* what each request's goroutine does next, or how it ended
    began,       \* when it began
    res,         \* the readings it found
    todo,        \* those it has yet to store in the cache
    cache,       \* the sorted sets, at most one for a key
    slipped      \* history: the requests one of whose calls to store has failed

request == <<pc, began, res, todo>>
vars == <<readings, request, cache, slipped>>

-----------------------------------------------------------------------------
\* "%.4f": the nearest multiple.
Rounded(v) == ((2 * v + Grain) \div (2 * Grain)) * Grain

Entry(r) == [at |-> r.at, value |-> Rounded(r.value)]

\* The n entries of greatest timestamp.
Newest(entries, n) ==
    {e \in entries : Cardinality({f \in entries : f.at > e.at}) < n}

\* The handler takes its own local date for the UTC bucket date.
Today(q) == DayOf(began[q] + Zone)

FetchKey(q) == [format |-> "date", day |-> Today(q)]

\* Faulty variant of StoreKey: formatted like the key that is fetched.
StoreKeyAsFetched(q) == [format |-> "date", day |-> Today(q)]

StoreKey(q) == [format |-> "time", day |-> Today(q)]

Live(z) == z.until = Never \/ clock < z.until

Sets(key) == {z \in cache : z.key = key /\ Live(z)}

Members(key) == UNION {z.members : z \in Sets(key)}

Init ==
    /\ clock = 0
    /\ arrived = [r \in Readings |-> Never]
    /\ pc = [q \in Requests |-> "idle"]
    /\ began = [q \in Requests |-> 0]
    /\ res = [q \in Requests |-> {}]
    /\ todo = [q \in Requests |-> {}]
    /\ cache = {}
    /\ slipped = {}

Goto(q, label) == pc' = [pc EXCEPT ![q] = label]

-----------------------------------------------------------------------------
Start(q) ==
    /\ pc[q] = "idle"
    /\ began' = [began EXCEPT ![q] = clock]
    /\ Goto(q, "fetch")
    /\ UNCHANGED <<readings, res, todo, cache, slipped>>

\* ZREVRANGE 0 n-1.  "Less than 5, cache is stale".
FetchLast(q) ==
    /\ pc[q] = "fetch"
    /\ res' = [res EXCEPT ![q] = Newest(Members(FetchKey(q)), N)]
    /\ Goto(q, IF Cardinality(res'[q]) < N THEN "query" ELSE "ok")
    /\ UNCHANGED <<readings, began, todo, cache, slipped>>

\* A cache that does not answer is not got around: the request fails.
FetchFails(q) ==
    /\ pc[q] = "fetch"
    /\ Driver = "valkey"
    /\ Goto(q, "error")
    /\ UNCHANGED <<readings, began, res, todo, cache, slipped>>

GetLast5Values(q) ==
    /\ pc[q] = "query"
    /\ res' = [res EXCEPT ![q] =
                 {Entry(r) : r \in Newest({s \in Stored : s.day = Today(q)}, N)}]
    /\ todo' = [todo EXCEPT ![q] = res'[q]]
    /\ Goto(q, "store")
    /\ UNCHANGED <<readings, began, cache, slipped>>

QueryFails(q) ==
    /\ pc[q] = "query"
    /\ Goto(q, "error")
    /\ UNCHANGED <<readings, began, res, todo, cache, slipped>>

\* The sorted set of a key becomes members, to expire at until.
PutSet(key, members, until) ==
    cache' = {z \in cache : z.key # key}
                \cup {[key |-> key, members |-> members, until |-> until]}

\* Faulty variant of ZAdd: value and timestamp together are the member.
ZAddPairs(members, e) == members \cup {e}

\* ZADD: a member that is there gets the new score.
ZAdd(members, e) == {m \in members : m.value # e.value} \cup {e}

\* ZADD leaves the time at which a set expires; a set that is new has none.
Expiry(key) == IF Sets(key) = {} THEN Never ELSE (CHOOSE z \in Sets(key) : TRUE).until

Slips(q) == slipped' = IF Driver = "valkey" THEN slipped \cup {q} ELSE slipped

\* Faulty variant of Store: EXPIRE before ZADD.
StoreExpiringFirst(q) ==
    /\ pc[q] = "store"
    /\ todo[q] # {}
    /\ Driver = "valkey"
    /\ LET e == CHOOSE f \in Newest(todo[q], 1) : TRUE
           key == StoreKey(q)
       IN  /\ todo' = [todo EXCEPT ![q] = @ \ {e}]
           /\ PutSet(key, ZAdd(Members(key), e),
                     IF Sets(key) = {} THEN Never ELSE clock + Life)
    /\ UNCHANGED <<readings, pc, began, res, slipped>>

\* One round of the loop over res, newest first.  EXPIRE follows a ZADD that is
\* answered; otherwise, whether it was executed or not, the next round.  The handler
\* does not look at the error.
Store(q) ==
    /\ pc[q] = "store"
    /\ todo[q] # {}
    /\ LET e == CHOOSE f \in Newest(todo[q], 1) : TRUE
           key == StoreKey(q)
       IN  /\ todo' = [todo EXCEPT ![q] = @ \ {e}]
           /\ \/ UNCHANGED <<pc, cache>> /\ Slips(q)
              \/ /\ Driver = "valkey"
                 /\ PutSet(key, ZAdd(Members(key), e), Expiry(key))
                 /\ \/ Goto(q, "expire") /\ UNCHANGED slipped
                    \/ Slips(q) /\ UNCHANGED pc
    /\ UNCHANGED <<readings, began, res>>

\* EXPIRE, which does nothing to a set that is gone, and may fail.
Expire(q) ==
    /\ pc[q] = "expire"
    /\ Goto(q, "store")
    /\ \/ /\ cache' = {IF z \in Sets(StoreKey(q)) THEN [z EXCEPT !.until = clock + Life]
                       ELSE z : z \in cache}
          /\ UNCHANGED slipped
       \/ slipped' = slipped \cup {q} /\ UNCHANGED cache
    /\ UNCHANGED <<readings, began, res, todo>>

Reply(q) ==
    /\ pc[q] = "store"
    /\ todo[q] = {}
    /\ Goto(q, "ok")
    /\ UNCHANGED <<readings, began, res, todo, cache, slipped>>

Tick ==
    /\ clock < MaxClock
    /\ clock' = clock + 1
    /\ UNCHANGED <<arrived, request, cache, slipped>>

Arrive == \E r \in Readings : Insert(r) /\ UNCHANGED <<request, cache, slipped>>

Serve(q) ==
    \/ Start(q) \/ FetchLast(q) \/ FetchFails(q) \/ GetLast5Values(q)
    \/ QueryFails(q) \/ Store(q) \/ Expire(q) \/ Reply(q)

Next ==
    \/ Tick
    \/ Arrive
    \/ \E q \in Requests : Serve(q)

Spec == Init /\ [][Next]_vars

-----------------------------------------------------------------------------
Entries == {Entry(r) : r \in Readings}

\* The goroutines' state and the sorted sets have their types, and no set holds a
\* value twice.
TypeOK ==
    /\ ReadingsTypeOK
    /\ pc \in [Requests -> {"idle", "fetch", "query", "store", "expire", "ok", "error"}]
    /\ began \in [Requests -> Int]
    /\ res \in [Requests -> SUBSET Entries]
    /\ todo \in [Requests -> SUBSET Entries]
    /\ cache \subseteq [key: [format: {"date", "time"}, day: Int],
                       members: SUBSET Entries,
                       until: Int \cup {Never}]
    /\ \A z \in cache : \A d, e \in z.members : d.value = e.value => d = e
    /\ \A y, z \in cache : y.key = z.key => y = z
    /\ slipped \subseteq Requests

\* A reading that had arrived when the request began is in the answer, unless N
\* later ones are.
Shown(q, r) ==
    \/ Entry(r) \in res[q]
    \/ Cardinality({e \in res[q] : e.at > r.at}) = N

\* No answer leaves out a reading of the day in favour of older ones, although the
\* sorted sets are never emptied when readings arrive: what the handler stores under
\* one key it does not read under the other, so every answer comes from the table.
NothingNewerMissed ==
    \A q \in Requests : pc[q] = "ok" =>
        \A r \in Stored : arrived[r] < began[q] /\ r.day = Today(q) => Shown(q, r)

\* A sorted set expires within Life of now, or a request is about to see to that, or
\* a call of one that stores under its key has failed: concurrent requests for a key,
\* and sets that expire between ZADD and EXPIRE, leave no other set for ever (Store
\* in valkey.go, whose two commands are not one transaction).
SetsExpire ==
    \A z \in cache :
        \/ z.until # Never /\ z.until <= clock + Life
        \/ \E q \in Requests : StoreKey(q) = z.key /\ (pc[q] = "expire" \/ q \in slipped)

\* "get 5 latest values": of all days.  Does not hold, as only the bucket of the
\* current day is read.
LatestOfAllDays ==
    \A q \in Requests : pc[q] = "ok" =>
        \A r \in Stored : arrived[r] < began[q] => Shown(q, r)

\* "FetchLast retrieves the N most recent entries from a sorted cache": what it
\* returns does not change when an older entry is stored.  Does not hold, as an
\* entry takes the place of one with the same value.
OlderLeaveRecentAlone ==
    [][\A z \in cache, y \in cache' : \A e \in Newest(z.members, N) :
          z.key = y.key /\ Live(z) /\ (\A f \in y.members \ z.members : f.at < e.at)
              => e \in y.members]_vars

-----------------------------------------------------------------------------
Progress ==
    [q \in Requests |->
        CASE pc[q] = "idle"                 -> "new"
          [] pc[q] \in {"fetch", "query"}   -> "asked"
          [] pc[q] \in {"store", "expire"} -> "found"
          [] OTHER                          -> pc[q]]

Plain == INSTANCE Uncached
           WITH status <- Progress,
                found <- [q \in Requests |-> IF pc[q] \in {"store", "expire", "ok"} THEN res[q] ELSE {}],
                Form <- [r \in Readings |-> Entry(r)]

\* Whatever the cache holds, loses or refuses, and whatever concurrent requests have
\* stored in it, a request is answered as if there were none: with the newest N of
\* its day that the table held at one moment after it began, or with an error
\* (latestHandler, Store, FetchLast, GetLast5Values).
CacheIsInvisible == Plain!Spec
=============================================================================
