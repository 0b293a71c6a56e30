--------------------------- MODULE AggregateProofs --------------------------
(***************************************************************************)
(* Proofs about Aggregate, for any readings, requests, windows and times.  *)
(***************************************************************************)
EXTENDS Aggregate, TLAPS

-----------------------------------------------------------------------------
(* Days. *)

\* Every time lies in a day (DayOf, the truncation to 00:00 UTC in GetReadings).
LEMMA DayIsInt ==
    ASSUME NEW t \in Int
    PROVE  DayOf(t) \in Int
BY ReadingsAssumption DEF DayOf

\* A later time is not of an earlier day: no bucket of the window lies outside the
\* loop of GetReadings.
LEMMA DaysAreOrdered ==
    ASSUME NEW s \in Int, NEW t \in Int, s <= t
    PROVE  DayOf(s) <= DayOf(t)
<1> DEFINE m == DayOf(s)
           n == DayOf(t)
<1>1. m \in Int /\ n \in Int
  BY DayIsInt
<1>2. Day * m <= s /\ s < Day * m + Day /\ Day * n <= t /\ t < Day * n + Day
  BY ReadingsAssumption DEF DayOf
<1>3. SUFFICES ASSUME n < m PROVE FALSE
  BY <1>1
<1>4. Day * n + Day <= Day * m
  <2>1. m - n >= 1
    BY <1>1, <1>3
  <2>2. Day * (m - n) >= Day
    BY <2>1, <1>1, ReadingsAssumption
  <2>. QED
    BY <2>2, <1>1, ReadingsAssumption
<1>. QED
  BY <1>1, <1>2, <1>4, ReadingsAssumption

-----------------------------------------------------------------------------
(* Types. *)

\* What a handler derives from its request and its now.
LEMMA DerivedTypes ==
    ASSUME TypeOK, NEW q \in Requests
    PROVE  /\ arg[q] \in Args
           /\ arg[q].window \in Int
           /\ now[q] \in Int
           /\ From(q) \in Int
           /\ DayOf(From(q)) \in Int
           /\ DayOf(now[q]) \in Int
           /\ Key(q) \in CacheKey
           /\ Computed(q) \in Agg
<1>1. arg[q] \in Args /\ now[q] \in Int /\ rows[q] \in SUBSET Readings
  BY DEF TypeOK, Stored
<1>2. arg[q].window \in Int
  BY <1>1, AggregateAssumption DEF Argument
<1>3. From(q) \in Int
  BY <1>1, <1>2 DEF From
<1>4. DayOf(From(q)) \in Int /\ DayOf(now[q]) \in Int
  BY <1>1, <1>3, DayIsInt
<1>5. Key(q) \in CacheKey
  BY <1>1, <1>2, <1>4 DEF Key, CacheKey
<1>6. Computed(q) \in Agg
  BY <1>1 DEF Computed, Agg
<1>. QED
  BY <1>1, <1>2, <1>3, <1>4, <1>5, <1>6

\* A Set leaves one entry for its key.
LEMMA SetTyped ==
    ASSUME TypeOK, NEW key \in CacheKey, NEW agg \in Agg, Set(key, agg)
    PROVE  /\ cache' \subseteq [key: CacheKey, agg: Agg, until: Int]
           /\ \A e, f \in cache' : e.key = f.key => e = f
<1>1. clock + TTL \in Int
  BY AggregateAssumption DEF TypeOK, ReadingsTypeOK
<1>. QED
  BY <1>1 DEF TypeOK, Set

\* Readings are only added, and with the time of their arrival.
LEMMA InsertTyped ==
    ASSUME ReadingsTypeOK, NEW r \in Readings, Insert(r)
    PROVE  /\ ReadingsTypeOK'
           /\ Stored' = Stored \cup {r}
<1>1. clock # Never
  BY ReadingsAssumption DEF ReadingsTypeOK
<1>2. arrived' = [arrived EXCEPT ![r] = clock] /\ clock' = clock
  BY DEF Insert
<1>3. Stored' = Stored \cup {r}
  BY <1>1, <1>2 DEF Stored, ReadingsTypeOK
<1>. QED
  BY <1>2, <1>3 DEF ReadingsTypeOK, Stored

\* TypeOK is inductive.
LEMMA TypeStep ==
    ASSUME TypeOK, [Next]_vars
    PROVE  TypeOK'
<1>. DEFINE Untouched == UNCHANGED readings /\ ReadingsTypeOK' /\ Stored' = Stored
<1>1. CASE Tick
  <2>1. ReadingsTypeOK' /\ Stored' = Stored
    BY <1>1 DEF Tick, TypeOK, ReadingsTypeOK, Stored
  <2>. QED
    BY <1>1, <2>1 DEF Tick, TypeOK, request
<1>2. CASE Arrive
  <2>1. PICK r \in Readings : Insert(r) /\ UNCHANGED <<request, cache, late>>
    BY <1>2 DEF Arrive
  <2>2. ReadingsTypeOK' /\ Stored' = Stored \cup {r}
    BY <2>1, InsertTyped DEF TypeOK
  <2>3. rows' \in [Requests -> SUBSET Stored']
    BY <2>1, <2>2 DEF TypeOK, request
  <2>. QED
    BY <2>1, <2>2, <2>3 DEF TypeOK, request
<1>0. ASSUME UNCHANGED readings PROVE ReadingsTypeOK' /\ Stored' = Stored
  BY <1>0 DEF readings, TypeOK, ReadingsTypeOK, Stored
<1>3. CASE LateSet
  <2>1. PICK s \in late : Set(s.key, s.agg) /\ late' = late \ {s} /\ UNCHANGED <<readings, request>>
    BY <1>3 DEF LateSet
  <2>2. /\ cache' \subseteq [key: CacheKey, agg: Agg, until: Int]
        /\ \A e, f \in cache' : e.key = f.key => e = f
    BY <2>1, SetTyped DEF TypeOK
  <2>. QED
    BY <2>1, <2>2, <1>0 DEF TypeOK, request
<1>4. ASSUME NEW q \in Requests, Serve(q) PROVE TypeOK'
  <2>1. UNCHANGED readings /\ ReadingsTypeOK' /\ Stored' = Stored
    BY <1>0, <1>4 DEF Serve, Start, Hit, Miss, QueryBucket, QueryFails, Compute, StoreAggregate
  <2>2. CASE Start(q)
    BY <2>1, <2>2 DEF TypeOK, ReadingsTypeOK, Start, Goto, Waiting
  <2>3. CASE Hit(q)
    BY <2>1, <2>3 DEF TypeOK, Hit, Goto, Ended
  <2>4. CASE Miss(q)
    BY <2>1, <2>4, DerivedTypes DEF TypeOK, Miss, Goto, Waiting
  <2>5. CASE QueryBucket(q)
    <3>1. rows' \in [Requests -> SUBSET Stored]
      BY <2>5 DEF TypeOK, QueryBucket, InWindow
    <3>. QED
      BY <2>1, <2>5, <3>1 DEF TypeOK, QueryBucket
  <2>6. CASE QueryFails(q)
    BY <2>1, <2>6 DEF TypeOK, QueryFails, Goto, Ended
  <2>7. CASE Compute(q)
    BY <2>1, <2>7 DEF TypeOK, Compute, Goto, Waiting, Ended
  <2>8. CASE StoreAggregate(q)
    <3>1. /\ cache' \subseteq [key: CacheKey, agg: Agg, until: Int]
          /\ \A e, f \in cache' : e.key = f.key => e = f
      BY <2>8, SetTyped, DerivedTypes DEF StoreAggregate, TypeOK
    <3>2. clock + SetLag \in Int
      BY AggregateAssumption DEF TypeOK, ReadingsTypeOK
    <3>3. late' \subseteq [key: CacheKey, agg: Agg, by: Int]
      BY <2>8, <3>2, DerivedTypes DEF StoreAggregate, TypeOK
    <3>4. answer' \in [Requests -> Agg \cup {NoAnswer}] /\ pc' \in [Requests -> Waiting \cup Ended \cup {"idle"}]
      BY <2>8, DerivedTypes DEF StoreAggregate, TypeOK, Goto, Ended
    <3>. QED
      BY <2>1, <2>8, <3>1, <3>3, <3>4 DEF TypeOK, StoreAggregate
  <2>. QED
    BY <1>4, <2>2, <2>3, <2>4, <2>5, <2>6, <2>7, <2>8 DEF Serve
<1>5. CASE UNCHANGED vars
  BY <1>0, <1>5 DEF TypeOK, vars, request
<1>. QED
  BY <1>1, <1>2, <1>3, <1>4, <1>5 DEF Next

\* Initially nothing has arrived, nothing is asked and nothing is cached.
LEMMA TypeInit ==
    ASSUME Init
    PROVE  TypeOK
<1>1. Stored = {}
  BY DEF Init, Stored
<1>. QED
  BY <1>1 DEF Init, TypeOK, ReadingsTypeOK

\* Every reachable state of the handlers, the cache and the Sets under way is well
\* typed, and a key has one entry.
THEOREM AggregateTypeCorrect == Spec => []TypeOK
<1>. QED
  BY TypeInit, TypeStep, PTL DEF Spec

-----------------------------------------------------------------------------
(* What lies between the handlers' now and what they answer. *)

\* A request that has begun did so in the past; while it works, not long ago.
InTime ==
    \A q \in Requests :
        /\ pc[q] # "idle" => now[q] <= clock
        /\ pc[q] \in Waiting => clock <= now[q] + Patience

\* Before its first bucket a request has no rows; after it, the window's of every
\* bucket before the next; at the end, all that were due.
Scanned(q) ==
    /\ pc[q] \in {"idle", "fetch"} => rows[q] = {}
    /\ pc[q] \in {"query", "store"} =>
          rows[q] \subseteq InWindow(arg[q].sensor, arg[q].type, From(q), now[q])
    /\ pc[q] = "query" =>
          \A r \in Due(arg[q].sensor, arg[q].type, From(q), now[q], now[q]) :
              r.day < day[q] => r \in rows[q]
    /\ pc[q] = "store" =>
          /\ rows[q] # {}
          /\ Due(arg[q].sensor, arg[q].type, From(q), now[q], now[q]) \subseteq rows[q]
    /\ pc[q] = "notfound" =>
          Due(arg[q].sensor, arg[q].type, From(q), now[q], now[q]) = {}

\* agg is what request p computed, and may be kept under key.
MadeBy(p, agg, key) ==
    /\ pc[p] # "idle"
    /\ agg.at = now[p]
    /\ agg.rows # {}
    /\ Covers(agg, arg[p].sensor, arg[p].type, arg[p].window)
    /\ key.sensor = arg[p].sensor
    /\ key.window = arg[p].window
    /\ key.day = DayOf(agg.at)

Made(agg, key) == \E p \in Requests : MadeBy(p, agg, key)

EntriesMade ==
    /\ \A e \in cache : Made(e.agg, e.key) /\ e.until <= e.agg.at + MaxAge
    /\ \A s \in late : Made(s.agg, s.key) /\ clock <= s.by /\ s.by <= s.agg.at + Patience + SetLag
    /\ \A q \in Requests : pc[q] = "ok" => Made(answer[q], Key(q))

ServiceInv == TypeOK /\ InTime /\ (\A q \in Requests : Scanned(q)) /\ EntriesMade

\* Due does not change when more readings arrive: they come too late.
LEMMA DueIsSettled ==
    ASSUME TypeOK, NEW r \in Readings, Insert(r),
           NEW s, NEW t, NEW from, NEW to, NEW moment \in Int, moment <= clock
    PROVE  /\ Due(s, t, from, to, moment)' = Due(s, t, from, to, moment)
           /\ InWindow(s, t, from, to) \subseteq InWindow(s, t, from, to)'
<1>1. Stored' = Stored \cup {r} /\ arrived'[r] = clock
  BY InsertTyped DEF TypeOK, Insert, ReadingsTypeOK
<1>2. \A x \in Stored : arrived'[x] = arrived[x]
  BY DEF Insert, Stored, TypeOK, ReadingsTypeOK
<1>3. InWindow(s, t, from, to)' =
        {x \in Stored' : x.sensor = s /\ x.type = t /\ from <= x.at /\ x.at <= to}
  BY DEF InWindow
<1>4. InWindow(s, t, from, to) \subseteq InWindow(s, t, from, to)'
  BY <1>1, <1>3 DEF InWindow
<1>5. \A x \in InWindow(s, t, from, to)' : x \in InWindow(s, t, from, to) \/ x = r
  BY <1>1, <1>3 DEF InWindow
<1>6. ~(arrived'[r] < moment)
  BY <1>1 DEF TypeOK, ReadingsTypeOK
<1>7. Due(s, t, from, to, moment)' =
        {x \in InWindow(s, t, from, to)' : x.day = DayOf(x.at) /\ arrived'[x] < moment}
  BY DEF Due, DayOf
<1>8. InWindow(s, t, from, to) \subseteq Stored
  BY DEF InWindow
<1>. QED
  BY <1>2, <1>4, <1>5, <1>6, <1>7, <1>8 DEF Due

\* The program's own steps leave alone what was made: a request's arguments and now
\* are fixed once it has begun.
LEMMA MadeStays ==
    ASSUME UNCHANGED readings, UNCHANGED arg,
           \A p \in Requests : pc[p] # "idle" => pc'[p] # "idle" /\ now'[p] = now[p],
           NEW agg, NEW key, Made(agg, key)
    PROVE  Made(agg, key)'
<1>1. PICK p \in Requests : MadeBy(p, agg, key)
  BY DEF Made
<1>2. Stored' = Stored
  BY DEF readings, Stored
<1>3. Covers(agg, arg[p].sensor, arg[p].type, arg[p].window)'
  BY <1>1, <1>2 DEF MadeBy, Covers, InWindow, Due, DayOf, readings
<1>4. MadeBy(p, agg, key)'
  BY <1>1, <1>3 DEF MadeBy, DayOf
<1>. QED
  BY <1>4 DEF Made

\* And so do readings that arrive.
LEMMA MadeStaysOnInsert ==
    ASSUME TypeOK, InTime, NEW r \in Readings, Insert(r), UNCHANGED request,
           NEW agg, NEW key, Made(agg, key)
    PROVE  Made(agg, key)'
<1>1. PICK p \in Requests : MadeBy(p, agg, key)
  BY DEF Made
<1>2. agg.at \in Int /\ agg.at <= clock /\ arg' = arg
  BY <1>1 DEF MadeBy, InTime, TypeOK, request
<1>3. /\ Due(arg[p].sensor, arg[p].type, agg.at - arg[p].window, agg.at, agg.at)' =
            Due(arg[p].sensor, arg[p].type, agg.at - arg[p].window, agg.at, agg.at)
      /\ InWindow(arg[p].sensor, arg[p].type, agg.at - arg[p].window, agg.at) \subseteq
            InWindow(arg[p].sensor, arg[p].type, agg.at - arg[p].window, agg.at)'
  <2>1. PICK s, t, f : s = arg[p].sensor /\ t = arg[p].type /\ f = agg.at - arg[p].window
    OBVIOUS
  <2>2. /\ Due(s, t, f, agg.at, agg.at)' = Due(s, t, f, agg.at, agg.at)
        /\ InWindow(s, t, f, agg.at) \subseteq InWindow(s, t, f, agg.at)'
    BY <1>2, DueIsSettled
  <2>3. InWindow(s, t, f, agg.at)' =
          InWindow(arg[p].sensor, arg[p].type, agg.at - arg[p].window, agg.at)'
    BY <1>2, <2>1 DEF InWindow
  <2>4. Due(s, t, f, agg.at, agg.at)' =
          Due(arg[p].sensor, arg[p].type, agg.at - arg[p].window, agg.at, agg.at)'
    BY <2>3 DEF Due
  <2>. QED
    BY <2>1, <2>2, <2>3, <2>4
<1>4. arg' = arg /\ pc' = pc /\ now' = now
  BY DEF request
<1>5. Covers(agg, arg[p].sensor, arg[p].type, arg[p].window)'
  BY <1>1, <1>3, <1>4 DEF MadeBy, Covers
<1>6. MadeBy(p, agg, key)'
  BY <1>1, <1>4, <1>5 DEF MadeBy, DayOf
<1>. QED
  BY <1>6 DEF Made

\* Scanned(q) depends on nothing but the readings and q's own state.
LEMMA ScannedStays ==
    ASSUME UNCHANGED readings, NEW q \in Requests, Scanned(q),
           arg'[q] = arg[q], pc'[q] = pc[q], now'[q] = now[q],
           day'[q] = day[q], rows'[q] = rows[q]
    PROVE  Scanned(q)'
<1>1. Stored' = Stored
  BY DEF readings, Stored
<1>. QED
  BY <1>1 DEF Scanned, From, InWindow, Due, DayOf, readings

\* What a request has scanned is still what it must have when more arrive.
LEMMA ScannedStaysOnInsert ==
    ASSUME TypeOK, InTime, NEW r \in Readings, Insert(r), UNCHANGED request,
           NEW q \in Requests, Scanned(q)
    PROVE  Scanned(q)'
<1>1. arg' = arg /\ pc' = pc /\ now' = now /\ day' = day /\ rows' = rows
  BY DEF request
<1>2. CASE pc[q] = "idle"
  BY <1>1, <1>2 DEF Scanned
<1>3. CASE pc[q] # "idle"
  <2>1. now[q] \in Int /\ now[q] <= clock
    BY <1>3 DEF InTime, TypeOK
  <2>2. PICK s, t, f, m : s = arg[q].sensor /\ t = arg[q].type /\ f = From(q) /\ m = now[q]
    OBVIOUS
  <2>3. /\ Due(s, t, f, m, m)' = Due(s, t, f, m, m)
        /\ InWindow(s, t, f, m) \subseteq InWindow(s, t, f, m)'
    BY <2>1, <2>2, DueIsSettled
  <2>4. From(q)' = From(q)
    BY <1>1 DEF From
  <2>5. InWindow(s, t, f, m)' = InWindow(arg[q].sensor, arg[q].type, From(q), now[q])'
    BY <1>1, <2>2, <2>4 DEF InWindow
  <2>6. Due(s, t, f, m, m)' = Due(arg[q].sensor, arg[q].type, From(q), now[q], now[q])'
    BY <1>1, <2>2, <2>5 DEF Due
  <2>. QED
    BY <2>2, <2>3, <2>5, <2>6, <1>1 DEF Scanned
<1>. QED
  BY <1>2, <1>3

\* A step of one request disturbs no other request and nothing that was made.
LEMMA ServeFrame ==
    ASSUME ServiceInv, NEW q \in Requests, Serve(q)
    PROVE  /\ UNCHANGED readings /\ UNCHANGED arg
           /\ \A p \in Requests \ {q} : /\ pc'[p] = pc[p] /\ now'[p] = now[p]
                                        /\ answer'[p] = answer[p]
                                        /\ Scanned(p)' /\ Key(p)' = Key(p)
           /\ \A agg, key : Made(agg, key) => Made(agg, key)'
           /\ InTime'
<1>1. UNCHANGED readings /\ UNCHANGED arg
  BY DEF Serve, Start, Hit, Miss, QueryBucket, QueryFails, Compute, StoreAggregate
<1>2. /\ pc' = [pc EXCEPT ![q] = pc'[q]] /\ now' = [now EXCEPT ![q] = now'[q]]
      /\ day' = [day EXCEPT ![q] = day'[q]] /\ rows' = [rows EXCEPT ![q] = rows'[q]]
      /\ answer' = [answer EXCEPT ![q] = answer'[q]]
      /\ pc'[q] # "idle"
      /\ pc[q] # "idle" => now'[q] = now[q]
  BY DEF ServiceInv, TypeOK, Serve, Start, Hit, Miss, QueryBucket, QueryFails, Compute,
         StoreAggregate, Goto
<1>3. \A p \in Requests \ {q} : /\ pc'[p] = pc[p] /\ now'[p] = now[p] /\ day'[p] = day[p]
                                /\ rows'[p] = rows[p] /\ answer'[p] = answer[p]
  BY <1>2 DEF ServiceInv, TypeOK
<1>4. \A p \in Requests \ {q} : Scanned(p)'
  BY <1>1, <1>3, ScannedStays DEF ServiceInv
<1>5. \A p \in Requests \ {q} : Key(p)' = Key(p)
  BY <1>1, <1>3 DEF Key, DayOf
<1>6. \A p \in Requests : pc[p] # "idle" => pc'[p] # "idle" /\ now'[p] = now[p]
  BY <1>2, <1>3
<1>7. \A agg, key : Made(agg, key) => Made(agg, key)'
  BY <1>1, <1>6, MadeStays
<1>8. clock' = clock /\ clock \in Int /\ Patience \in Nat
  BY <1>1, AggregateAssumption DEF readings, ServiceInv, TypeOK, ReadingsTypeOK
<1>9. /\ now'[q] <= clock
      /\ pc'[q] \in Waiting => clock <= now'[q] + Patience
  <2>1. CASE Start(q)
    BY <2>1, <1>8 DEF Start, ServiceInv, TypeOK
  <2>2. CASE ~Start(q)
    <3>1. pc[q] \in Waiting /\ now' = now
      BY <2>2 DEF Serve, Hit, Miss, QueryBucket, QueryFails, Compute, StoreAggregate, Waiting
    <3>. QED
      BY <3>1 DEF ServiceInv, InTime, Waiting
  <2>. QED
    BY <2>1, <2>2
<1>10. InTime'
  BY <1>3, <1>8, <1>9 DEF InTime, ServiceInv
<1>. QED
  BY <1>1, <1>3, <1>4, <1>5, <1>7, <1>10

\* The loop of GetReadings: once every day of the window was queried, no reading
\* that was due is missing.
LEMMA LoopIsComplete ==
    ASSUME ServiceInv, NEW q \in Requests, pc[q] = "query", day[q] > DayOf(now[q])
    PROVE  Due(arg[q].sensor, arg[q].type, From(q), now[q], now[q]) \subseteq rows[q]
<1>. SUFFICES ASSUME NEW r \in Due(arg[q].sensor, arg[q].type, From(q), now[q], now[q])
              PROVE  r \in rows[q]
  OBVIOUS
<1>1. r \in Readings /\ r.at <= now[q] /\ r.day = DayOf(r.at)
  BY DEF Due, InWindow, Stored
<1>2. r.at \in Int /\ now[q] \in Int /\ day[q] \in Int
  BY <1>1, ReadingsAssumption DEF ServiceInv, TypeOK
<1>3. DayOf(r.at) <= DayOf(now[q]) /\ DayOf(r.at) \in Int /\ DayOf(now[q]) \in Int
  BY <1>1, <1>2, DaysAreOrdered, DayIsInt
<1>4. r.day < day[q]
  BY <1>1, <1>2, <1>3
<1>. QED
  BY <1>4 DEF ServiceInv, Scanned

\* And it starts no later than with the first day of the window.
LEMMA LoopStartsEarly ==
    ASSUME ServiceInv, NEW q \in Requests, 
           NEW r \in Due(arg[q].sensor, arg[q].type, From(q), now[q], now[q])
    PROVE  ~(r.day < DayOf(From(q)))
<1>1. r \in Readings /\ From(q) <= r.at /\ r.day = DayOf(r.at)
  BY DEF Due, InWindow, Stored
<1>2. r.at \in Int /\ From(q) \in Int
  BY <1>1, ReadingsAssumption, DerivedTypes DEF ServiceInv
<1>3. DayOf(From(q)) <= DayOf(r.at) /\ DayOf(r.at) \in Int /\ DayOf(From(q)) \in Int
  BY <1>1, <1>2, DaysAreOrdered, DayIsInt
<1>. QED
  BY <1>1, <1>3

\* The request that takes a step keeps its own part of the invariant.
LEMMA ServeScans ==
    ASSUME ServiceInv, NEW q \in Requests, Serve(q)
    PROVE  Scanned(q)'
<1>. DEFINE window == InWindow(arg[q].sensor, arg[q].type, From(q), now[q])
            due == Due(arg[q].sensor, arg[q].type, From(q), now[q], now[q])
<1>1. UNCHANGED readings /\ UNCHANGED arg /\ Stored' = Stored
  BY DEF Serve, Start, Hit, Miss, QueryBucket, QueryFails, Compute, StoreAggregate,
         readings, Stored
<1>2. CASE Start(q)
  BY <1>2 DEF Start, Goto, Scanned, ServiceInv, TypeOK
<1>3. ASSUME ~Start(q) PROVE window' = window /\ due' = due
  <2>1. now' = now
    BY <1>3 DEF Serve, Hit, Miss, QueryBucket, QueryFails, Compute, StoreAggregate
  <2>. QED
    BY <1>1, <2>1 DEF InWindow, Due, From, DayOf, readings
<1>4. CASE Hit(q) \/ QueryFails(q) \/ StoreAggregate(q)
  <2>1. pc'[q] \in {"ok", "error"}
    BY <1>4 DEF Hit, QueryFails, StoreAggregate, Goto, ServiceInv, TypeOK
  <2>. QED
    BY <2>1 DEF Scanned
<1>5. CASE Miss(q)
  <2>1. pc'[q] = "query" /\ rows'[q] = {} /\ day'[q] = DayOf(From(q)) /\ ~Start(q)
    BY <1>5 DEF Miss, Start, Goto, ServiceInv, TypeOK, Scanned
  <2>2. \A r \in due : ~(r.day < DayOf(From(q)))
    BY LoopStartsEarly
  <2>. QED
    BY <1>3, <2>1, <2>2 DEF Scanned
<1>6. CASE QueryBucket(q)
  <2>1. /\ pc'[q] = "query" /\ day'[q] = day[q] + 1 /\ ~Start(q) /\ pc[q] = "query"
        /\ rows'[q] = rows[q] \cup {r \in window : r.day = day[q]}
    BY <1>6 DEF QueryBucket, Start, ServiceInv, TypeOK
  <2>2. rows'[q] \subseteq window
    BY <2>1 DEF ServiceInv, Scanned
  <2>3. \A r \in due : r.day < day'[q] => r \in rows'[q]
    <3>1. TAKE r \in due
    <3>2. r \in window /\ r.day \in Int /\ day[q] \in Int
      BY ReadingsAssumption DEF Due, InWindow, Stored, ServiceInv, TypeOK
    <3>3. r.day < day[q] => r \in rows[q]
      BY <2>1 DEF ServiceInv, Scanned
    <3>. QED
      BY <2>1, <3>2, <3>3
  <2>. QED
    BY <1>3, <2>1, <2>2, <2>3 DEF Scanned
<1>7. CASE Compute(q)
  <2>1. /\ pc[q] = "query" /\ day[q] > DayOf(now[q]) /\ ~Start(q) /\ rows'[q] = rows[q]
        /\ pc'[q] = IF rows[q] = {} THEN "notfound" ELSE "store"
    BY <1>7 DEF Compute, Start, Goto, ServiceInv, TypeOK
  <2>2. due \subseteq rows[q]
    BY <2>1, LoopIsComplete
  <2>3. rows[q] \subseteq window
    BY <2>1 DEF ServiceInv, Scanned
  <2>. QED
    BY <1>3, <2>1, <2>2, <2>3 DEF Scanned
<1>. QED
  BY <1>2, <1>4, <1>5, <1>6, <1>7 DEF Serve

\* What a handler is about to store and answer is an aggregate of its request.
LEMMA ComputedIsMade ==
    ASSUME ServiceInv, NEW q \in Requests, pc[q] = "store"
    PROVE  Made(Computed(q), Key(q))
<1>1. /\ Computed(q).at = now[q] /\ Computed(q).rows = rows[q]
      /\ From(q) = now[q] - arg[q].window
  BY DEF Computed, From
<1>2. Covers(Computed(q), arg[q].sensor, arg[q].type, arg[q].window) /\ rows[q] # {}
  BY <1>1 DEF ServiceInv, Scanned, Covers
<1>3. MadeBy(q, Computed(q), Key(q))
  BY <1>1, <1>2 DEF MadeBy, Key
<1>. QED
  BY <1>3 DEF Made

\* What was made bears a time that has come.
LEMMA MadeInThePast ==
    ASSUME ServiceInv, NEW agg, NEW key, Made(agg, key)
    PROVE  agg.at \in Int /\ agg.at <= clock
BY DEF Made, MadeBy, ServiceInv, InTime, TypeOK

\* A Set executed not too late gives an entry that does not live too long.
LEMMA SetKeeps ==
    ASSUME ServiceInv, NEW key, NEW agg, Made(agg, key), Set(key, agg),
           clock <= agg.at + Patience + SetLag
    PROVE  \A e \in cache' : Made(e.agg, e.key) /\ e.until <= e.agg.at + MaxAge
<1>1. clock \in Int /\ agg.at \in Int
  BY MadeInThePast DEF ServiceInv, TypeOK, ReadingsTypeOK
<1>2. clock + TTL <= agg.at + MaxAge
  BY <1>1, AggregateAssumption DEF MaxAge
<1>3. \A e \in cache' : e \in cache \/ e = [key |-> key, agg |-> agg, until |-> clock + TTL]
  BY DEF Set
<1>. QED
  BY <1>2, <1>3 DEF ServiceInv, EntriesMade

\* Entries, late Sets and answers stay made by requests when a request steps.
LEMMA ServeMakes ==
    ASSUME ServiceInv, NEW q \in Requests, Serve(q)
    PROVE  EntriesMade'
<1>1. /\ clock' = clock /\ MaxAge' = MaxAge
      /\ \A p \in Requests \ {q} : pc'[p] = pc[p] /\ answer'[p] = answer[p] /\ Key(p)' = Key(p)
      /\ \A agg, key : Made(agg, key) => Made(agg, key)'
  BY ServeFrame DEF readings, MaxAge
<1>2. \A p \in Requests \ {q} : pc'[p] = "ok" => Made(answer[p], Key(p))'
  <2>1. \A p \in Requests \ {q} : pc[p] = "ok" => Made(answer[p], Key(p))
    BY DEF ServiceInv, EntriesMade
  <2>2. ASSUME NEW p \in Requests \ {q}, pc[p] = "ok" PROVE Made(answer[p], Key(p))'
    <3>1. PICK agg, key : agg = answer[p] /\ key = Key(p)
      OBVIOUS
    <3>2. Made(agg, key)'
      BY <1>1, <2>1, <2>2, <3>1
    <3>3. answer'[p] = agg /\ Key(p)' = key
      BY <1>1, <3>1
    <3>. QED
      BY <3>2, <3>3 DEF Made, MadeBy, Covers, DayOf
  <2>. QED
    BY <1>1, <2>2
<1>3. /\ \A e \in cache : Made(e.agg, e.key)' /\ e.until <= e.agg.at + MaxAge
      /\ \A s \in late : Made(s.agg, s.key)' /\ clock <= s.by /\ s.by <= s.agg.at + Patience + SetLag
  BY <1>1 DEF ServiceInv, EntriesMade
<1>4. CASE Hit(q)
  <2>1. cache' = cache /\ late' = late /\ Key(q)' = Key(q)
    BY <1>4 DEF Hit, Key, DayOf
  <2>2. PICK e \in cache : e.key = Key(q) /\ answer'[q] = e.agg
    BY <1>4 DEF Hit, ServiceInv, TypeOK
  <2>3. Made(answer[q], Key(q))'
    <3>1. PICK agg, key : agg = e.agg /\ key = e.key
      OBVIOUS
    <3>2. Made(agg, key)' /\ answer'[q] = agg /\ Key(q)' = key
      BY <1>3, <2>1, <2>2, <3>1
    <3>. QED
      BY <3>2 DEF Made, MadeBy, Covers, DayOf
  <2>. QED
    BY <1>1, <1>2, <1>3, <2>1, <2>3 DEF EntriesMade
<1>5. CASE StoreAggregate(q)
  <2>1. /\ Made(Computed(q), Key(q)) /\ Computed(q).at = now[q]
        /\ clock <= now[q] + Patience /\ clock \in Int /\ now[q] \in Int
    BY <1>5, ComputedIsMade DEF StoreAggregate, Computed, Waiting, ServiceInv, InTime, TypeOK,
       ReadingsTypeOK
  <2>2. PICK agg, key : agg = Computed(q) /\ key = Key(q)
    OBVIOUS
  <2>3. Made(agg, key) /\ Made(agg, key)' /\ clock <= agg.at + Patience + SetLag /\ agg.at = now[q]
    BY <1>1, <2>1, <2>2, AggregateAssumption
  <2>4. answer'[q] = agg /\ Key(q)' = key
    BY <1>5, <2>2 DEF StoreAggregate, ServiceInv, TypeOK, Key, DayOf
  <2>5. Made(answer[q], Key(q))'
    BY <2>3, <2>4 DEF Made, MadeBy, Covers, DayOf
  <2>6. \A e \in cache' : Made(e.agg, e.key)' /\ e.until <= e.agg.at + MaxAge
    <3>1. CASE Set(key, agg)
      BY <1>1, <2>3, <3>1, SetKeeps
    <3>2. CASE cache' = cache
      BY <1>3, <3>2
    <3>. QED
      BY <1>5, <2>2, <3>1, <3>2 DEF StoreAggregate
  <2>7. \A s \in late' : /\ Made(s.agg, s.key)' /\ clock <= s.by
                         /\ s.by <= s.agg.at + Patience + SetLag
    <3>1. \A s \in late' : s \in late \/ s = [key |-> key, agg |-> agg, by |-> clock + SetLag]
      BY <1>5, <2>2 DEF StoreAggregate
    <3>2. clock <= clock + SetLag /\ clock + SetLag <= agg.at + Patience + SetLag
      BY <2>1, <2>3, AggregateAssumption
    <3>. QED
      BY <1>3, <2>3, <3>1, <3>2
  <2>. QED
    BY <1>1, <1>2, <2>5, <2>6, <2>7 DEF EntriesMade
<1>6. CASE Start(q) \/ Miss(q) \/ QueryBucket(q) \/ QueryFails(q) \/ Compute(q)
  <2>1. cache' = cache /\ late' = late
    BY <1>6 DEF Start, Miss, QueryBucket, QueryFails, Compute
  <2>2. pc'[q] # "ok"
    BY <1>6 DEF Start, Miss, QueryBucket, QueryFails, Compute, Goto, ServiceInv, TypeOK
  <2>. QED
    BY <1>1, <1>2, <1>3, <2>1, <2>2 DEF EntriesMade
<1>. QED
  BY <1>4, <1>5, <1>6 DEF Serve

\* What is left to show of a step that leaves the requests alone.
LEMMA EntriesStay ==
    ASSUME ServiceInv, UNCHANGED request,
           \A agg, key : Made(agg, key) => Made(agg, key)',
           \A e \in cache' : Made(e.agg, e.key) /\ e.until <= e.agg.at + MaxAge,
           \A s \in late' : /\ Made(s.agg, s.key) /\ clock' <= s.by
                            /\ s.by <= s.agg.at + Patience + SetLag
    PROVE  EntriesMade'
<1>1. arg' = arg /\ pc' = pc /\ now' = now /\ answer' = answer /\ MaxAge' = MaxAge
  BY DEF request, MaxAge
<1>2. \A e \in cache' : Made(e.agg, e.key)' /\ e.until <= e.agg.at + MaxAge
  OBVIOUS
<1>3. \A s \in late' : /\ Made(s.agg, s.key)' /\ clock' <= s.by
                       /\ s.by <= s.agg.at + Patience + SetLag
  OBVIOUS
<1>4. ASSUME NEW q \in Requests, pc'[q] = "ok" PROVE Made(answer[q], Key(q))'
  <2>1. PICK agg, key : agg = answer[q] /\ key = Key(q)
    OBVIOUS
  <2>2. Made(agg, key)
    BY <1>1, <1>4, <2>1 DEF ServiceInv, EntriesMade
  <2>3. Made(agg, key)' /\ answer'[q] = agg /\ Key(q)' = key
    BY <1>1, <2>1, <2>2 DEF Key, DayOf
  <2>. QED
    BY <2>3 DEF Made, MadeBy, Covers, DayOf
<1>. QED
  BY <1>1, <1>2, <1>3, <1>4 DEF EntriesMade

\* Nor does the environment disturb what was made, if it keeps the deadlines.
LEMMA EnvironmentKeepsInv ==
    ASSUME ServiceInv, Tick \/ Arrive
    PROVE  InTime' /\ (\A q \in Requests : Scanned(q)') /\ EntriesMade'
<1>1. UNCHANGED request /\ cache' = cache /\ late' = late
  BY DEF Tick, Arrive
<1>2. arg' = arg /\ pc' = pc /\ now' = now /\ day' = day /\ rows' = rows /\ answer' = answer
  BY <1>1 DEF request
<1>3. clock \in Int /\ (\A q \in Requests : now[q] \in Int) /\ (\A s \in late : s.by \in Int)
  BY DEF ServiceInv, TypeOK, ReadingsTypeOK
<1>4. CASE Tick
  <2>1. clock' = clock + 1 /\ WithinLimits /\ arrived' = arrived
    BY <1>4 DEF Tick
  <2>2. InTime'
    BY <1>2, <1>3, <2>1, AggregateAssumption DEF ServiceInv, InTime, WithinLimits
  <2>3. Stored' = Stored
    BY <2>1 DEF Stored
  <2>4. \A q \in Requests : Scanned(q)'
    BY <1>2, <2>1, <2>3 DEF ServiceInv, Scanned, From, InWindow, Due, DayOf
  <2>5. \A agg, key : Made(agg, key) => Made(agg, key)'
    BY <1>2, <2>1, <2>3 DEF Made, MadeBy, Covers, InWindow, Due, DayOf
  <2>6. \A s \in late : clock' <= s.by
    BY <1>3, <2>1 DEF WithinLimits
  <2>. QED
    BY <1>1, <2>2, <2>4, <2>5, <2>6, EntriesStay DEF ServiceInv, EntriesMade
<1>5. CASE Arrive
  <2>1. PICK r \in Readings : Insert(r)
    BY <1>5 DEF Arrive
  <2>2. clock' = clock
    BY <2>1 DEF Insert
  <2>3. InTime'
    BY <1>2, <2>2 DEF ServiceInv, InTime
  <2>4. \A q \in Requests : Scanned(q)'
    BY <1>1, <2>1, ScannedStaysOnInsert DEF ServiceInv
  <2>5. \A agg, key : Made(agg, key) => Made(agg, key)'
    BY <1>1, <2>1, MadeStaysOnInsert DEF ServiceInv
  <2>. QED
    BY <1>1, <2>2, <2>3, <2>4, <2>5, EntriesStay DEF ServiceInv, EntriesMade
<1>. QED
  BY <1>4, <1>5

\* A Set that the handler gave up on is executed within SetLag.
LEMMA LateSetKeepsInv ==
    ASSUME ServiceInv, LateSet
    PROVE  InTime' /\ (\A q \in Requests : Scanned(q)') /\ EntriesMade'
<1>1. PICK s \in late : Set(s.key, s.agg) /\ late' = late \ {s} /\ UNCHANGED <<readings, request>>
  BY DEF LateSet
<1>2. /\ arg' = arg /\ pc' = pc /\ now' = now /\ day' = day /\ rows' = rows /\ answer' = answer
      /\ clock' = clock /\ UNCHANGED readings
  BY <1>1 DEF request, readings
<1>3. InTime' /\ \A q \in Requests : Scanned(q)'
  BY <1>2, ScannedStays DEF ServiceInv, InTime
<1>4. \A agg, key : Made(agg, key) => Made(agg, key)'
  BY <1>2, MadeStays
<1>5. Made(s.agg, s.key) /\ clock <= s.by /\ s.by <= s.agg.at + Patience + SetLag
  BY <1>1 DEF ServiceInv, EntriesMade
<1>6. s.by \in Int /\ clock \in Int /\ s.agg.at \in Int
  BY <1>1 DEF ServiceInv, TypeOK, ReadingsTypeOK, Agg
<1>7. \A e \in cache' : Made(e.agg, e.key) /\ e.until <= e.agg.at + MaxAge
  BY <1>1, <1>5, <1>6, SetKeeps, AggregateAssumption
<1>. QED
  BY <1>1, <1>2, <1>3, <1>4, <1>7, EntriesStay DEF ServiceInv, EntriesMade

\* ServiceInv is inductive.
LEMMA ServiceStep ==
    ASSUME ServiceInv, [Next]_vars
    PROVE  ServiceInv'
<1>1. TypeOK'
  BY TypeStep DEF ServiceInv
<1>2. CASE Tick \/ Arrive
  BY <1>1, <1>2, EnvironmentKeepsInv DEF ServiceInv
<1>3. CASE LateSet
  BY <1>1, <1>3, LateSetKeepsInv DEF ServiceInv
<1>4. ASSUME NEW q \in Requests, Serve(q) PROVE ServiceInv'
  BY <1>1, <1>4, ServeFrame, ServeScans, ServeMakes DEF ServiceInv
<1>5. CASE UNCHANGED vars
  <2>1. /\ arg' = arg /\ pc' = pc /\ now' = now /\ day' = day /\ rows' = rows
        /\ answer' = answer /\ cache' = cache /\ late' = late /\ UNCHANGED readings
        /\ clock' = clock
    BY <1>5 DEF vars, request, readings
  <2>2. InTime' /\ \A q \in Requests : Scanned(q)'
    BY <2>1, ScannedStays DEF ServiceInv, InTime
  <2>3. \A agg, key : Made(agg, key) => Made(agg, key)'
    BY <2>1, MadeStays
  <2>. QED
    BY <1>1, <1>5, <2>1, <2>2, <2>3, EntriesStay DEF ServiceInv, EntriesMade, vars
<1>. QED
  BY <1>2, <1>3, <1>4, <1>5 DEF Next

\* And holds at the start.
LEMMA ServiceInit ==
    ASSUME Init
    PROVE  ServiceInv
<1>1. TypeOK
  BY TypeInit
<1>. QED
  BY <1>1 DEF Init, ServiceInv, InTime, Scanned, EntriesMade, Waiting

\* The invariant the theorems below rest on.
LEMMA ServiceInvariant == Spec => []ServiceInv
<1>. QED
  BY ServiceInit, ServiceStep, PTL DEF Spec

-----------------------------------------------------------------------------
(* Theorems. *)

\* What was made for a request of one type serves any request with its key.
LEMMA MadeIsRight ==
    ASSUME ServiceInv, NEW q \in Requests, Made(answer[q], Key(q))
    PROVE  \E p \in Requests :
              /\ pc[p] # "idle"
              /\ arg[p].sensor = arg[q].sensor /\ arg[p].window = arg[q].window
              /\ answer[q].at = now[p]
              /\ answer[q].rows # {}
              /\ Covers(answer[q], arg[p].sensor, arg[p].type, arg[p].window)
              /\ DayOf(answer[q].at) = DayOf(now[q])
BY DEF Made, MadeBy, Key

\* However requests, arrivals, late Sets and failures interleave, an answer leaves out
\* no reading of its window that was in its bucket before the answer's Timestamp.
THEOREM AnswersLeaveNothingOut == Spec => []AnswersAreComplete
<1>1. ServiceInv => AnswersAreComplete
  <2>. SUFFICES ASSUME ServiceInv, NEW q \in Requests, pc[q] = "ok"
                PROVE  \E a \in Args :
                          /\ a.sensor = arg[q].sensor /\ a.window = arg[q].window
                          /\ answer[q].rows # {}
                          /\ Covers(answer[q], a.sensor, a.type, a.window)
    BY DEF AnswersAreComplete
  <2>1. Made(answer[q], Key(q))
    BY DEF ServiceInv, EntriesMade
  <2>. QED
    BY <2>1, MadeIsRight DEF ServiceInv, TypeOK
<1>. QED
  BY <1>1, ServiceInvariant, PTL

\* "no readings found" is answered only when nothing was due.
THEOREM NotFoundIsNeverWrong == Spec => []NotFoundIsTrue
<1>1. ServiceInv => NotFoundIsTrue
  BY DEF ServiceInv, Scanned, NotFoundIsTrue
<1>. QED
  BY <1>1, ServiceInvariant, PTL

\* An answer of another type than asked for is one that a request for that type
\* computed, for the same sensor and window.
THEOREM OtherTypesAreShared == Spec => []OtherTypeWasAskedFor
<1>1. ServiceInv => OtherTypeWasAskedFor
  <2>. SUFFICES ASSUME ServiceInv, NEW q \in Requests, pc[q] = "ok", NEW r \in answer[q].rows
                PROVE  \E p \in Requests :
                          /\ pc[p] # "idle"
                          /\ arg[p] = [arg[q] EXCEPT !.type = r.type]
                          /\ now[p] = answer[q].at
    BY DEF OtherTypeWasAskedFor
  <2>1. Made(answer[q], Key(q))
    BY DEF ServiceInv, EntriesMade
  <2>2. PICK p \in Requests :
              /\ pc[p] # "idle"
              /\ arg[p].sensor = arg[q].sensor /\ arg[p].window = arg[q].window
              /\ answer[q].at = now[p]
              /\ Covers(answer[q], arg[p].sensor, arg[p].type, arg[p].window)
    BY <2>1, MadeIsRight
  <2>3. r.type = arg[p].type
    BY <2>2 DEF Covers, InWindow
  <2>4. arg[p] \in Argument /\ arg[q] \in Argument
    BY AggregateAssumption DEF ServiceInv, TypeOK
  <2>5. arg[p] = [arg[q] EXCEPT !.type = r.type]
    BY <2>2, <2>3, <2>4 DEF Argument
  <2>. QED
    BY <2>2, <2>5
<1>. QED
  BY <1>1, ServiceInvariant, PTL

\* No answer is of an earlier UTC day than its request.
THEOREM AnswersStayInTheirDay == Spec => []AnswersAreOfToday
<1>1. ServiceInv => AnswersAreOfToday
  BY MadeIsRight DEF ServiceInv, EntriesMade, AnswersAreOfToday
<1>. QED
  BY <1>1, ServiceInvariant, PTL

\* When a request is answered, and how old the answer is then.
LEMMA AnswerAge ==
    ASSUME ServiceInv, [Next]_vars, NEW q \in Requests, pc'[q] = "ok", pc[q] # "ok"
    PROVE  answer'[q].at > clock - MaxAge
<1>1. Hit(q) \/ StoreAggregate(q)
  <2>1. pc' # pc
    OBVIOUS
  <2>2. PICK p \in Requests : Serve(p)
    BY <2>1 DEF Next, Tick, Arrive, LateSet, vars, request
  <2>3. p = q
    BY <2>2, ServeFrame
  <2>. QED
    BY <2>2, <2>3 DEF Serve, Start, Miss, QueryBucket, QueryFails, Compute, Goto, ServiceInv, TypeOK
<1>. USE AggregateAssumption DEF MaxAge
<1>2. CASE Hit(q)
  <2>1. PICK e \in cache : clock < e.until /\ answer'[q] = e.agg
    BY <1>2 DEF Hit, ServiceInv, TypeOK
  <2>2. e.until <= e.agg.at + MaxAge /\ e.agg.at \in Int /\ e.until \in Int /\ clock \in Int
    BY DEF ServiceInv, EntriesMade, TypeOK, Agg, ReadingsTypeOK
  <2>. QED
    BY <2>1, <2>2
<1>3. CASE StoreAggregate(q)
  <2>1. answer'[q].at = now[q] /\ pc[q] = "store"
    BY <1>3 DEF StoreAggregate, Computed, ServiceInv, TypeOK
  <2>2. clock <= now[q] + Patience /\ now[q] \in Int /\ clock \in Int
    BY <2>1 DEF ServiceInv, InTime, TypeOK, ReadingsTypeOK, Waiting
  <2>. QED
    BY <2>1, <2>2
<1>. QED
  BY <1>1, <1>2, <1>3

\* No answer is older than the life of an entry and the delays before it.
THEOREM AnswersAreNeverStale == Spec => AnswersAreFresh
<1>1. ServiceInv /\ [Next]_vars =>
        [\A q \in Requests : pc'[q] = "ok" /\ pc[q] # "ok" => answer'[q].at > clock - MaxAge]_vars
  BY AnswerAge
<1>. QED
  BY <1>1, ServiceInvariant, PTL DEF Spec, AnswersAreFresh

\* The age of what a step puts in the place of an entry.
LEMMA ReplacedByLittleOlder ==
    ASSUME ServiceInv, [Next]_vars, NEW e \in cache, NEW f \in cache', e.key = f.key
    PROVE  f.agg.at >= e.agg.at - (Patience + SetLag)
<1>. USE AggregateAssumption
<1>1. e.agg.at \in Int /\ e.agg.at <= clock /\ clock \in Int
  BY MadeInThePast DEF ServiceInv, EntriesMade, TypeOK, ReadingsTypeOK
<1>2. CASE cache' = cache
  BY <1>1, <1>2 DEF ServiceInv, TypeOK
<1>3. CASE LateSet
  <2>1. PICK s \in late : Set(s.key, s.agg)
    BY <1>3 DEF LateSet
  <2>2. f \in cache \/ f.agg = s.agg
    BY <2>1 DEF Set
  <2>3. clock <= s.by /\ s.by <= s.agg.at + Patience + SetLag /\ s.by \in Int /\ s.agg.at \in Int
    BY DEF ServiceInv, EntriesMade, TypeOK, Agg
  <2>4. CASE f \in cache
    BY <1>1, <2>4 DEF ServiceInv, TypeOK
  <2>5. CASE f.agg = s.agg
    BY <1>1, <2>3, <2>5
  <2>. QED
    BY <2>2, <2>4, <2>5
<1>4. ASSUME NEW q \in Requests, StoreAggregate(q), cache' # cache
      PROVE  f.agg.at >= e.agg.at - (Patience + SetLag)
  <2>1. Set(Key(q), Computed(q)) /\ pc[q] = "store"
    BY <1>4 DEF StoreAggregate
  <2>2. f = [key |-> Key(q), agg |-> Computed(q), until |-> clock + TTL] \/ f \in cache
    BY <2>1 DEF Set
  <2>3. clock <= now[q] + Patience /\ now[q] \in Int
    BY <2>1 DEF ServiceInv, InTime, TypeOK, Waiting
  <2>4. Computed(q).at = now[q]
    BY DEF Computed
  <2>5. CASE f \in cache
    BY <1>1, <2>5 DEF ServiceInv, TypeOK
  <2>6. CASE f = [key |-> Key(q), agg |-> Computed(q), until |-> clock + TTL]
    BY <1>1, <2>3, <2>4, <2>6
  <2>. QED
    BY <2>2, <2>5, <2>6
<1>. QED
  BY <1>2, <1>3, <1>4 DEF Next, Tick, Arrive, Serve, Start, Hit, Miss, QueryBucket, QueryFails,
     Compute, vars

\* A late Set or a slow request sets an entry back by no more than its own delay.
THEOREM EntriesGoBackLittle == Spec => SetsGoBackLittle
<1>1. ServiceInv /\ [Next]_vars =>
        [\A e \in cache, f \in cache' : e.key = f.key =>
            f.agg.at >= e.agg.at - (Patience + SetLag)]_vars
  BY ReplacedByLittleOlder
<1>. QED
  BY <1>1, ServiceInvariant, PTL DEF Spec, SetsGoBackLittle

-----------------------------------------------------------------------------
(* The promise: Aggregate implements Answers. *)

\* While a request works, and when it has ended, its status is what pc says.
LEMMA StatusOf ==
    ASSUME TypeOK, NEW q \in Requests
    PROVE  /\ pc[q] = "idle" => Statuses[q] = "new"
           /\ pc[q] \in Waiting => Statuses[q] = "asked"
           /\ pc[q] \in Ended => Statuses[q] = pc[q]
BY DEF Statuses, Status, Waiting, Ended

\* A step of request q changes the status of no other.
LEMMA StatusStep ==
    ASSUME TypeOK, NEW q \in Requests, NEW label, pc' = [pc EXCEPT ![q] = label]
    PROVE  Statuses' = [Statuses EXCEPT ![q] = Status(label)]
<1>1. \A p \in Requests : pc'[p] = IF p = q THEN label ELSE pc[p]
  BY DEF TypeOK
<1>2. Statuses' = [p \in Requests |-> Status(pc'[p])]
  BY DEF Statuses, Status, Waiting
<1>3. \A p \in Requests : Status(pc'[p]) = IF p = q THEN Status(label) ELSE Status(pc[p])
  BY <1>1
<1>. QED
  BY <1>2, <1>3 DEF Statuses

\* Answering with an aggregate made by some request is a step of Answers.
LEMMA AnswerImplements ==
    ASSUME ServiceInv, ServiceInv', [Next]_vars, NEW q \in Requests,
           UNCHANGED readings, UNCHANGED arg,
           pc[q] \in Waiting, pc' = [pc EXCEPT ![q] = "ok"],
           NEW agg \in Agg, answer' = [answer EXCEPT ![q] = agg]
    PROVE  Promise!Answer(q)
<1>1. Statuses[q] = "asked" /\ Statuses' = [Statuses EXCEPT ![q] = "ok"]
  BY StatusOf, StatusStep DEF ServiceInv, Waiting, Status
<1>2. pc'[q] = "ok" /\ answer'[q] = agg /\ pc[q] # "ok"
  BY DEF ServiceInv, TypeOK, Waiting
<1>3. agg.at > clock - MaxAge
  BY <1>2, AnswerAge
<1>4. PICK key : key = Key(q)' /\ Made(agg, key)'
  <2>1. Made(answer[q], Key(q))'
    BY <1>2 DEF ServiceInv, EntriesMade
  <2>2. PICK key : key = Key(q)'
    OBVIOUS
  <2>. QED
    BY <1>2, <2>1, <2>2 DEF Made, MadeBy, Covers, DayOf
<1>5. PICK p \in Requests : MadeBy(p, agg, key)'
  BY <1>4 DEF Made
<1>6. Stored' = Stored /\ clock' = clock
  BY DEF Stored, readings
<1>7. /\ Covers(agg, arg[p].sensor, arg[p].type, arg[p].window)
      /\ agg.at = now'[p] /\ agg.rows # {}
      /\ arg[p].sensor = arg[q].sensor /\ arg[p].window = arg[q].window
  BY <1>4, <1>5, <1>6 DEF MadeBy, Covers, InWindow, Due, DayOf, readings, Key
<1>8. now'[p] <= clock' /\ agg.at \in Int /\ clock \in Int /\ MaxAge \in Int
  BY <1>5, AggregateAssumption DEF MadeBy, ServiceInv, InTime, TypeOK, ReadingsTypeOK, Agg, MaxAge
<1>9. agg.at \in (clock - MaxAge)..clock
  BY <1>3, <1>6, <1>7, <1>8
<1>10. agg = [at |-> agg.at, rows |-> agg.rows] /\ agg.rows \subseteq Stored
  BY <1>7 DEF Agg, Covers, InWindow
<1>11. Promise!Complete(arg[p], arg[p].type, agg.at, agg.rows)
  BY <1>7 DEF Promise!Complete, Covers, Promise!Due, Promise!Stored, Promise!InWindow,
     Promise!DayOf, Due, Stored, InWindow, DayOf
<1>. QED
  BY <1>1, <1>7, <1>9, <1>10, <1>11 DEF Promise!Answer, Promise!Stored, Stored, Promise!readings,
     readings, ServiceInv, TypeOK

\* Every step of a request is a step of Answers or none.
LEMMA ServeImplements ==
    ASSUME ServiceInv, ServiceInv', [Next]_vars, NEW q \in Requests, Serve(q)
    PROVE  [Promise!Next]_<<readings, arg, Statuses, answer>>
<1>1. UNCHANGED readings /\ UNCHANGED arg
  BY ServeFrame
<1>2. CASE Start(q)
  <2>1. Statuses[q] = "new" /\ Statuses' = [Statuses EXCEPT ![q] = "asked"] /\ answer' = answer
    BY <1>2, StatusOf, StatusStep DEF Start, Goto, ServiceInv, Waiting, Status
  <2>2. arg[q] \in Args /\ arg' = [arg EXCEPT ![q] = arg[q]]
    BY <1>1 DEF ServiceInv, TypeOK
  <2>3. Promise!Ask(q)
    BY <1>1, <2>1, <2>2 DEF Promise!Ask, Promise!readings, readings
  <2>. QED
    BY <2>3 DEF Promise!Next
<1>3. CASE Hit(q)
  <2>1. PICK e \in cache : answer' = [answer EXCEPT ![q] = e.agg]
    BY <1>3 DEF Hit
  <2>2. e.agg \in Agg /\ pc[q] \in Waiting /\ pc' = [pc EXCEPT ![q] = "ok"]
    BY <1>3 DEF Hit, Goto, Waiting, ServiceInv, TypeOK
  <2>. QED
    BY <1>1, <2>1, <2>2, AnswerImplements DEF Promise!Next
<1>4. CASE StoreAggregate(q)
  <2>1. /\ Computed(q) \in Agg /\ pc[q] \in Waiting /\ pc' = [pc EXCEPT ![q] = "ok"]
        /\ answer' = [answer EXCEPT ![q] = Computed(q)]
    BY <1>4, DerivedTypes DEF StoreAggregate, Goto, Waiting, ServiceInv
  <2>. QED
    BY <1>1, <2>1, AnswerImplements DEF Promise!Next
<1>5. CASE QueryFails(q)
  <2>1. /\ Statuses[q] = "asked" /\ Statuses' = [Statuses EXCEPT ![q] = "error"]
        /\ answer' = answer
    BY <1>5, StatusOf, StatusStep DEF QueryFails, Goto, ServiceInv, Waiting, Status
  <2>2. Promise!Fail(q)
    BY <1>1, <2>1 DEF Promise!Fail, Promise!readings, readings
  <2>. QED
    BY <2>2 DEF Promise!Next
<1>6. CASE Compute(q) /\ rows[q] = {}
  <2>1. /\ Statuses[q] = "asked" /\ Statuses' = [Statuses EXCEPT ![q] = "notfound"]
        /\ answer' = answer
    BY <1>6, StatusOf, StatusStep DEF Compute, Goto, ServiceInv, Waiting, Status
  <2>2. Due(arg[q].sensor, arg[q].type, From(q), now[q], now[q]) = {}
    BY <1>6, LoopIsComplete DEF Compute
  <2>3. Promise!Complete(arg[q], arg[q].type, now[q], {})
    BY <2>2 DEF Promise!Complete, From, Promise!Due, Promise!Stored, Promise!InWindow,
       Promise!DayOf, Due, Stored, InWindow, DayOf
  <2>4. now[q] \in (clock - MaxAge)..clock
    BY <1>6, AggregateAssumption DEF Compute, ServiceInv, InTime, TypeOK, ReadingsTypeOK, Waiting,
       MaxAge
  <2>5. Promise!NotFound(q)
    BY <1>1, <2>1, <2>3, <2>4 DEF Promise!NotFound, Promise!readings, readings
  <2>. QED
    BY <2>5 DEF Promise!Next
<1>7. CASE Miss(q) \/ QueryBucket(q) \/ (Compute(q) /\ rows[q] # {})
  <2>1. answer' = answer
    BY <1>7 DEF Miss, QueryBucket, Compute
  <2>2. Statuses' = Statuses
    <3>1. CASE QueryBucket(q)
      BY <3>1 DEF QueryBucket, Statuses, Status, Waiting
    <3>2. PICK label \in Waiting : ~QueryBucket(q) => pc' = [pc EXCEPT ![q] = label]
      BY <1>7 DEF Miss, Compute, Goto, Waiting
    <3>3. CASE ~QueryBucket(q)
      <4>1. Statuses' = [Statuses EXCEPT ![q] = "asked"]
        BY <3>2, <3>3, StatusStep DEF ServiceInv, Status, Waiting
      <4>2. Statuses[q] = "asked"
        BY <1>7, <3>3, StatusOf DEF Miss, Compute, ServiceInv, Waiting
      <4>. QED
        BY <4>1, <4>2 DEF Statuses
    <3>. QED
      BY <3>1, <3>3
  <2>. QED
    BY <1>1, <2>1, <2>2
<1>. QED
  BY <1>2, <1>3, <1>4, <1>5, <1>6, <1>7 DEF Serve

\* Aggregate implements Answers: whatever the cache holds, and however late it was
\* written, clients see answers that are complete for a recent moment.
THEOREM AggregateImplementsAnswers == Spec => AnswersKept
<1>1. Init => Promise!Init
  BY DEF Init, Promise!Init, Statuses, Status
<1>2. ASSUME ServiceInv, ServiceInv', [Next]_vars
      PROVE  [Promise!Next]_<<readings, arg, Statuses, answer>>
  <2>1. CASE Tick \/ Arrive
    <3>1. UNCHANGED <<arg, Statuses, answer>>
      BY <2>1 DEF Tick, Arrive, request, Statuses, Status, Waiting
    <3>2. \/ clock' = clock + 1 /\ UNCHANGED arrived
          \/ \E r \in Readings : Promise!Insert(r)
      BY <2>1 DEF Tick, Arrive, Insert, Promise!Insert
    <3>. QED
      BY <3>1, <3>2 DEF Promise!Next, Promise!Environment
  <2>2. CASE LateSet \/ UNCHANGED vars
    BY <2>2 DEF LateSet, vars, request, Statuses, Status, Waiting
  <2>3. ASSUME NEW q \in Requests, Serve(q)
        PROVE  [Promise!Next]_<<readings, arg, Statuses, answer>>
    BY <1>2, <2>3, ServeImplements
  <2>. QED
    BY <1>2, <2>1, <2>2, <2>3 DEF Next
<1>. QED
  BY <1>1, <1>2, ServiceInvariant, PTL DEF Spec, AnswersKept, Promise!Spec, Promise!vars,
     Promise!readings, readings
=============================================================================
