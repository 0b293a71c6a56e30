---------------------------- MODULE LatestProofs ----------------------------
(***************************************************************************)
(* Proofs about Latest, for any readings, requests and number N of values. *)
(***************************************************************************)
EXTENDS Latest, FiniteSetTheorems, TLAPS

-----------------------------------------------------------------------------
(* The newest of a set. *)

After(S, t) == {f \in S : f.at > t}

Timed(S) == IsFiniteSet(S) /\ (\A e \in S : e.at \in Int)

Distinct(S) == \A e, f \in S : e.at = f.at => e = f

\* How many entries come after a time is a number, and less for a later time when
\* there is an entry in between.
LEMMA AfterShrinks ==
    ASSUME NEW S, Timed(S), NEW s \in Int, NEW t \in Int
    PROVE  /\ IsFiniteSet(After(S, t))
           /\ Cardinality(After(S, t)) \in Nat
           /\ s <= t => Cardinality(After(S, t)) <= Cardinality(After(S, s))
           /\ (\E e \in S : s < e.at /\ e.at <= t) =>
                 Cardinality(After(S, t)) < Cardinality(After(S, s))
<1>1. After(S, t) \in SUBSET S /\ After(S, s) \in SUBSET S
  BY DEF After
<1>2. IsFiniteSet(After(S, t)) /\ IsFiniteSet(After(S, s))
  BY <1>1, FS_Subset DEF Timed
<1>3. Cardinality(After(S, t)) \in Nat /\ Cardinality(After(S, s)) \in Nat
  BY <1>2, FS_CardinalityType
<1>4. s <= t => After(S, t) \in SUBSET After(S, s)
  BY DEF After, Timed
<1>5. s <= t => /\ Cardinality(After(S, t)) <= Cardinality(After(S, s))
                /\ Cardinality(After(S, s)) = Cardinality(After(S, t)) => After(S, s) = After(S, t)
  BY <1>2, <1>4, FS_Subset
<1>6. ASSUME NEW e \in S, s < e.at, e.at <= t
      PROVE  Cardinality(After(S, t)) < Cardinality(After(S, s))
  <2>1. e.at \in Int
    BY DEF Timed
  <2>2. e \in After(S, s) /\ e \notin After(S, t) /\ s <= t
    BY <1>6, <2>1 DEF After
  <2>. QED
    BY <1>3, <1>5, <2>2
<1>. QED
  BY <1>2, <1>3, <1>5, <1>6

\* Without equal timestamps the ranks are all the numbers below the size of the set.
LEMMA RanksAreAll ==
    ASSUME NEW S, Timed(S), Distinct(S)
    PROVE  [e \in S |-> Cardinality(After(S, e.at))] \in Bijection(S, 0..(Cardinality(S) - 1))
<1> DEFINE n == Cardinality(S)
           rank == [e \in S |-> Cardinality(After(S, e.at))]
<1>1. n \in Nat
  BY FS_CardinalityType DEF Timed
<1>2. ASSUME NEW e \in S
      PROVE  rank[e] \in 0..(n - 1)
  <2>1. After(S, e.at) \in SUBSET S /\ e \notin After(S, e.at) /\ e.at \in Int
    BY DEF After, Timed
  <2>2. Cardinality(After(S, e.at)) <= n /\ (n = Cardinality(After(S, e.at)) => S = After(S, e.at))
    BY <2>1, FS_Subset DEF Timed
  <2>3. Cardinality(After(S, e.at)) \in Nat
    BY <2>1, AfterShrinks
  <2>4. n # Cardinality(After(S, e.at))
    BY <2>1, <2>2
  <2>5. Cardinality(After(S, e.at)) \in 0..(n - 1)
    BY <1>1, <2>2, <2>3, <2>4
  <2>. QED
    BY <2>5
<1>3. ASSUME NEW e \in S, NEW f \in S, e.at < f.at
      PROVE  rank[f] < rank[e]
  <2>1. e.at \in Int /\ f.at \in Int
    BY DEF Timed
  <2>2. \E g \in S : e.at < g.at /\ g.at <= f.at
    BY <1>3, <2>1
  <2>3. Cardinality(After(S, f.at)) < Cardinality(After(S, e.at))
    BY <2>1, <2>2, AfterShrinks
  <2>. QED
    BY <2>3
<1>4. rank \in [S -> 0..(n - 1)]
  BY <1>2
<1>5. ASSUME NEW e \in S, NEW f \in S, rank[e] = rank[f]
      PROVE  e = f
  <2>1. e.at \in Int /\ f.at \in Int /\ rank[e] \in Int /\ rank[f] \in Int
    BY <1>2 DEF Timed
  <2>2. ~(e.at < f.at) /\ ~(f.at < e.at)
    <3>1. ASSUME e.at < f.at PROVE FALSE
      BY <3>1, <1>3, <1>5, <2>1
    <3>2. ASSUME f.at < e.at PROVE FALSE
      BY <3>2, <1>3, <1>5, <2>1
    <3>. QED
      BY <3>1, <3>2
  <2>. QED
    BY <2>1, <2>2 DEF Distinct
<1>6. rank \in Injection(S, 0..(n - 1))
  BY <1>4, <1>5 DEF Injection, IsInjective
<1>7. IsFiniteSet(0..(n - 1)) /\ Cardinality(0..(n - 1)) = n
  <2>1. n - 1 \in Int /\ 0 \in Int
    BY <1>1
  <2>2. IsFiniteSet(0..(n - 1)) /\ Cardinality(0..(n - 1)) = IF 0 > n - 1 THEN 0 ELSE (n - 1) - 0 + 1
    BY <2>1, FS_Interval
  <2>. QED
    BY <1>1, <2>2
<1>8. rank \in Surjection(S, 0..(n - 1))
  BY <1>6, <1>7, FS_Injection
<1>. QED
  BY <1>6, <1>8 DEF Bijection

\* A set of n numbers from 0 has n elements.
LEMMA SizeOfInterval ==
    ASSUME NEW n \in Nat
    PROVE  IsFiniteSet(0..(n - 1)) /\ Cardinality(0..(n - 1)) = n
<1>1. n - 1 \in Int /\ 0 \in Int
  OBVIOUS
<1>2. IsFiniteSet(0..(n - 1)) /\ Cardinality(0..(n - 1)) = IF 0 > n - 1 THEN 0 ELSE (n - 1) - 0 + 1
  BY <1>1, FS_Interval
<1>. QED
  BY <1>2

\* What is not among the n newest comes before n others, which are (LIMIT ? of the
\* query by descending timestamp, and ZREVRANGE).
LEMMA NewestAreNewer ==
    ASSUME NEW S, Timed(S), Distinct(S), NEW n \in Nat, NEW r \in S, r \notin Newest(S, n)
    PROVE  /\ IsFiniteSet(Newest(S, n))
           /\ Cardinality(Newest(S, n)) = n
           /\ \A e \in Newest(S, n) : e.at > r.at
<1> DEFINE size == Cardinality(S)
           rank == [e \in S |-> Cardinality(After(S, e.at))]
           top == Newest(S, n)
           pick == [e \in top |-> rank[e]]
<1>1. rank \in Bijection(S, 0..(size - 1)) /\ size \in Nat
  BY RanksAreAll, FS_CardinalityType DEF Timed
<1>2. top = {e \in S : rank[e] < n}
  BY DEF Newest, After
<1>3. \A e \in S : rank[e] \in 0..(size - 1)
  BY <1>1 DEF Bijection, Injection
<1>4. n <= rank[r] /\ rank[r] \in Nat /\ rank[r] < size
  BY <1>1, <1>2, <1>3
<1>5. pick \in Injection(top, 0..(n - 1))
  <2>1. pick \in [top -> 0..(n - 1)]
    <3>1. \A e \in top : rank[e] \in 0..(n - 1)
      BY <1>2, <1>3
    <3>. QED
      BY <3>1
  <2>2. \A e, f \in top : pick[e] = pick[f] => e = f
    BY <1>1, <1>2 DEF Bijection, Injection, IsInjective
  <2>. QED
    BY <2>1, <2>2 DEF Injection, IsInjective
<1>6. pick \in Surjection(top, 0..(n - 1))
  <2>1. ASSUME NEW k \in 0..(n - 1)
        PROVE  \E e \in top : pick[e] = k
    <3>1. k \in 0..(size - 1) /\ k < n
      BY <1>1, <1>4
    <3>2. PICK e \in S : rank[e] = k
      BY <1>1, <3>1 DEF Bijection, Surjection
    <3>3. e \in top
      BY <1>2, <3>1, <3>2
    <3>. QED
      BY <3>2, <3>3
  <2>. QED
    BY <1>5, <2>1 DEF Surjection, Injection
<1>7. IsFiniteSet(top) /\ Cardinality(top) = n
  <2>1. top \in SUBSET S
    BY <1>2
  <2>2. IsFiniteSet(top)
    BY <2>1, FS_Subset DEF Timed
  <2>3. ExistsBijection(top, 0..(n - 1))
    BY <1>5, <1>6 DEF ExistsBijection, Bijection
  <2>4. Cardinality(0..(n - 1)) = Cardinality(top)
    BY <2>2, <2>3, FS_Bijection
  <2>. QED
    BY <2>2, <2>4, SizeOfInterval
<1>8. ASSUME NEW e \in top
      PROVE  e.at > r.at
  <2>1. e \in S /\ rank[e] < n /\ e.at \in Int /\ r.at \in Int
    BY <1>2 DEF Timed
  <2>2. e.at <= r.at => rank[r] <= rank[e]
    BY <2>1, AfterShrinks
  <2>3. rank[e] \in Int
    BY <1>3, <2>1
  <2>. QED
    BY <1>4, <2>1, <2>2, <2>3
<1>. QED
  BY <1>7, <1>8

\* A set that is not empty has a newest entry (the loop over res, newest first).
LEMMA NewestExists ==
    ASSUME NEW S, Timed(S), S # {}
    PROVE  Newest(S, 1) # {}
<1> DEFINE Time(e) == [at |-> e.at]
           T == {Time(e) : e \in S}
           size == Cardinality(T)
           rank == [e \in T |-> Cardinality(After(T, e.at))]
<1>1. IsFiniteSet(T)
  <2>1. [e \in S |-> Time(e)] \in Surjection(S, T)
    BY DEF Surjection
  <2>. QED
    BY <2>1, FS_Surjection DEF Timed
<1>2. Timed(T) /\ Distinct(T)
  BY <1>1 DEF Timed, Distinct
<1>3. rank \in Bijection(T, 0..(size - 1)) /\ size \in Nat
  BY <1>2, RanksAreAll, FS_CardinalityType DEF Timed
<1>4. size > 0
  <2>1. T # {}
    OBVIOUS
  <2>. QED
    BY <1>1, <1>3, <2>1, FS_EmptySet
<1>5. PICK t \in T : rank[t] = 0
  <2>1. 0 \in 0..(size - 1)
    BY <1>3, <1>4
  <2>. QED
    BY <1>3, <2>1 DEF Bijection, Surjection
<1>6. PICK e \in S : t = Time(e)
  OBVIOUS
<1>7. After(T, t.at) = {}
  <2>1. After(T, t.at) \in SUBSET T /\ Cardinality(After(T, t.at)) = 0
    BY <1>5 DEF After
  <2>. QED
    BY <1>1, <2>1, FS_Subset, FS_EmptySet
<1>8. After(S, e.at) = {}
  <2>1. ASSUME NEW f \in S, f.at > e.at
        PROVE  FALSE
    <3>1. Time(f) \in T /\ Time(f).at = f.at /\ t.at = e.at
      BY <1>6
    <3>2. Time(f) \in After(T, t.at)
      BY <2>1, <3>1 DEF After
    <3>. QED
      BY <1>7, <3>2
  <2>. QED
    BY <2>1 DEF After
<1>9. Cardinality({f \in S : f.at > e.at}) = 0
  BY <1>8, FS_EmptySet DEF After
<1>. QED
  BY <1>9 DEF Newest

-----------------------------------------------------------------------------
(* Types. *)

\* No more than finitely many readings arrive, and so are stored in the cache.
FiniteInv ==
    /\ IsFiniteSet(Stored)
    /\ \A q \in Requests : IsFiniteSet(todo[q])

TypeInv == TypeOK /\ FiniteInv

\* A reading's entry bears its timestamp.
LEMMA EntryTyped ==
    ASSUME NEW e \in Entries
    PROVE  e.at \in Int
BY ReadingsAssumption DEF Entries, Entry

\* The day of a request is a day.
LEMMA TodayTyped ==
    ASSUME TypeOK, NEW q \in Requests
    PROVE  Today(q) \in Int
<1>1. began[q] + Zone \in Int
  BY LatestAssumption DEF TypeOK
<1>. QED
  BY <1>1, ReadingsAssumption DEF Today, DayOf

\* The members of a sorted set have their types, and no value twice.
LEMMA MembersTyped ==
    ASSUME TypeOK, NEW key
    PROVE  /\ Members(key) \subseteq Entries
           /\ \A d, e \in Members(key) : d.value = e.value => d = e
<1>1. Members(key) \subseteq Entries
  BY DEF Members, Sets, TypeOK
<1>2. ASSUME NEW d \in Members(key), NEW e \in Members(key), d.value = e.value
      PROVE  d = e
  <2>1. PICK y \in Sets(key) : d \in y.members
    BY DEF Members
  <2>2. PICK z \in Sets(key) : e \in z.members
    BY DEF Members
  <2>3. y \in cache /\ z \in cache /\ y.key = z.key
    BY DEF Sets
  <2>4. y = z
    BY <2>3 DEF TypeOK
  <2>. QED
    BY <1>2, <2>1, <2>2, <2>3, <2>4 DEF TypeOK
<1>. QED
  BY <1>1, <1>2

SetTyped(z) ==
    /\ z \in [key: [format: {"date", "time"}, day: Int],
             members: SUBSET Entries,
             until: Int \cup {Never}]
    /\ \A d, e \in z.members : d.value = e.value => d = e

CacheTyped ==
    /\ \A z \in cache : SetTyped(z)
    /\ \A y, z \in cache : y.key = z.key => y = z

\* Replacing a sorted set leaves one for its key.
LEMMA PutSetTyped ==
    ASSUME CacheTyped, NEW key, NEW members, NEW until, PutSet(key, members, until),
           SetTyped([key |-> key, members |-> members, until |-> until])
    PROVE  CacheTyped'
<1>1. cache' = {z \in cache : z.key # key}
                 \cup {[key |-> key, members |-> members, until |-> until]}
  BY DEF PutSet
<1>2. ASSUME NEW z \in cache' PROVE SetTyped(z)
  BY <1>1, <1>2 DEF CacheTyped
<1>3. ASSUME NEW y \in cache', NEW z \in cache', y.key = z.key PROVE y = z
  BY <1>1, <1>3 DEF CacheTyped
<1>. QED
  BY <1>2, <1>3 DEF CacheTyped, SetTyped

\* The newest entry that is left is one of the entries to store.
LEMMA NextToStore ==
    ASSUME TypeInv, NEW q \in Requests, todo[q] # {}
    PROVE  (CHOOSE f \in Newest(todo[q], 1) : TRUE) \in todo[q]
<1>1. todo[q] \subseteq Entries /\ IsFiniteSet(todo[q])
  BY DEF TypeInv, TypeOK, FiniteInv
<1>2. Timed(todo[q])
  BY <1>1, EntryTyped DEF Timed
<1>3. Newest(todo[q], 1) # {}
  BY <1>2, NewestExists
<1>. QED
  BY <1>3 DEF Newest

\* One round of the loop over res keeps the sorted sets typed.
LEMMA StoreTyped ==
    ASSUME TypeInv, NEW q \in Requests, Store(q)
    PROVE  /\ CacheTyped'
           /\ todo' \in [Requests -> SUBSET Entries]
           /\ \A p \in Requests : IsFiniteSet(todo'[p])
           /\ pc' = pc \/ pc' = [pc EXCEPT ![q] = "expire"]
           /\ slipped' \subseteq Requests
<1> DEFINE e == CHOOSE f \in Newest(todo[q], 1) : TRUE
           key == StoreKey(q)
           members == ZAdd(Members(key), e)
<1>1. e \in todo[q] /\ todo[q] \subseteq Entries
  BY NextToStore DEF Store, TypeInv, TypeOK
<1>2. todo' = [todo EXCEPT ![q] = @ \ {e}]
  BY DEF Store
<1>3. IsFiniteSet(todo[q] \ {e})
  BY FS_RemoveElement DEF TypeInv, FiniteInv
<1>4. todo' \in [Requests -> SUBSET Entries] /\ \A p \in Requests : IsFiniteSet(todo'[p])
  BY <1>2, <1>3 DEF TypeInv, TypeOK, FiniteInv
<1>5. CacheTyped
  BY DEF TypeInv, TypeOK, CacheTyped, SetTyped
<1>6. key \in [format: {"date", "time"}, day: Int]
  BY TodayTyped DEF StoreKey, TypeInv
<1>7. members \subseteq Entries /\ \A c, d \in members : c.value = d.value => c = d
  <2>. HIDE DEF e, key
  <2>1. /\ Members(key) \subseteq Entries
        /\ \A c, d \in Members(key) : c.value = d.value => c = d
    BY MembersTyped DEF TypeInv
  <2>. QED
    BY <1>1, <2>1 DEF ZAdd
<1>8. Expiry(key) \in Int \cup {Never}
  <2>1. \A z \in Sets(key) : z.until \in Int \cup {Never}
    BY DEF Sets, TypeInv, TypeOK
  <2>. HIDE DEF key
  <2>. QED
    BY <2>1 DEF Expiry
<1>9. \A until \in Int \cup {Never} :
          SetTyped([key |-> key, members |-> members, until |-> until])
  <2>. HIDE DEF key, members
  <2>. QED
    BY <1>6, <1>7 DEF SetTyped
<1>10. \/ UNCHANGED cache
       \/ PutSet(key, members, Expiry(key))
  BY DEF Store
<1>11. ASSUME UNCHANGED cache
       PROVE  CacheTyped'
  BY <1>5, <1>11 DEF CacheTyped, SetTyped
<1>12. ASSUME PutSet(key, members, Expiry(key))
       PROVE  CacheTyped'
  <2>. HIDE DEF key, members
  <2>. QED
    BY <1>5, <1>8, <1>9, <1>12, PutSetTyped
<1>13. CacheTyped'
  BY <1>10, <1>11, <1>12
<1>14. pc' = pc \/ pc' = [pc EXCEPT ![q] = "expire"]
  BY DEF Store, Goto
<1>15. slipped' \subseteq Requests
  BY DEF Store, Slips, TypeInv, TypeOK
<1>. QED
  BY <1>4, <1>13, <1>14, <1>15

\* A set whose expiry is set is otherwise as it was.
LEMMA ExpireTyped ==
    ASSUME TypeInv, NEW q \in Requests, Expire(q)
    PROVE  CacheTyped'
<1>1. CacheTyped
  BY DEF TypeInv, TypeOK, CacheTyped, SetTyped
<1>2. CASE UNCHANGED cache
  BY <1>1, <1>2 DEF CacheTyped, SetTyped
<1>3. CASE cache' = {IF z \in Sets(StoreKey(q)) THEN [z EXCEPT !.until = clock + Life]
                     ELSE z : z \in cache}
  <2> DEFINE new(z) == IF z \in Sets(StoreKey(q)) THEN [z EXCEPT !.until = clock + Life] ELSE z
  <2>1. clock + Life \in Int
    BY LatestAssumption DEF TypeInv, TypeOK, ReadingsTypeOK
  <2>2. \A z \in cache : z = [key |-> z.key, members |-> z.members, until |-> z.until]
    BY DEF TypeInv, TypeOK
  <2>3. ASSUME NEW z \in cache
        PROVE  new(z).key = z.key /\ SetTyped(new(z))
    BY <1>1, <2>1, <2>2 DEF CacheTyped, SetTyped
  <2>4. cache' = {new(z) : z \in cache}
    BY <1>3
  <2>. HIDE DEF new
  <2>. QED
    BY <1>1, <2>3, <2>4 DEF CacheTyped
<1>. QED
  BY <1>2, <1>3 DEF Expire

\* A reading that arrives is stored with its time, and is one more.
LEMMA InsertTyped ==
    ASSUME ReadingsTypeOK, NEW r \in Readings, Insert(r)
    PROVE  /\ ReadingsTypeOK'
           /\ Stored' = Stored \cup {r}
           /\ arrived'[r] = clock
           /\ \A s \in Stored : arrived'[s] = arrived[s]
<1>1. clock # Never
  BY ReadingsAssumption DEF ReadingsTypeOK
<1>2. arrived' = [arrived EXCEPT ![r] = clock] /\ clock' = clock /\ arrived[r] = Never
  BY DEF Insert
<1>3. Stored' = Stored \cup {r}
  BY <1>1, <1>2 DEF Stored, ReadingsTypeOK
<1>. QED
  BY <1>2, <1>3 DEF ReadingsTypeOK, Stored

\* What a step of a handler leaves alone of the readings.
LEMMA ReadingsStay ==
    ASSUME ReadingsTypeOK, UNCHANGED readings
    PROVE  ReadingsTypeOK' /\ Stored' = Stored
BY DEF readings, ReadingsTypeOK, Stored

\* TypeInv is inductive.
LEMMA TypeStep ==
    ASSUME TypeInv, [Next]_vars
    PROVE  TypeInv'
<1>1. CASE Tick
  <2>1. ReadingsTypeOK' /\ Stored' = Stored
    BY <1>1 DEF Tick, TypeInv, TypeOK, ReadingsTypeOK, Stored
  <2>. QED
    BY <1>1, <2>1 DEF Tick, TypeInv, TypeOK, FiniteInv, request
<1>2. CASE Arrive
  <2>1. PICK r \in Readings : Insert(r) /\ UNCHANGED <<request, cache, slipped>>
    BY <1>2 DEF Arrive
  <2>2. ReadingsTypeOK' /\ Stored' = Stored \cup {r}
    BY <2>1, InsertTyped DEF TypeInv, TypeOK
  <2>3. IsFiniteSet(Stored')
    BY <2>2, FS_AddElement DEF TypeInv, FiniteInv
  <2>. QED
    BY <2>1, <2>2, <2>3 DEF TypeInv, TypeOK, FiniteInv, request
<1>3. ASSUME NEW q \in Requests, Serve(q) PROVE TypeInv'
  <2>1. UNCHANGED readings
    BY <1>3 DEF Serve, Start, FetchLast, FetchFails, GetLast5Values, QueryFails, Store, Expire, Reply
  <2>2. ReadingsTypeOK' /\ Stored' = Stored
    BY <2>1, ReadingsStay DEF TypeInv, TypeOK
  <2>3. CASE Start(q)
    BY <2>2, <2>3 DEF TypeInv, TypeOK, FiniteInv, ReadingsTypeOK, Start, Goto
  <2>4. CASE FetchLast(q)
    <3>1. Newest(Members(FetchKey(q)), N) \subseteq Entries
      BY MembersTyped DEF Newest, TypeInv
    <3>. QED
      BY <2>2, <2>4, <3>1 DEF TypeInv, TypeOK, FiniteInv, FetchLast, Goto
  <2>5. CASE FetchFails(q) \/ QueryFails(q)
    BY <2>2, <2>5 DEF TypeInv, TypeOK, FiniteInv, FetchFails, QueryFails, Goto
  <2>6. CASE GetLast5Values(q)
    <3> DEFINE Top == Newest({s \in Stored : s.day = Today(q)}, N)
               Found == {Entry(r) : r \in Top}
    <3>1. Top \in SUBSET Stored /\ Top \subseteq Readings
      BY DEF Newest, Stored
    <3>2. Found \subseteq Entries
      BY <3>1 DEF Entries
    <3>3. IsFiniteSet(Found)
      <4>1. IsFiniteSet(Top)
        BY <3>1, FS_Subset DEF TypeInv, FiniteInv
      <4>2. [r \in Top |-> Entry(r)] \in Surjection(Top, Found)
        BY DEF Surjection
      <4>. QED
        BY <4>1, <4>2, FS_Surjection
    <3>4. res' = [res EXCEPT ![q] = Found] /\ todo' = [todo EXCEPT ![q] = res'[q]]
      BY <2>6 DEF GetLast5Values
    <3>. HIDE DEF Found
    <3>5. res' \in [Requests -> SUBSET Entries] /\ res'[q] = Found
      BY <3>2, <3>4 DEF TypeInv, TypeOK
    <3>6. todo' \in [Requests -> SUBSET Entries] /\ \A p \in Requests : IsFiniteSet(todo'[p])
      BY <3>2, <3>3, <3>4, <3>5 DEF TypeInv, TypeOK, FiniteInv
    <3>. QED
      BY <2>2, <2>6, <3>5, <3>6 DEF TypeInv, TypeOK, FiniteInv, GetLast5Values, Goto
  <2>7. CASE Store(q)
    <3>1. /\ CacheTyped'
          /\ todo' \in [Requests -> SUBSET Entries]
          /\ \A p \in Requests : IsFiniteSet(todo'[p])
          /\ pc' = pc \/ pc' = [pc EXCEPT ![q] = "expire"]
          /\ slipped' \subseteq Requests
      BY <2>7, StoreTyped
    <3>2. began' = began /\ res' = res
      BY <2>7 DEF Store
    <3>. QED
      BY <2>2, <3>1, <3>2 DEF TypeInv, TypeOK, FiniteInv, CacheTyped, SetTyped
  <2>8. CASE Reply(q)
    BY <2>2, <2>8 DEF TypeInv, TypeOK, FiniteInv, Reply, Goto
  <2>9. CASE Expire(q)
    <3>1. CacheTyped' /\ slipped' \subseteq Requests
      BY <2>9, ExpireTyped DEF Expire, Slips, TypeInv, TypeOK
    <3>. QED
      BY <2>2, <2>9, <3>1 DEF TypeInv, TypeOK, FiniteInv, CacheTyped, SetTyped, Expire, Goto
  <2>. QED
    BY <1>3, <2>3, <2>4, <2>5, <2>6, <2>7, <2>8, <2>9 DEF Serve
<1>4. CASE UNCHANGED vars
  <2>1. ReadingsTypeOK' /\ Stored' = Stored
    BY <1>4, ReadingsStay DEF vars, TypeInv, TypeOK
  <2>. QED
    BY <1>4, <2>1 DEF TypeInv, TypeOK, FiniteInv, vars, request
<1>. QED
  BY <1>1, <1>2, <1>3, <1>4 DEF Next

\* Initially nothing has arrived, nothing is asked and nothing is cached.
LEMMA TypeInit ==
    ASSUME Init
    PROVE  TypeInv
<1>1. Stored = {}
  BY DEF Init, Stored
<1>2. IsFiniteSet(Stored) /\ \A q \in Requests : IsFiniteSet(todo[q])
  BY <1>1, FS_EmptySet DEF Init
<1>. QED
  BY <1>1, <1>2 DEF Init, TypeInv, TypeOK, ReadingsTypeOK, FiniteInv

\* Every reachable state of the handlers and the sorted sets is well typed, and no
\* sorted set holds a value twice (Store in valkey.go: the value is the member).
THEOREM LatestTypeCorrect == Spec => []TypeOK
<1>1. Spec => []TypeInv
  BY TypeInit, TypeStep, PTL DEF Spec
<1>. QED
  BY <1>1, PTL DEF TypeInv

-----------------------------------------------------------------------------
(* What an answer leaves out. *)

\* A request that has begun did so in the past.
Begun == \A q \in Requests : pc[q] # "idle" => began[q] <= clock

\* Nothing is ever stored under a key that is fetched.
NeverFetched == \A z \in cache : z.key.format = "time"

\* An answer from the table, and one on its way, shows every reading of the day that
\* had arrived when the request began, unless N newer ones are in it.
Answered(q) ==
    pc[q] \in {"store", "expire", "ok"} =>
        \A r \in Stored : arrived[r] < began[q] /\ r.day = Today(q) => Shown(q, r)

LatestInv ==
    /\ TypeInv
    /\ Begun
    /\ NeverFetched
    /\ \A q \in Requests : Answered(q)

\* The cache misses: under the key that is fetched there is nothing.
LEMMA FetchFindsNothing ==
    ASSUME LatestInv, NEW q \in Requests, FetchLast(q)
    PROVE  pc' = [pc EXCEPT ![q] = "query"]
<1>1. Sets(FetchKey(q)) = {}
  <2>1. FetchKey(q).format = "date"
    BY DEF FetchKey
  <2>. QED
    BY <2>1 DEF Sets, LatestInv, NeverFetched
<1>2. Members(FetchKey(q)) = {}
  BY <1>1 DEF Members
<1>3. res' = [res EXCEPT ![q] = Newest(Members(FetchKey(q)), N)]
  BY DEF FetchLast
<1>4. res'[q] = {}
  <2>1. Newest(Members(FetchKey(q)), N) = {}
    BY <1>2 DEF Newest
  <2>. QED
    BY <1>3, <2>1 DEF LatestInv, TypeInv, TypeOK
<1>5. Cardinality(res'[q]) < N
  <2>1. Cardinality(res'[q]) = 0
    BY <1>4, FS_EmptySet
  <2>. QED
    BY <2>1, LatestAssumption
<1>. QED
  BY <1>5 DEF FetchLast, Goto

\* The table's answer shows every reading of the day.
LEMMA TableShowsAll ==
    ASSUME TypeInv, NEW q \in Requests, GetLast5Values(q),
           NEW r \in Stored, r.day = Today(q)
    PROVE  Shown(q, r)'
<1> DEFINE Bucket == {s \in Stored : s.day = Today(q)}
           Top == Newest(Bucket, N)
           Found == {Entry(s) : s \in Top}
<1>1. N \in Nat /\ r \in Bucket
  BY LatestAssumption
<1>2. Bucket \in SUBSET Stored /\ Bucket \subseteq Readings
  BY DEF Stored
<1>3. Timed(Bucket) /\ Distinct(Bucket)
  <2>1. IsFiniteSet(Bucket)
    BY <1>2, FS_Subset DEF TypeInv, FiniteInv
  <2>2. \A s \in Bucket : s.at \in Int
    BY <1>2, ReadingsAssumption
  <2>3. \A s, t \in Bucket : s.at = t.at => s = t
    BY <1>2, LatestAssumption
  <2>. QED
    BY <2>1, <2>2, <2>3 DEF Timed, Distinct
<1>4. res'[q] = Found
  BY DEF GetLast5Values, TypeInv, TypeOK
<1>5. CASE r \in Top
  BY <1>4, <1>5 DEF Shown
<1>6. CASE r \notin Top
  <2>1. /\ IsFiniteSet(Top)
        /\ Cardinality(Top) = N
        /\ \A s \in Top : s.at > r.at
    <3>. HIDE DEF Bucket
    <3>. QED
      BY <1>1, <1>3, <1>6, NewestAreNewer
  <2>2. Cardinality(Found) = N
    <3> DEFINE image == [s \in Top |-> Entry(s)]
    <3>1. Top \subseteq Bucket
      BY DEF Newest
    <3>2. image \in [Top -> Found] /\ \A e \in Found : \E s \in Top : image[s] = e
      OBVIOUS
    <3>3. \A s, t \in Top : image[s] = image[t] => s = t
      BY <1>3, <3>1 DEF Entry, Distinct
    <3>4. image \in Bijection(Top, Found)
      <4>. HIDE DEF image, Top, Found
      <4>. QED
        BY <3>2, <3>3 DEF Bijection, Injection, Surjection, IsInjective
    <3>5. ExistsBijection(Top, Found)
      BY <3>4 DEF ExistsBijection
    <3>. HIDE DEF Top, Found
    <3>. QED
      BY <2>1, <3>5, FS_Bijection
  <2>3. {e \in Found : e.at > r.at} = Found
    BY <2>1 DEF Entry
  <2>4. {e \in res'[q] : e.at > r.at} = Found
    BY <1>4, <2>3
  <2>. QED
    BY <2>2, <2>4 DEF Shown
<1>. QED
  BY <1>5, <1>6

\* What q has answered depends on nothing but the readings and q's own state.
LEMMA AnsweredStays ==
    ASSUME UNCHANGED readings, NEW q \in Requests, Answered(q),
           pc[q] \in {"store", "expire", "ok"} \/ pc'[q] = pc[q],
           began'[q] = began[q], res'[q] = res[q]
    PROVE  Answered(q)'
<1>1. Stored' = Stored /\ arrived' = arrived
  BY DEF readings, Stored
<1>2. Today(q)' = Today(q)
  BY DEF Today, DayOf
<1>. QED
  BY <1>1, <1>2 DEF Answered, Shown

\* LatestInv is inductive.
LEMMA LatestStep ==
    ASSUME LatestInv, [Next]_vars
    PROVE  LatestInv'
<1>1. TypeInv'
  BY TypeStep DEF LatestInv
<1>2. CASE Tick
  <2>1. UNCHANGED <<arrived, pc, began, res, todo, cache>> /\ clock' = clock + 1
    BY <1>2 DEF Tick, request
  <2>2. Begun' /\ NeverFetched'
    BY <2>1 DEF LatestInv, Begun, NeverFetched, TypeInv, TypeOK, ReadingsTypeOK
  <2>3. Stored' = Stored /\ \A q \in Requests : Today(q)' = Today(q)
    BY <2>1 DEF Stored, Today, DayOf
  <2>4. \A q \in Requests : Answered(q)'
    BY <2>1, <2>3 DEF LatestInv, Answered, Shown
  <2>. QED
    BY <1>1, <2>2, <2>4 DEF LatestInv
<1>3. CASE Arrive
  <2>1. PICK r \in Readings : Insert(r) /\ UNCHANGED <<request, cache, slipped>>
    BY <1>3 DEF Arrive
  <2>2. UNCHANGED <<clock, pc, began, res, todo, cache>>
    BY <2>1 DEF Insert, request
  <2>3. /\ Stored' = Stored \cup {r}
        /\ arrived'[r] = clock
        /\ \A s \in Stored : arrived'[s] = arrived[s]
    BY <2>1, InsertTyped DEF LatestInv, TypeInv, TypeOK
  <2>4. Begun' /\ NeverFetched'
    BY <2>2 DEF LatestInv, Begun, NeverFetched
  <2>5. ASSUME NEW q \in Requests PROVE Answered(q)'
    <3>1. Today(q)' = Today(q)
      BY <2>2 DEF Today, DayOf
    <3>2. pc[q] # "idle" => ~(arrived'[r] < began[q])
      BY <2>3 DEF LatestInv, Begun, TypeInv, TypeOK, ReadingsTypeOK
    <3>. QED
      BY <2>2, <2>3, <3>1, <3>2 DEF LatestInv, Answered, Shown
  <2>. QED
    BY <1>1, <2>4, <2>5 DEF LatestInv
<1>4. ASSUME NEW q \in Requests, Serve(q) PROVE LatestInv'
  <2>1. UNCHANGED readings /\ clock' = clock
    BY <1>4 DEF Serve, Start, FetchLast, FetchFails, GetLast5Values, QueryFails, Store, Expire, Reply, readings
  <2>2. \A p \in Requests \ {q} : pc'[p] = pc[p] /\ began'[p] = began[p] /\ res'[p] = res[p]
    BY <1>4 DEF Serve, Start, FetchLast, FetchFails, GetLast5Values, QueryFails, Store, Expire, Reply,
                Goto, LatestInv, TypeInv, TypeOK
  <2>3. \A p \in Requests \ {q} : Answered(p)'
    BY <2>1, <2>2, AnsweredStays DEF LatestInv
  <2>4. Begun'
    BY <1>4, <2>1 DEF Serve, Start, FetchLast, FetchFails, GetLast5Values, QueryFails, Store, Expire, Reply,
                      Goto, LatestInv, TypeInv, TypeOK, ReadingsTypeOK, Begun
  <2>5. NeverFetched'
    <3>1. CASE UNCHANGED cache
      BY <3>1 DEF LatestInv, NeverFetched
    <3>2. CASE Store(q)
      <4>1. \/ UNCHANGED cache
            \/ \E members, until : PutSet(StoreKey(q), members, until)
        BY <3>2 DEF Store
      <4>. QED
        BY <4>1 DEF PutSet, StoreKey, LatestInv, NeverFetched
    <3>3. CASE Expire(q)
      <4>1. \A z \in cache : z = [key |-> z.key, members |-> z.members, until |-> z.until]
        BY DEF LatestInv, TypeInv, TypeOK
      <4>2. \A y \in cache' : \E z \in cache : y.key = z.key
        BY <3>3, <4>1 DEF Expire
      <4>. QED
        BY <4>2 DEF LatestInv, NeverFetched
    <3>. QED
      BY <1>4, <3>1, <3>2, <3>3 DEF Serve, Start, FetchLast, FetchFails, GetLast5Values, QueryFails, Reply
  <2>6. Answered(q)'
    <3>1. CASE Start(q)
      BY <3>1 DEF Start, Goto, Answered, LatestInv, TypeInv, TypeOK
    <3>2. CASE FetchLast(q)
      BY <3>2, FetchFindsNothing DEF Answered, LatestInv, TypeInv, TypeOK
    <3>3. CASE FetchFails(q) \/ QueryFails(q)
      BY <3>3 DEF FetchFails, QueryFails, Goto, Answered, LatestInv, TypeInv, TypeOK
    <3>4. CASE GetLast5Values(q)
      <4>1. Stored' = Stored /\ Today(q)' = Today(q)
        BY <2>1, <3>4 DEF GetLast5Values, readings, Stored, Today, DayOf
      <4>2. \A r \in Stored : r.day = Today(q) => Shown(q, r)'
        BY <3>4, TableShowsAll DEF LatestInv
      <4>. QED
        BY <4>1, <4>2 DEF Answered
    <3>5. CASE Store(q) \/ Expire(q) \/ Reply(q)
      <4>1. began' = began /\ res' = res
        BY <3>5 DEF Store, Expire, Reply
      <4>2. pc[q] \in {"store", "expire", "ok"}
        BY <3>5 DEF Store, Expire, Reply
      <4>. QED
        BY <2>1, <4>1, <4>2, AnsweredStays DEF LatestInv
    <3>. QED
      BY <1>4, <3>1, <3>2, <3>3, <3>4, <3>5 DEF Serve
  <2>. QED
    BY <1>1, <2>3, <2>4, <2>5, <2>6 DEF LatestInv
<1>5. CASE UNCHANGED vars
  <2>1. UNCHANGED <<readings, clock, pc, began, res, todo, cache>>
    BY <1>5 DEF vars, request, readings
  <2>2. \A q \in Requests : Answered(q)'
    BY <2>1, AnsweredStays DEF LatestInv
  <2>. QED
    BY <1>1, <2>1, <2>2 DEF LatestInv, Begun, NeverFetched
<1>. QED
  BY <1>2, <1>3, <1>4, <1>5 DEF Next

\* The inductive invariant holds in every reachable state.
LEMMA LatestInvariant == Spec => []LatestInv
<1>1. Init => LatestInv
  <2>1. ASSUME Init PROVE LatestInv
    BY <2>1, TypeInit DEF Init, LatestInv, Begun, NeverFetched, Answered
  <2>. QED
    BY <2>1
<1>. QED
  BY <1>1, LatestStep, PTL DEF Spec

\* No answer leaves out a reading of the day in favour of older ones, for any number
\* of requests, readings and values asked for (latestHandler, GetLast5Values).
THEOREM LatestLeavesNothingNewerOut == Spec => []NothingNewerMissed
<1>1. LatestInv => NothingNewerMissed
  BY DEF LatestInv, Answered, NothingNewerMissed
<1>. QED
  BY <1>1, LatestInvariant, PTL

-----------------------------------------------------------------------------
(* What is stored expires. *)

\* The life of z is bounded, or one of the requests that store under its key has yet
\* to bound it or has failed to.
Expires(z) ==
    \/ z.until # Never /\ z.until <= clock + Life
    \/ \E q \in Requests : StoreKey(q) = z.key /\ (pc[q] = "expire" \/ q \in slipped)

\* Only a request that has begun can have failed.
ExpiryInv ==
    /\ TypeInv
    /\ \A q \in slipped : pc[q] # "idle"
    /\ \A z \in cache : Expires(z)

\* A request that is on its way stores under the key it always stores under.
LEMMA StoreKeyStays ==
    ASSUME NEW q \in Requests, began'[q] = began[q]
    PROVE  StoreKey(q)' = StoreKey(q)
BY DEF StoreKey, Today, DayOf

\* What becomes of the witnesses of a set's expiry when a request other than those
\* that end an "expire" goes on.
LEMMA ExpiryStays ==
    ASSUME ExpiryInv, NEW z \in cache, clock' \in Int, clock' >= clock,
           slipped \subseteq slipped',
           \A q \in Requests : pc[q] # "idle" => began'[q] = began[q],
           \A q \in Requests : pc[q] = "expire" =>
               \/ pc'[q] = "expire"
               \/ q \in slipped'
               \/ StoreKey(q) # z.key
    PROVE  Expires(z)'
<1>1. CASE z.until # Never /\ z.until <= clock + Life
  <2>1. z.until \in Int /\ clock \in Int /\ Life \in Int
    BY <1>1, LatestAssumption DEF ExpiryInv, TypeInv, TypeOK, ReadingsTypeOK
  <2>. QED
    BY <1>1, <2>1 DEF Expires
<1>2. CASE \E q \in Requests : StoreKey(q) = z.key /\ (pc[q] = "expire" \/ q \in slipped)
  <2>1. PICK q \in Requests : StoreKey(q) = z.key /\ (pc[q] = "expire" \/ q \in slipped)
    BY <1>2
  <2>2. StoreKey(q)' = StoreKey(q)
    BY <2>1, StoreKeyStays DEF ExpiryInv
  <2>. QED
    BY <2>1, <2>2 DEF Expires
<1>. QED
  BY <1>1, <1>2 DEF ExpiryInv, Expires

\* One round's ZADD leaves the sets with an expiry, or with a request that sees to it.
LEMMA StoreExpires ==
    ASSUME ExpiryInv, NEW q \in Requests, Store(q)
    PROVE  \A z \in cache' : Expires(z)'
<1> DEFINE e == CHOOSE f \in Newest(todo[q], 1) : TRUE
           key == StoreKey(q)
           members == ZAdd(Members(key), e)
           new == [key |-> key, members |-> members, until |-> Expiry(key)]
<1>1. clock' = clock /\ clock \in Int /\ began' = began
  BY DEF Store, readings, ExpiryInv, TypeInv, TypeOK, ReadingsTypeOK
<1>2. /\ slipped \subseteq slipped'
      /\ \A p \in Requests : pc[p] = "expire" => pc'[p] = "expire"
  BY DEF Store, Slips, Goto, ExpiryInv, TypeInv, TypeOK
<1>3. \A z \in cache : Expires(z)'
  BY <1>1, <1>2, ExpiryStays
<1>4. \/ cache' = cache
      \/ /\ cache' = {z \in cache : z.key # key} \cup {new}
         /\ pc'[q] = "expire" \/ q \in slipped'
  BY DEF Store, PutSet, Slips, Goto, ExpiryInv, TypeInv, TypeOK
<1>5. ASSUME NEW y \in cache', y \notin cache
      PROVE  Expires(y)'
  <2>1. y = new /\ (pc'[q] = "expire" \/ q \in slipped')
    BY <1>4, <1>5
  <2>2. StoreKey(q)' = y.key
    BY <1>1, <2>1, StoreKeyStays
  <2>. QED
    BY <2>1, <2>2 DEF Expires
<1>. HIDE DEF new, key
<1>. QED
  BY <1>3, <1>5

\* EXPIRE bounds the life of the set that the request added to; if it fails, the
\* request has slipped.
LEMMA ExpireExpires ==
    ASSUME ExpiryInv, NEW q \in Requests, Expire(q)
    PROVE  \A z \in cache' : Expires(z)'
<1> DEFINE key == StoreKey(q)
<1>1. clock' = clock /\ clock \in Int /\ Life \in Int /\ began' = began /\ pc[q] = "expire"
  BY LatestAssumption DEF Expire, readings, ExpiryInv, TypeInv, TypeOK, ReadingsTypeOK
<1>2. slipped \subseteq slipped' /\ \A p \in Requests \ {q} : pc'[p] = pc[p]
  BY DEF Expire, Slips, Goto, ExpiryInv, TypeInv, TypeOK
<1>3. ASSUME NEW z \in cache, q \in slipped' \/ z.key # key
      PROVE  Expires(z)'
  BY <1>1, <1>2, <1>3, ExpiryStays
<1>4. CASE UNCHANGED cache /\ slipped' = slipped \cup {q}
  BY <1>3, <1>4
<1>5. CASE cache' = {IF z \in Sets(key) THEN [z EXCEPT !.until = clock + Life] ELSE z : z \in cache}
  <2>. SUFFICES ASSUME NEW y \in cache', NEW z \in cache,
                       y = IF z \in Sets(key) THEN [z EXCEPT !.until = clock + Life] ELSE z
                PROVE  Expires(y)'
    BY <1>5
  <2>1. CASE z \in Sets(key)
    <3>1. y.until = clock + Life /\ clock + Life \in Int
      BY <1>1, <2>1 DEF ExpiryInv, TypeInv, TypeOK
    <3>2. clock + Life # Never
      BY <3>1, ReadingsAssumption
    <3>. QED
      BY <1>1, <3>1, <3>2 DEF Expires
  <2>2. CASE z \notin Sets(key) /\ z.key # key
    BY <1>3, <2>2
  <2>3. CASE z \notin Sets(key) /\ z.key = key
    \* This set has expired: nothing is to be done.
    <3>1. z.until # Never /\ ~(clock < z.until) /\ z.until \in Int
      BY <2>3 DEF Sets, Live, ExpiryInv, TypeInv, TypeOK
    <3>2. z.until <= clock + Life
      BY <1>1, <3>1, LatestAssumption
    <3>. QED
      BY <1>1, <2>3, <3>1, <3>2 DEF Expires
  <2>. QED
    BY <2>1, <2>2, <2>3
<1>. QED
  BY <1>4, <1>5 DEF Expire

\* ExpiryInv is inductive.
LEMMA ExpiryStep ==
    ASSUME ExpiryInv, [Next]_vars
    PROVE  ExpiryInv'
<1>1. TypeInv'
  BY TypeStep DEF ExpiryInv
<1>2. CASE Tick \/ Arrive \/ UNCHANGED vars
  <2>1. UNCHANGED <<pc, began, cache, slipped>> /\ clock \in Int /\ clock' \in Int /\ clock' >= clock
    BY <1>2 DEF Tick, Arrive, Insert, vars, request, readings, ExpiryInv, TypeInv, TypeOK, ReadingsTypeOK
  <2>2. \A z \in cache : Expires(z)'
    BY <2>1, ExpiryStays
  <2>. QED
    BY <1>1, <2>1, <2>2 DEF ExpiryInv
<1>3. ASSUME NEW q \in Requests, Serve(q) PROVE ExpiryInv'
  <2>1. \A p \in slipped' : pc'[p] # "idle"
    BY <1>3 DEF Serve, Start, FetchLast, FetchFails, GetLast5Values, QueryFails, Store, Expire, Reply,
                Goto, Slips, ExpiryInv, TypeInv, TypeOK
  <2>2. CASE Store(q)
    BY <1>1, <2>1, <2>2, StoreExpires DEF ExpiryInv
  <2>3. CASE Expire(q)
    BY <1>1, <2>1, <2>3, ExpireExpires DEF ExpiryInv
  <2>4. CASE ~Store(q) /\ ~Expire(q)
    <3>1. UNCHANGED <<clock, cache, slipped>> /\ clock \in Int
      BY <1>3, <2>4 DEF Serve, Start, FetchLast, FetchFails, GetLast5Values, QueryFails, Reply,
                        readings, ExpiryInv, TypeInv, TypeOK, ReadingsTypeOK
    <3>2. /\ \A p \in Requests : pc[p] # "idle" => began'[p] = began[p]
          /\ \A p \in Requests : pc[p] = "expire" => pc'[p] = "expire"
      BY <1>3, <2>4 DEF Serve, Start, FetchLast, FetchFails, GetLast5Values, QueryFails, Reply,
                        Goto, ExpiryInv, TypeInv, TypeOK
    <3>3. \A z \in cache : Expires(z)'
      BY <3>1, <3>2, ExpiryStays
    <3>. QED
      BY <1>1, <2>1, <3>1, <3>3 DEF ExpiryInv
  <2>. QED
    BY <2>2, <2>3, <2>4
<1>. QED
  BY <1>2, <1>3 DEF Next

\* A sorted set expires, or is about to be given its life, or a storing request's call
\* has failed: for any number of concurrent requests for any keys (Store in
\* valkey.go).
THEOREM StoredSetsExpire == Spec => []SetsExpire
<1>1. Init => ExpiryInv
  <2>1. ASSUME Init PROVE ExpiryInv
    BY <2>1, TypeInit DEF Init, ExpiryInv
  <2>. QED
    BY <2>1
<1>2. ExpiryInv => SetsExpire
  BY DEF ExpiryInv, Expires, SetsExpire
<1>. QED
  BY <1>1, <1>2, ExpiryStep, PTL DEF Spec

-----------------------------------------------------------------------------
(* The handler with its cache implements the one without. *)

\* No more than n are the n newest.
LEMMA NewestAreFew ==
    ASSUME NEW S, Timed(S), Distinct(S), NEW n \in Nat
    PROVE  Cardinality(Newest(S, n)) <= n
<1> DEFINE rank == [e \in S |-> Cardinality(After(S, e.at))]
           top == Newest(S, n)
           pick == [e \in top |-> rank[e]]
<1>1. rank \in Bijection(S, 0..(Cardinality(S) - 1))
  BY RanksAreAll
<1>2. top = {e \in S : rank[e] < n}
  BY DEF Newest, After
<1>3. \A e \in top : rank[e] \in 0..(n - 1)
  BY <1>1, <1>2 DEF Bijection, Injection
<1>4. pick \in Injection(top, 0..(n - 1))
  <2>1. pick \in [top -> 0..(n - 1)]
    BY <1>3
  <2>2. \A e, f \in top : pick[e] = pick[f] => e = f
    BY <1>1, <1>2 DEF Bijection, Injection, IsInjective
  <2>. QED
    BY <2>1, <2>2 DEF Injection, IsInjective
<1>5. Cardinality(top) <= Cardinality(0..(n - 1))
  BY <1>4, SizeOfInterval, FS_Injection DEF ExistsInjection
<1>. QED
  BY <1>5, SizeOfInterval

\* The readings of a day's bucket, and those that are found in it.
Bucket(q) == {r \in Stored : r.day = Today(q)}

Top(q) == Newest(Bucket(q), N)

\* The query finds the latest of the bucket (LIMIT ? of the query by descending
\* timestamp).
LEMMA QueryFindsLatest ==
    ASSUME TypeInv, NEW q \in Requests
    PROVE  Top(q) \subseteq Stored /\ Plain!Latest(Bucket(q), Top(q))
<1>1. Bucket(q) \in SUBSET Stored /\ Bucket(q) \subseteq Readings
  BY DEF Bucket, Stored
<1>2. IsFiniteSet(Bucket(q))
  BY <1>1, FS_Subset DEF TypeInv, FiniteInv
<1>3. Timed(Bucket(q)) /\ Distinct(Bucket(q))
  <2>1. \A s \in Bucket(q) : s.at \in Int
    BY <1>1, ReadingsAssumption
  <2>2. \A s, t \in Bucket(q) : s.at = t.at => s = t
    <3>1. \A s, t \in Bucket(q) : s.day = t.day
      BY DEF Bucket
    <3>. QED
      BY <1>1, <3>1, LatestAssumption
  <2>. QED
    BY <1>2, <2>1, <2>2 DEF Timed, Distinct
<1>4. N \in Nat
  BY LatestAssumption
<1>5. Top(q) \subseteq Bucket(q)
  BY DEF Top, Newest
<1>6. Cardinality(Top(q)) <= N
  BY <1>3, <1>4, NewestAreFew DEF Top
<1>7. \A r \in Bucket(q) \ Top(q) : Cardinality(Top(q)) = N /\ \A s \in Top(q) : s.at > r.at
  BY <1>3, <1>4, NewestAreNewer DEF Top
<1>8. Plain!Cardinality(Top(q)) = Cardinality(Top(q))
  BY DEF Plain!Cardinality, Cardinality
<1>. QED
  BY <1>1, <1>5, <1>6, <1>7, <1>8 DEF Plain!Latest

\* What a request has found, as the plain handler sees it.
Found == [q \in Requests |-> IF pc[q] \in {"store", "expire", "ok"} THEN res[q] ELSE {}]

\* A request that goes on changes its own progress alone.
LEMMA ProgressChanges ==
    ASSUME TypeOK, NEW q \in Requests, NEW label \in {"fetch", "query", "store", "expire", "ok", "error"},
           Goto(q, label)
    PROVE  /\ pc'[q] = label
           /\ \A p \in Requests \ {q} : pc'[p] = pc[p]
           /\ Progress' = [Progress EXCEPT ![q] =
                             IF label \in {"fetch", "query"} THEN "asked"
                             ELSE IF label \in {"store", "expire"} THEN "found" ELSE label]
<1>1. pc' = [pc EXCEPT ![q] = label] /\ pc'[q] = label /\ \A p \in Requests \ {q} : pc'[p] = pc[p]
  BY DEF Goto, TypeOK
<1> DEFINE new == IF label \in {"fetch", "query"} THEN "asked"
                  ELSE IF label \in {"store", "expire"} THEN "found" ELSE label
<1>2. \A p \in Requests : Progress'[p] = IF p = q THEN new ELSE Progress[p]
  BY <1>1 DEF Progress
<1>3. Progress \in [Requests -> {Progress[p] : p \in Requests}] /\ DOMAIN Progress' = Requests
  BY DEF Progress
<1>4. Progress' = [p \in Requests |-> Progress'[p]]
  BY DEF Progress
<1>. QED
  BY <1>1, <1>2, <1>3, <1>4

\* Every step of a handler is a step of the plain one, or none.
LEMMA ServeIsPlain ==
    ASSUME LatestInv, NEW q \in Requests, Serve(q)
    PROVE  \/ Plain!Ask(q) \/ Plain!Read(q) \/ Plain!Answer(q) \/ Plain!Fail(q)
           \/ UNCHANGED Plain!vars
<1>1. TypeInv /\ TypeOK
  BY DEF LatestInv, TypeInv
<1>2. /\ Progress[q] = "new" <=> pc[q] = "idle"
      /\ Progress[q] = "asked" <=> pc[q] \in {"fetch", "query"}
      /\ Progress[q] = "found" <=> pc[q] \in {"store", "expire"}
  BY <1>1 DEF Progress, TypeOK
<1>3. CASE Start(q)
  <2>1. Progress' = [Progress EXCEPT ![q] = "asked"]
    BY <1>1, <1>3, ProgressChanges DEF Start
  <2>2. Found' = Found
    BY <1>1, <1>3, ProgressChanges DEF Start, Found
  <2>. QED
    BY <1>2, <1>3, <2>1, <2>2 DEF Start, Plain!Ask, Found, readings, Plain!readings
<1>4. CASE FetchLast(q)
  <2>1. pc' = [pc EXCEPT ![q] = "query"] /\ pc[q] = "fetch"
    BY <1>4, FetchFindsNothing DEF FetchLast
  <2>2. Progress' = [Progress EXCEPT ![q] = "asked"]
    BY <1>1, <2>1, ProgressChanges DEF Goto
  <2>3. Progress' = Progress
    BY <1>2, <2>1, <2>2 DEF Progress
  <2>4. Found' = Found
    BY <1>1, <1>4, <2>1 DEF FetchLast, Found, TypeOK
  <2>. QED
    BY <1>4, <2>3, <2>4 DEF FetchLast, Found, Plain!vars, readings, Plain!readings
<1>5. CASE FetchFails(q) \/ QueryFails(q)
  <2>1. Progress' = [Progress EXCEPT ![q] = "error"]
    BY <1>1, <1>5, ProgressChanges DEF FetchFails, QueryFails
  <2>2. Found' = Found
    BY <1>1, <1>5, ProgressChanges DEF FetchFails, QueryFails, Found
  <2>. QED
    BY <1>2, <1>5, <2>1, <2>2
    DEF FetchFails, QueryFails, Plain!Fail, Found, readings, Plain!readings
<1>6. CASE GetLast5Values(q)
  <2>1. pc[q] = "query" /\ UNCHANGED <<readings, began>>
    BY <1>6 DEF GetLast5Values
  <2>2. Progress' = [Progress EXCEPT ![q] = "found"]
    BY <1>1, <1>6, ProgressChanges DEF GetLast5Values
  <2>3. res' = [res EXCEPT ![q] = {Entry(r) : r \in Top(q)}]
    BY <1>6 DEF GetLast5Values, Top, Bucket
  <2>4. Found' = [Found EXCEPT ![q] = {Entry(r) : r \in Top(q)}]
    BY <1>1, <1>6, <2>3, ProgressChanges DEF GetLast5Values, Found, TypeOK
  <2>5. Top(q) \subseteq Stored /\ Plain!Latest(Bucket(q), Top(q))
    BY <1>1, QueryFindsLatest
  <2>6. {Entry(r) : r \in Top(q)} = {[x \in Readings |-> Entry(x)][r] : r \in Top(q)}
    BY <2>5 DEF Stored
  <2>7. Bucket(q) = {r \in Plain!Stored : r.day = Plain!DayOf(began[q] + Zone)}
    BY DEF Bucket, Today, Stored, Plain!Stored, DayOf, Plain!DayOf
  <2>8. Top(q) \in SUBSET Plain!Stored
    BY <2>5 DEF Stored, Plain!Stored
  <2>. QED
    BY <1>2, <2>1, <2>2, <2>4, <2>5, <2>6, <2>7, <2>8
    DEF Plain!Read, Found, readings, Plain!readings
<1>7. CASE Store(q) \/ Expire(q)
  <2>1. \/ pc' = pc
        \/ Goto(q, "expire") /\ pc[q] = "store"
        \/ Goto(q, "store") /\ pc[q] = "expire"
    BY <1>7 DEF Store, Expire
  <2>2. UNCHANGED <<readings, began, res>>
    BY <1>7 DEF Store, Expire
  <2>3. Progress' = Progress
    <3>1. CASE pc' = pc
      BY <3>1 DEF Progress
    <3>2. CASE pc' # pc
      <4>1. Progress' = [Progress EXCEPT ![q] = "found"] /\ Progress[q] = "found"
        BY <1>1, <1>2, <2>1, <3>2, ProgressChanges
      <4>. QED
        BY <4>1 DEF Progress
    <3>. QED
      BY <3>1, <3>2
  <2>4. Found' = Found
    <3>1. \A p \in Requests : pc'[p] \in {"store", "expire", "ok"} <=> pc[p] \in {"store", "expire", "ok"}
      BY <1>1, <2>1, ProgressChanges
    <3>. QED
      BY <2>2, <3>1 DEF Found
  <2>. QED
    BY <2>2, <2>3, <2>4 DEF Found, Plain!vars, readings, Plain!readings
<1>8. CASE Reply(q)
  <2>1. Progress' = [Progress EXCEPT ![q] = "ok"]
    BY <1>1, <1>8, ProgressChanges DEF Reply
  <2>2. Found' = Found
    BY <1>1, <1>8, ProgressChanges DEF Reply, Found
  <2>. QED
    BY <1>2, <1>8, <2>1, <2>2 DEF Reply, Plain!Answer, Found, readings, Plain!readings
<1>. QED
  BY <1>3, <1>4, <1>5, <1>6, <1>7, <1>8 DEF Serve

\* GET /latest answers as if it had no cache, whatever the cache does
\* (latestHandler).
THEOREM LatestImplementsUncached == Spec => CacheIsInvisible
<1>1. Init => Plain!Init
  BY DEF Init, Plain!Init, Progress
<1>2. LatestInv /\ [Next]_vars => [Plain!Next]_(Plain!vars)
  <2>. SUFFICES ASSUME LatestInv, [Next]_vars
                PROVE  Plain!Next \/ UNCHANGED Plain!vars
    OBVIOUS
  <2>1. CASE Tick
    BY <2>1 DEF Tick, request, Progress, Plain!Next, Plain!Environment
  <2>2. CASE Arrive
    BY <2>2 DEF Arrive, Insert, request, Progress, Plain!Next, Plain!Environment, Plain!Insert
  <2>3. CASE \E q \in Requests : Serve(q)
    BY <2>3, ServeIsPlain DEF Plain!Next
  <2>4. CASE UNCHANGED vars
    BY <2>4 DEF vars, request, readings, Progress, Plain!vars, Plain!readings
  <2>. QED
    BY <2>1, <2>2, <2>3, <2>4 DEF Next
<1>. QED
  BY <1>1, <1>2, LatestInvariant, PTL DEF Spec, CacheIsInvisible, Plain!Spec
=============================================================================
