--------------------------- MODULE RegistryProofs ---------------------------
(***************************************************************************)
(* Proofs about module Registry, for any set of requests, owners and       *)
(* names, and any way the sensor ids agree in their first characters.      *)
(*                                                                         *)
(* The inductive invariant speaks of one request at a time.  A step        *)
(* changes the records of one request only (Frame), or is a restart, so    *)
(* the others keep their part, and of the request itself only what its own *)
(* action disturbs has to be looked at.                                    *)
(***************************************************************************)
EXTENDS Registry, TLAPS

Waiting == {"idle", "check", "exists"}

AfterInsert == {"index", "user", "credentials"}

\* EMQX has the user of r's name, r's own or another sensor's, unless creating it
\* failed.
UserThere(r) ==
    broker[Username(r)] = r \/ Shared(r) \/ <<"user", r>> \in failed

\* The request has got past the call that creates the user.
PastUser(r) ==
    \/ pc[r] = "credentials"
    \/ r \in creds
    \/ <<"credentials", r>> \in late
    \/ pc[r] = "created" /\ arg[r].kind = "sensor"

\* What has been done when a request is at its call, or at its answer.
Sound(r) ==
    /\ pc[r] \notin Waiting /\ <<"check", r>> \notin failed =>
          ~ \E q \in seen[r] : SameName(q, r)
    /\ pc[r] \in {"user", "credentials"} => r \in indexed
    /\ pc[r] = "created" =>
          /\ r \in stored
          /\ arg[r].kind = "sensor" =>
                r \in indexed /\ (r \in creds \/ <<"credentials", r>> \in failed)
    /\ PastUser(r) => UserThere(r)
    /\ broker[Username(r)] = r \/ <<"user", r>> \in late =>
          pc[r] \in {"credentials", "created", "gone"}

\* A request that has not inserted its row has left no trace; an index entry or
\* credentials, written or late, are of a sensor whose row is there; a late write
\* is one that failed; and "exists" is answered for another request's row.
Good(r) ==
    /\ pc[r] \in Waiting => r \notin stored /\ \A c \in Calls : <<c, r>> \notin late
    /\ r \in indexed \/ r \in creds \/ (\E c \in AfterInsert : <<c, r>> \in late) =>
          r \in stored /\ arg[r].kind = "sensor"
    /\ \A c \in Calls : <<c, r>> \in late => <<c, r>> \in failed
    /\ seen[r] \subseteq stored
    /\ pc[r] = "exists" => \E q \in stored \ {r} : SameName(q, r)
    /\ Sound(r)

\* An MQTT user belongs to a sensor whose user name it is.
BrokerTrue ==
    \A u \in Usernames : broker[u] # "none" =>
        /\ broker[u] \in stored
        /\ arg[broker[u]].kind = "sensor"
        /\ Username(broker[u]) = u

Inv ==
    /\ TypeOK
    /\ \A r \in Requests : Good(r)
    /\ BrokerTrue

-----------------------------------------------------------------------------
\* A step of request r, or of a late write of r, as the other requests see it.
Grows ==
    /\ arg' = arg
    /\ stored \subseteq stored'
    /\ failed \subseteq failed'
    /\ \A u \in Usernames : broker[u] # "none" => broker'[u] = broker[u]

Same(q) ==
    /\ pc'[q] = pc[q]
    /\ seen'[q] = seen[q]
    /\ q \in stored' <=> q \in stored
    /\ q \in indexed' <=> q \in indexed
    /\ q \in creds' <=> q \in creds
    /\ broker'[Username(q)] = q => broker[Username(q)] = q
    /\ \A c \in Calls : <<c, q>> \in failed' <=> <<c, q>> \in failed
    /\ \A c \in Calls : <<c, q>> \in late' <=> <<c, q>> \in late

Frame(r) == Grows /\ \A q \in Requests \ {r} : Same(q)

\* A request's user name is one EMQX can have.
LEMMA UsernameType ==
    ASSUME TypeOK, NEW r \in Requests
    PROVE  Username(r) \in Usernames
BY DEF TypeOK, Argument, Username, Usernames

\* Once EMQX has the user, or has failed to create it, that is so for good.
LEMMA UserStays ==
    ASSUME TypeOK, Grows, NEW r \in Requests, UserThere(r)
    PROVE  UserThere(r)'
<1>1. Username(r) \in Usernames /\ Username(r)' = Username(r)
  BY UsernameType DEF Grows, Username
<1>2. CASE broker[Username(r)] = r
  BY <1>1, <1>2, RegistryAssumption DEF Grows, UserThere
<1>3. CASE Shared(r)
  <2>1. PICK q \in stored \ {r} : arg[q].kind = "sensor" /\ broker[Username(r)] = q
    BY <1>3 DEF Shared
  <2>2. q # "none"
    BY <2>1, RegistryAssumption DEF TypeOK
  <2>3. broker'[Username(r)'] = q
    BY <1>1, <2>1, <2>2 DEF Grows
  <2>. QED
    BY <2>1, <2>3 DEF Grows, UserThere, Shared
<1>4. CASE <<"user", r>> \in failed
  BY <1>4 DEF Grows, UserThere
<1>. QED
  BY <1>2, <1>3, <1>4 DEF UserThere

\* A request of which nothing changes stays good.
LEMMA SameStaysGood ==
    ASSUME TypeOK, Grows, NEW q \in Requests, Same(q), Good(q)
    PROVE  Good(q)'
<1>1. arg' = arg /\ stored \subseteq stored' /\ Username(q)' = Username(q)
  BY DEF Grows, Username
<1>2. Sound(q)'
  <2>1. Sound(q) /\ seen[q] \subseteq stored
    BY DEF Good
  <2>2. pc'[q] \notin Waiting /\ <<"check", q>> \notin failed' =>
            ~ \E x \in seen'[q] : SameName(x, q)'
    BY <1>1, <2>1 DEF Sound, Same, SameName, Calls
  <2>3. UserThere(q) => UserThere(q)'
    BY UserStays
  <2>. QED
    BY <1>1, <2>1, <2>2, <2>3 DEF Sound, PastUser, Same, Calls
<1>3. pc'[q] = "exists" => \E x \in stored' \ {q} : SameName(x, q)'
  BY <1>1 DEF Good, Same, SameName
<1>. QED
  BY <1>1, <1>2, <1>3 DEF Good, Same, AfterInsert, Calls

-----------------------------------------------------------------------------
\* A write, in time or late, as far as the stores are concerned.
LEMMA WriteTouches ==
    ASSUME TypeOK, BrokerTrue, NEW r \in Requests, NEW call \in Calls,
           call = "user" => r \in stored /\ arg[r].kind = "sensor",
           arg' = arg,
           failed \subseteq failed',
           Nothing \/ Apply(call, r)
    PROVE  /\ Grows
           /\ BrokerTrue'
           /\ stored' \subseteq Requests
           /\ indexed' \subseteq Requests
           /\ creds' \subseteq Requests
           /\ broker' \in [Usernames -> Requests \cup {"none"}]
           /\ \A q \in Requests \ {r} :
                 /\ q \in stored' <=> q \in stored
                 /\ q \in indexed' <=> q \in indexed
                 /\ q \in creds' <=> q \in creds
                 /\ broker'[Username(q)] = q => broker[Username(q)] = q
           /\ broker'[Username(r)] = r => broker[Username(r)] = r \/ call = "user"
           /\ r \in indexed' => r \in indexed \/ call = "index"
           /\ r \in creds' => r \in creds \/ call = "credentials"
<1>1. CASE Nothing
  BY <1>1 DEF Nothing, Grows, BrokerTrue, TypeOK, Username
<1>2. CASE Apply(call, r)
  <2>1. /\ stored \subseteq stored'
        /\ stored' \subseteq stored \cup {r}
        /\ indexed' \subseteq indexed \cup {r}
        /\ indexed \subseteq indexed'
        /\ creds' \subseteq creds \cup {r}
        /\ creds \subseteq creds'
        /\ call # "index" => indexed' = indexed
        /\ call # "credentials" => creds' = creds
    BY <1>2 DEF Apply
  <2>2. Username(r) \in Usernames
    BY UsernameType
  <2>3. broker' \in [Usernames -> Requests \cup {"none"}]
    BY <1>2, <2>2 DEF Apply, TypeOK
  <2>4. \A u \in Usernames : broker[u] # "none" => broker'[u] = broker[u]
    BY <1>2, <2>2 DEF Apply, TypeOK
  <2>5. \A u \in Usernames : broker'[u] # broker[u] =>
            u = Username(r) /\ broker'[u] = r /\ call = "user"
    BY <1>2, <2>2 DEF Apply, TypeOK
  <2>6. \A q : Username(q)' = Username(q)
    BY DEF Username
  <2>7. BrokerTrue'
    BY <2>1, <2>5, <2>6 DEF BrokerTrue
  <2>8. \A q \in Requests : broker'[Username(q)] = q => broker[Username(q)] = q \/ (q = r /\ call = "user")
    BY <2>5, UsernameType
  <2>. QED
    BY <2>1, <2>3, <2>4, <2>7, <2>8 DEF Grows, TypeOK
<1>. QED
  BY <1>1, <1>2

\* Where a request goes on after a write.
GoesOn(call, ok, kind) ==
    CASE call = "insert" ->
            IF ok THEN (IF kind = "field" THEN "created" ELSE "index") ELSE "error"
      [] call = "index" -> IF ok THEN "user" ELSE "error"
      [] call = "user" -> "credentials"
      [] call = "credentials" -> "created"

\* EMQX has the user now: as this sensor's, or as that of a sensor whose user
\* name is the same.
LEMMA UserIsKnown ==
    ASSUME Inv, NEW r \in Requests, Apply("user", r), arg' = arg
    PROVE  UserThere(r)'
<1>1. TypeOK /\ BrokerTrue /\ Username(r) \in Usernames
  BY UsernameType DEF Inv
<1>2. Username(r)' = Username(r) /\ stored' = stored
  BY DEF Username, Apply
<1>3. CASE broker[Username(r)] = "none"
  BY <1>1, <1>2, <1>3 DEF Apply, TypeOK, UserThere
<1>4. CASE broker[Username(r)] # "none"
  <2>1. broker' = broker
    BY <1>4 DEF Apply
  <2>2. broker[Username(r)] \in stored /\ arg[broker[Username(r)]].kind = "sensor"
    BY <1>1, <1>4 DEF BrokerTrue
  <2>3. CASE broker[Username(r)] = r
    BY <1>2, <2>1, <2>3 DEF UserThere
  <2>4. CASE broker[Username(r)] # r
    BY <1>2, <2>1, <2>2, <2>4 DEF UserThere, Shared
  <2>. QED
    BY <2>3, <2>4
<1>. QED
  BY <1>3, <1>4

\* A request's own write and where it goes on.
LEMMA OwnWrite ==
    ASSUME Inv, NEW r \in Requests, NEW call \in Calls \ {"check"}, NEW ok \in BOOLEAN,
           call = "insert" \/ arg[r].kind = "sensor",
           Write(call, r, ok),
           Goto(r, GoesOn(call, ok, arg[r].kind))
    PROVE  TypeOK' /\ Frame(r) /\ Good(r)' /\ BrokerTrue'
<1> DEFINE label == GoesOn(call, ok, arg[r].kind)
<1>a. call \in {"insert"} \cup AfterInsert
  BY DEF Calls, AfterInsert
<1>b. label \in (Calls \cup Answers) \ Waiting
  BY <1>a DEF GoesOn, Calls, Answers, Waiting, AfterInsert
<1>1. /\ pc[r] = call
      /\ arg' = arg
      /\ seen' = seen
      /\ Nothing \/ Apply(call, r)
      /\ ok => Apply(call, r) /\ late' = late
      /\ failed \subseteq failed'
      /\ failed' \subseteq failed \cup {<<call, r>>}
      /\ ~ok => <<call, r>> \in failed'
      /\ late \subseteq late'
      /\ late' \subseteq late \cup {<<call, r>>}
  BY DEF Write, Fail
<1>2. TypeOK /\ BrokerTrue /\ Good(r) /\ Sound(r)
  BY DEF Inv, Good
<1>3. call # "insert" => r \in stored /\ arg[r].kind = "sensor"
  BY <1>1, <1>2, <1>a DEF TypeOK, AfterInsert
<1>4. /\ pc'[r] = label
      /\ \A q \in Requests \ {r} : pc'[q] = pc[q]
      /\ pc' \in [Requests -> Calls \cup Answers \cup {"idle"}]
  BY <1>2, <1>b DEF Goto, TypeOK
<1>5. /\ Grows
      /\ BrokerTrue'
      /\ stored' \subseteq Requests
      /\ indexed' \subseteq Requests
      /\ creds' \subseteq Requests
      /\ broker' \in [Usernames -> Requests \cup {"none"}]
      /\ \A q \in Requests \ {r} :
            /\ q \in stored' <=> q \in stored
            /\ q \in indexed' <=> q \in indexed
            /\ q \in creds' <=> q \in creds
            /\ broker'[Username(q)] = q => broker[Username(q)] = q
      /\ broker'[Username(r)] = r => broker[Username(r)] = r \/ call = "user"
      /\ r \in indexed' => r \in indexed \/ call = "index"
      /\ r \in creds' => r \in creds \/ call = "credentials"
  BY <1>1, <1>2, <1>3, WriteTouches
<1>6. /\ stored \subseteq stored'
      /\ r \in indexed => r \in indexed'
      /\ ok /\ call = "insert" => r \in stored'
      /\ ok /\ call = "index" => r \in indexed'
      /\ ok /\ call = "credentials" => r \in creds'
  BY <1>1, <1>5 DEF Grows, Nothing, Apply
<1>7. late' \subseteq Writes /\ failed' \subseteq Calls \X Requests
  BY <1>1, <1>2 DEF TypeOK, Writes
<1>8. label \in AfterInsert => arg[r].kind = "sensor" /\ r \in stored'
  <2>1. CASE call = "insert"
    <3>1. arg[r].kind \in {"field", "sensor"}
      BY <1>2 DEF TypeOK, Argument
    <3>. QED
      BY <1>6, <2>1, <3>1 DEF GoesOn, AfterInsert
  <2>2. CASE call # "insert"
    BY <1>3, <1>6, <2>2
  <2>. QED
    BY <2>1, <2>2
<1>. HIDE DEF label
<1>9. TypeOK'
  <2>1. ASSUME NEW q \in Requests, pc'[q] \in AfterInsert
        PROVE  arg'[q].kind = "sensor" /\ q \in stored'
    <3>1. CASE q = r
      BY <1>1, <1>4, <1>8, <2>1, <3>1
    <3>2. CASE q # r
      BY <1>1, <1>2, <1>4, <1>6, <2>1, <3>2 DEF TypeOK, AfterInsert
    <3>. QED
      BY <3>1, <3>2
  <2>. QED
    BY <1>1, <1>2, <1>4, <1>5, <1>7, <2>1 DEF TypeOK, AfterInsert
<1>10. Frame(r)
  BY <1>1, <1>4, <1>5 DEF Frame, Same
<1>11. Sound(r)'
  <2>1. <<"check", r>> \notin failed' => ~ \E q \in seen'[r] : SameName(q, r)'
    BY <1>1, <1>2, <1>a DEF Sound, SameName, Waiting, AfterInsert
  <2>2. label \in {"user", "credentials"} => r \in indexed'
    <3>1. label = "user" => call = "index" /\ ok
      BY <1>a DEF label, GoesOn, AfterInsert
    <3>2. label = "credentials" => call = "user"
      BY <1>a DEF label, GoesOn, AfterInsert
    <3>. QED
      BY <1>1, <1>2, <1>6, <3>1, <3>2 DEF Sound
  <2>3. label = "created" =>
            /\ r \in stored'
            /\ arg'[r].kind = "sensor" =>
                  r \in indexed' /\ (r \in creds' \/ <<"credentials", r>> \in failed')
    <3>1. label = "created" => (call = "insert" /\ ok /\ arg[r].kind = "field") \/ call = "credentials"
      BY <1>a DEF label, GoesOn, AfterInsert
    <3>. QED
      BY <1>1, <1>2, <1>3, <1>6, <3>1 DEF Sound
  <2>4. PastUser(r)' => UserThere(r)'
    <3>1. label = "credentials" => call = "user"
      BY <1>a DEF label, GoesOn, AfterInsert
    <3>2. label = "created" /\ arg[r].kind = "sensor" => call = "credentials"
      BY <1>a DEF label, GoesOn, AfterInsert
    <3>3. call = "user" => UserThere(r)'
      <4>1. CASE ok /\ call = "user"
        BY <1>1, <4>1, UserIsKnown
      <4>2. CASE ~ok /\ call = "user"
        BY <1>1, <4>2 DEF UserThere
      <4>. QED
        BY <4>1, <4>2
    <3>4. UserThere(r) => UserThere(r)'
      BY <1>2, <1>5, UserStays
    <3>5. call = "credentials" \/ r \in creds \/ <<"credentials", r>> \in late => UserThere(r)
      BY <1>1, <1>2 DEF Sound, PastUser
    <3>. QED
      BY <1>1, <1>4, <1>5, <3>1, <3>2, <3>3, <3>4, <3>5 DEF PastUser
  <2>5. broker'[Username(r)'] = r \/ <<"user", r>> \in late' =>
            label \in {"credentials", "created", "gone"}
    <3>1. Username(r)' = Username(r)
      BY <1>1 DEF Username
    <3>2. call = "user" => label = "credentials"
      BY DEF label, GoesOn
    <3>3. call = "credentials" => label = "created"
      BY DEF label, GoesOn
    <3>4. call \notin {"created", "gone"}
      BY <1>a DEF AfterInsert
    <3>. QED
      BY <1>1, <1>2, <1>5, <3>1, <3>2, <3>3, <3>4 DEF Sound
  <2>. QED
    BY <1>4, <2>1, <2>2, <2>3, <2>4, <2>5 DEF Sound
<1>12. Good(r)'
  <2>1. pc'[r] \notin Waiting
    BY <1>4, <1>b DEF label
  <2>2. r \in indexed' \/ r \in creds' \/ (\E c \in AfterInsert : <<c, r>> \in late')
            => r \in stored' /\ arg'[r].kind = "sensor"
    BY <1>1, <1>2, <1>3, <1>5, <1>6 DEF Good, AfterInsert
  <2>3. \A c \in Calls : <<c, r>> \in late' => <<c, r>> \in failed'
    <3>1. <<call, r>> \in late' /\ <<call, r>> \notin late => ~ok
      BY <1>1
    <3>. QED
      BY <1>1, <1>2, <3>1 DEF Good
  <2>4. seen'[r] \subseteq stored'
    BY <1>1, <1>2, <1>6 DEF Good
  <2>. QED
    BY <1>11, <2>1, <2>2, <2>3, <2>4 DEF Good, Waiting
<1>. QED
  BY <1>5, <1>9, <1>10, <1>12

-----------------------------------------------------------------------------
\* The actions of one request.
LEMMA ArriveGood ==
    ASSUME Inv, NEW r \in Requests, Arrive(r)
    PROVE  TypeOK' /\ Frame(r) /\ Good(r)' /\ BrokerTrue'
<1>1. TypeOK /\ BrokerTrue /\ Good(r)
  BY DEF Inv
<1>2. /\ pc'[r] = "check"
      /\ seen'[r] = stored
      /\ \A q \in Requests \ {r} : pc'[q] = pc[q] /\ seen'[q] = seen[q]
  BY <1>1 DEF Arrive, Goto, TypeOK
<1>3. TypeOK'
  BY <1>1, <1>2 DEF Arrive, Goto, TypeOK, Calls
<1>4. Frame(r)
  BY <1>2 DEF Arrive, Frame, Same, Grows
<1>5. BrokerTrue'
  BY <1>1 DEF Arrive, BrokerTrue, Username
<1>6. Good(r)'
  <2>1. pc[r] = "idle"
    BY DEF Arrive
  <2>2. r \notin stored /\ r \notin indexed /\ r \notin creds /\ \A c \in Calls : <<c, r>> \notin late
    BY <1>1, <2>1 DEF Good, Waiting
  <2>3. broker'[Username(r)'] # r
    BY <1>1, <2>1 DEF Arrive, Good, Sound, Username
  <2>4. Sound(r)'
    BY <1>2, <2>2, <2>3 DEF Arrive, Sound, PastUser, Waiting, Calls
  <2>. QED
    BY <1>2, <2>2, <2>4 DEF Arrive, Good, Waiting, AfterInsert, Calls
<1>. QED
  BY <1>3, <1>4, <1>5, <1>6

\* The check finds a row, or knows that there was none when the request came.
LEMMA CheckNamesGood ==
    ASSUME Inv, NEW r \in Requests, CheckNames(r)
    PROVE  TypeOK' /\ Frame(r) /\ Good(r)' /\ BrokerTrue'
<1>1. TypeOK /\ BrokerTrue /\ Good(r)
  BY DEF Inv
<1>2. PICK label \in {"exists", "insert", "error"} :
          /\ Goto(r, label)
          /\ label = "exists" => \E q \in stored : SameName(q, r)
          /\ label # "exists" /\ <<"check", r>> \notin failed' =>
                label = "insert" /\ ~ \E q \in stored : SameName(q, r)
  BY <1>1 DEF CheckNames, Fail, TypeOK
<1>3. /\ pc[r] = "check"
      /\ UNCHANGED <<arg, seen, stored, indexed, creds, broker, late>>
      /\ failed \subseteq failed'
      /\ failed' \subseteq failed \cup {<<"check", r>>}
  BY DEF CheckNames, Fail
<1>4. /\ pc'[r] = label
      /\ \A q \in Requests \ {r} : pc'[q] = pc[q]
      /\ pc' \in [Requests -> Calls \cup Answers \cup {"idle"}]
  BY <1>1, <1>2 DEF Goto, TypeOK, Calls, Answers
<1>5. TypeOK'
  <2>1. failed' \subseteq Calls \X Requests
    BY <1>1, <1>3 DEF TypeOK, Calls
  <2>. QED
    BY <1>1, <1>3, <1>4, <2>1 DEF TypeOK
<1>6. Frame(r)
  BY <1>3, <1>4 DEF Frame, Same, Grows
<1>7. BrokerTrue'
  BY <1>1, <1>3 DEF BrokerTrue, Username
<1>8. Good(r)'
  <2>1. /\ r \notin stored /\ r \notin indexed /\ r \notin creds
        /\ \A c \in Calls : <<c, r>> \notin late
    BY <1>1, <1>3 DEF Good, Waiting
  <2>2. label = "exists" => \E q \in stored' \ {r} : SameName(q, r)'
    BY <1>2, <1>3, <2>1 DEF SameName
  <2>3. Sound(r)'
    <3>1. label # "exists" /\ <<"check", r>> \notin failed' =>
              ~ \E q \in seen'[r] : SameName(q, r)'
      BY <1>1, <1>2, <1>3 DEF Good, SameName
    <3>2. broker[Username(r)] # r /\ Username(r)' = Username(r)
      BY <1>1, <1>3 DEF Good, Sound, Username
    <3>. QED
      BY <1>2, <1>3, <1>4, <2>1, <3>1, <3>2 DEF Sound, PastUser, Waiting, Calls
  <2>. QED
    BY <1>1, <1>2, <1>3, <1>4, <2>1, <2>2, <2>3 DEF Good, AfterInsert, Calls
<1>. QED
  BY <1>5, <1>6, <1>7, <1>8

\* A field is created when its one insert succeeds.
LEMMA InsertFieldGood ==
    ASSUME Inv, NEW r \in Requests, InsertField(r)
    PROVE  TypeOK' /\ Frame(r) /\ Good(r)' /\ BrokerTrue'
<1>1. PICK ok \in BOOLEAN :
          Write("insert", r, ok) /\ Goto(r, IF ok THEN "created" ELSE "error")
  BY DEF InsertField
<1>2. GoesOn("insert", ok, arg[r].kind) = IF ok THEN "created" ELSE "error"
  BY DEF InsertField, GoesOn
<1>. QED
  BY <1>1, <1>2, OwnWrite DEF Calls

\* A sensor's first insert.
LEMMA InsertSensorGood ==
    ASSUME Inv, NEW r \in Requests, InsertSensor(r)
    PROVE  TypeOK' /\ Frame(r) /\ Good(r)' /\ BrokerTrue'
<1>1. PICK ok \in BOOLEAN :
          Write("insert", r, ok) /\ Goto(r, IF ok THEN "index" ELSE "error")
  BY DEF InsertSensor
<1>2. GoesOn("insert", ok, arg[r].kind) = IF ok THEN "index" ELSE "error"
  BY DEF InsertSensor, GoesOn
<1>. QED
  BY <1>1, <1>2, OwnWrite DEF Calls

\* The later calls are a sensor's.
LEMMA LaterIsSensor ==
    ASSUME Inv, NEW r \in Requests, pc[r] \in AfterInsert
    PROVE  arg[r].kind = "sensor"
BY DEF Inv, TypeOK, AfterInsert

\* A sensor's second insert.
LEMMA IndexSensorGood ==
    ASSUME Inv, NEW r \in Requests, IndexSensor(r)
    PROVE  TypeOK' /\ Frame(r) /\ Good(r)' /\ BrokerTrue'
<1>1. PICK ok \in BOOLEAN :
          Write("index", r, ok) /\ Goto(r, IF ok THEN "user" ELSE "error")
  BY DEF IndexSensor
<1>2. GoesOn("index", ok, arg[r].kind) = IF ok THEN "user" ELSE "error"
  BY DEF GoesOn
<1>3. arg[r].kind = "sensor"
  BY <1>1, LaterIsSensor DEF Write, AfterInsert
<1>. QED
  BY <1>1, <1>2, <1>3, OwnWrite DEF Calls

\* The MQTT user is there, or creating it has failed.
LEMMA CreateUserGood ==
    ASSUME Inv, NEW r \in Requests, CreateUser(r)
    PROVE  TypeOK' /\ Frame(r) /\ Good(r)' /\ BrokerTrue'
<1>1. PICK ok \in BOOLEAN : Write("user", r, ok)
  BY DEF CreateUser
<1>2. Goto(r, GoesOn("user", ok, arg[r].kind))
  BY DEF CreateUser, GoesOn
<1>3. arg[r].kind = "sensor"
  BY <1>1, LaterIsSensor DEF Write, AfterInsert
<1>. QED
  BY <1>1, <1>2, <1>3, OwnWrite DEF Calls

\* The credentials are stored after the user was created.
LEMMA StoreSensorCredentialsGood ==
    ASSUME Inv, NEW r \in Requests, StoreSensorCredentials(r)
    PROVE  TypeOK' /\ Frame(r) /\ Good(r)' /\ BrokerTrue'
<1>1. PICK ok \in BOOLEAN : Write("credentials", r, ok)
  BY DEF StoreSensorCredentials
<1>2. Goto(r, GoesOn("credentials", ok, arg[r].kind))
  BY DEF StoreSensorCredentials, GoesOn
<1>3. arg[r].kind = "sensor"
  BY <1>1, LaterIsSensor DEF Write, AfterInsert
<1>. QED
  BY <1>1, <1>2, <1>3, OwnWrite DEF Calls

-----------------------------------------------------------------------------
\* A write that comes late belongs to a request that has met a failure.
LEMMA LateWriteGood ==
    ASSUME Inv, NEW r \in Requests, NEW call \in Calls, LateWrite(call, r)
    PROVE  TypeOK' /\ Frame(r) /\ Good(r)' /\ BrokerTrue'
<1>1. TypeOK /\ BrokerTrue /\ Good(r)
  BY DEF Inv
<1>2. /\ <<call, r>> \in late
      /\ late' = late \ {<<call, r>>}
      /\ Apply(call, r)
      /\ UNCHANGED <<arg, pc, seen, failed>>
  BY DEF LateWrite
<1>3. <<call, r>> \in failed /\ pc[r] \notin Waiting
  BY <1>1, <1>2 DEF Good
<1>4. call \in AfterInsert => r \in stored /\ arg[r].kind = "sensor"
  BY <1>1, <1>2 DEF Good
<1>5. call # "check"
  BY <1>1, <1>2 DEF TypeOK, Writes
<1>6. /\ Grows
      /\ BrokerTrue'
      /\ stored' \subseteq Requests
      /\ indexed' \subseteq Requests
      /\ creds' \subseteq Requests
      /\ broker' \in [Usernames -> Requests \cup {"none"}]
      /\ \A q \in Requests \ {r} :
            /\ q \in stored' <=> q \in stored
            /\ q \in indexed' <=> q \in indexed
            /\ q \in creds' <=> q \in creds
            /\ broker'[Username(q)] = q => broker[Username(q)] = q
      /\ broker'[Username(r)] = r => broker[Username(r)] = r \/ call = "user"
      /\ r \in indexed' => r \in indexed \/ call = "index"
      /\ r \in creds' => r \in creds \/ call = "credentials"
  BY <1>1, <1>2, <1>4, WriteTouches DEF AfterInsert
<1>7. stored \subseteq stored'
  BY <1>6 DEF Grows
<1>8. TypeOK'
  BY <1>1, <1>2, <1>6, <1>7 DEF TypeOK
<1>9. Frame(r)
  BY <1>2, <1>6 DEF Frame, Same
<1>10. indexed \subseteq indexed' /\ creds \subseteq creds'
  BY <1>2 DEF Apply
<1>11. Sound(r)'
  <2>1. Sound(r) /\ Username(r)' = Username(r)
    BY <1>1, <1>2 DEF Good, Username
  <2>2. UserThere(r) => UserThere(r)'
    BY <1>1, <1>6, UserStays
  <2>3. (\E q \in seen[r] : SameName(q, r)) <=> (\E q \in seen'[r] : SameName(q, r)')
    BY <1>2 DEF SameName
  <2>4. <<"credentials", r>> \in late' \/ r \in creds' => <<"credentials", r>> \in late \/ r \in creds
    BY <1>2, <1>6
  <2>5. broker'[Username(r)'] = r \/ <<"user", r>> \in late' =>
            broker[Username(r)] = r \/ <<"user", r>> \in late
    BY <1>2, <1>6, <2>1
  <2>6. pc'[r] = pc[r] /\ arg' = arg /\ failed' = failed
    BY <1>2
  <2>. QED
    BY <1>7, <1>10, <2>1, <2>2, <2>3, <2>4, <2>5, <2>6 DEF Sound, PastUser
<1>12. Good(r)'
  BY <1>1, <1>2, <1>3, <1>4, <1>6, <1>7, <1>11 DEF Good, AfterInsert, Waiting
<1>. QED
  BY <1>6, <1>8, <1>9, <1>12

\* A restart ends requests that have met a failure by it; the others do not
\* notice.
LEMMA RestartGood ==
    ASSUME Inv, Restart
    PROVE  Inv'
<1>1. TypeOK /\ BrokerTrue
  BY DEF Inv
<1>2. PICK sent \in SUBSET {<<pc[r], r>> : r \in {q \in InProgress : pc[q] # "check"}} :
          late' = late \cup sent
  BY DEF Restart
<1>3. /\ pc' = [r \in Requests |-> IF r \in InProgress THEN "gone" ELSE pc[r]]
      /\ failed' = failed \cup {<<pc[r], r>> : r \in InProgress}
      /\ UNCHANGED <<arg, seen, stored, indexed, creds, broker>>
      /\ Grows
  BY DEF Restart, Fail, Grows
<1>4. InProgress \subseteq Requests /\ \A r \in InProgress : pc[r] \in Calls
  BY DEF InProgress
<1>5. \A x \in sent : \E r \in InProgress : x = <<pc[r], r>> /\ pc[r] # "check"
  OBVIOUS
<1>6. TypeOK'
  <2>1. sent \subseteq Writes
    BY <1>4, <1>5 DEF Writes
  <2>2. pc' \in [Requests -> Calls \cup Answers \cup {"idle"}]
    BY <1>1, <1>3 DEF TypeOK, Answers
  <2>3. failed' \subseteq Calls \X Requests
    BY <1>1, <1>3, <1>4 DEF TypeOK
  <2>. QED
    BY <1>1, <1>2, <1>3, <1>4, <2>1, <2>2, <2>3 DEF TypeOK
<1>7. BrokerTrue'
  BY <1>1, <1>3 DEF BrokerTrue, Username
<1>8. ASSUME NEW r \in Requests PROVE Good(r)'
  <2>1. Good(r)
    BY DEF Inv
  <2>2. CASE r \in InProgress
    <3>1. pc'[r] = "gone" /\ <<pc[r], r>> \in failed' /\ failed \subseteq failed'
      BY <1>3, <2>2
    <3>2. \A c \in AfterInsert :
              <<c, r>> \in late' => r \in stored /\ arg[r].kind = "sensor"
      BY <1>1, <1>2, <1>5, <2>1 DEF Good, TypeOK, AfterInsert
    <3>3. \A c \in Calls : <<c, r>> \in late' => <<c, r>> \in late \/ (c = pc[r] /\ c # "check")
      BY <1>2, <1>5
    <3>4. Sound(r)'
      <4>1. Sound(r) /\ pc[r] \in Calls
        BY <1>4, <2>1, <2>2 DEF Good
      <4>2. UserThere(r) => UserThere(r)'
        BY <1>1, <1>3, UserStays
      <4>3. <<"check", r>> \notin failed' => ~ \E q \in seen'[r] : SameName(q, r)'
        BY <1>3, <3>1, <4>1 DEF Sound, SameName, Waiting, Calls
      <4>4. r \in creds' \/ <<"credentials", r>> \in late' => UserThere(r)
        BY <1>3, <3>3, <4>1 DEF Sound, PastUser, Calls
      <4>. QED
        BY <3>1, <4>2, <4>3, <4>4 DEF Sound, PastUser
    <3>5. \A c \in Calls : <<c, r>> \in late' => <<c, r>> \in failed'
      BY <2>1, <3>1, <3>3 DEF Good
    <3>. QED
      BY <1>3, <2>1, <3>1, <3>2, <3>4, <3>5 DEF Good, Waiting
  <2>3. CASE r \notin InProgress
    <3>1. \A c \in Calls : <<c, r>> \in late' <=> <<c, r>> \in late
      BY <1>2, <1>5, <2>3
    <3>2. \A c \in Calls : <<c, r>> \in failed' <=> <<c, r>> \in failed
      BY <1>3, <2>3
    <3>3. Same(r)
      BY <1>3, <2>3, <3>1, <3>2 DEF Same
    <3>. QED
      BY <1>1, <1>3, <2>1, <3>3, SameStaysGood
  <2>. QED
    BY <2>2, <2>3
<1>. QED
  BY <1>6, <1>7, <1>8 DEF Inv

\* The invariant holds initially.
LEMMA InitGood == Init => Inv
<1>. SUFFICES ASSUME Init PROVE Inv
  OBVIOUS
<1>1. TypeOK
  BY DEF Init, TypeOK
<1>2. ASSUME NEW r \in Requests PROVE Good(r)
  <2>1. broker[Username(r)] # r
    BY <1>1, UsernameType, RegistryAssumption DEF Init
  <2>2. Sound(r)
    BY <2>1 DEF Init, Sound, PastUser, Waiting
  <2>. QED
    BY <2>2 DEF Init, Good, Waiting, AfterInsert
<1>. QED
  BY <1>1, <1>2 DEF Init, Inv, BrokerTrue

\* Every step keeps the invariant.
LEMMA StepGood == Inv /\ [Next]_vars => Inv'
<1>. SUFFICES ASSUME Inv, [Next]_vars PROVE Inv'
  OBVIOUS
<1>1. ASSUME NEW r \in Requests, Serve(r)
      PROVE  TypeOK' /\ Frame(r) /\ Good(r)' /\ BrokerTrue'
  BY <1>1, ArriveGood, CheckNamesGood, InsertFieldGood, InsertSensorGood, IndexSensorGood,
     CreateUserGood, StoreSensorCredentialsGood DEF Serve, CheckFields, CheckSensors
<1>2. ASSUME NEW r \in Requests, TypeOK', Frame(r), Good(r)', BrokerTrue'
      PROVE  Inv'
  <2>1. ASSUME NEW q \in Requests, q # r PROVE Good(q)'
    BY <1>2, <2>1, SameStaysGood DEF Inv, Frame
  <2>. QED
    BY <1>2, <2>1 DEF Inv
<1>3. CASE UNCHANGED vars
  <2>1. Grows /\ TypeOK' /\ BrokerTrue'
    BY <1>3 DEF vars, Grows, Inv, TypeOK, BrokerTrue, Username
  <2>2. ASSUME NEW q \in Requests PROVE Good(q)'
    BY <1>3, <2>1, SameStaysGood DEF vars, Inv, Same
  <2>. QED
    BY <2>1, <2>2 DEF Inv
<1>. QED
  BY <1>1, <1>2, <1>3, LateWriteGood, RestartGood DEF Next

\* The inductive invariant holds in every reachable state.
THEOREM RegistryInvariant == Spec => []Inv
<1>. QED
  BY InitGood, StepGood, PTL DEF Spec

\* Every reachable state of the registration handlers is well typed, and a
\* sensor's handler goes on to its later calls only when the row is stored
\* (sensors.go, RegisterSensor).
THEOREM RegistryTypeCorrect == Spec => []TypeOK
<1>1. Inv => TypeOK
  BY DEF Inv
<1>. QED
  BY <1>1, RegistryInvariant, PTL

\* However many requests overlap, fail or are cut off: one whose own check did not
\* fail does not give again a name that was there when it arrived (RegisterField,
\* RegisterSensor).
THEOREM NamesAreNotRepeated == Spec => []DuplicateNeedsOverlap
<1>1. Inv => DuplicateNeedsOverlap
  BY DEF Inv, Good, Sound, DuplicateNeedsOverlap, TypeOK, Waiting
<1>. QED
  BY <1>1, RegistryInvariant, PTL

\* "already exists" is true of another request's row, always (RegisterField,
\* RegisterSensor).
THEOREM ExistsIsNeverWrong == Spec => []ExistsIsTrue
<1>1. Inv => ExistsIsTrue
  BY DEF Inv, Good, ExistsIsTrue
<1>. QED
  BY <1>1, RegistryInvariant, PTL

\* No interleaving, failure or late write leaves a row in table sensors without
\* its row in sensors_by_field (RegisterSensor).
THEOREM SensorsAreConsistent == Spec => []IndexedIsStored
<1>1. Inv => IndexedIsStored
  BY DEF Inv, Good, IndexedIsStored, TypeOK
<1>. QED
  BY <1>1, RegistryInvariant, PTL

\* Credentials that can be read are EMQX's, unless creating the user failed or
\* two sensors share its name (registerSensorHandler).
THEOREM ReadCredentialsWork == Spec => []StoredCredentialsWork
<1>1. Inv => StoredCredentialsWork
  BY DEF Inv, Good, Sound, PastUser, UserThere, StoredCredentialsWork, TypeOK
<1>. QED
  BY <1>1, RegistryInvariant, PTL

\* An MQTT user whose credentials are not stored is of a request at that call, cut
\* off, or refused by the table (registerSensorHandler).
THEOREM UsersHaveCredentials == Spec => []UserHasCredentials
<1>1. ASSUME Inv, NEW r \in Requests, broker[Username(r)] = r
      PROVE  r \in creds \/ pc[r] \in {"credentials", "gone"} \/ <<"credentials", r>> \in failed
  <2>1. TypeOK /\ BrokerTrue /\ Sound(r) /\ r # "none"
    BY <1>1, RegistryAssumption DEF Inv, Good
  <2>2. arg[r].kind = "sensor"
    BY <1>1, <2>1, UsernameType DEF BrokerTrue
  <2>. QED
    BY <1>1, <2>1, <2>2 DEF Sound
<1>2. Inv => UserHasCredentials
  BY <1>1 DEF UserHasCredentials
<1>. QED
  BY <1>2, RegistryInvariant, PTL

\* 201 means that the field or sensor is listed, and that a sensor's credentials
\* read back unless storing them failed, and work unless creating the user failed
\* or two sensors share its name (registerFieldHandler, registerSensorHandler).
THEOREM CreatedMeansUsable == Spec => []CreatedIsUsable
<1>1. ASSUME Inv, NEW r \in Requests, pc[r] = "created"
      PROVE  /\ r \in stored
             /\ arg[r] \in Argument
             /\ arg[r].kind = "sensor" =>
                    /\ r \in indexed
                    /\ r \in creds \/ <<"credentials", r>> \in failed
                    /\ UserThere(r)
  BY <1>1 DEF Inv, Good, Sound, PastUser, TypeOK
<1>2. Inv => CreatedIsUsable
  BY <1>1 DEF CreatedIsUsable, GetFieldsByUserID, GetSensorsByFieldID, Listed,
              GetSensorCredentials, Argument, UserThere
<1>. QED
  BY <1>2, RegistryInvariant, PTL

-----------------------------------------------------------------------------
(* The handlers implement the abstract Directory. *)

\* How far a request is, as the Directory sees it.
LEMMA StatusOf ==
    ASSUME TypeOK, NEW r \in Requests
    PROVE  /\ Statuses[r] = "new" <=> pc[r] = "idle"
           /\ Statuses[r] = "asked" <=> pc[r] \in Calls
           /\ pc[r] \in Answers => Statuses[r] = pc[r]
BY DEF TypeOK, Statuses, Calls, Answers

\* A request that goes on changes its own status alone.
LEMMA StatusChanges ==
    ASSUME TypeOK, NEW r \in Requests, NEW label \in Calls \cup Answers, Goto(r, label)
    PROVE  Statuses' = [Statuses EXCEPT ![r] = IF label \in Calls THEN "asked" ELSE label]
<1>1. pc' = [pc EXCEPT ![r] = label] /\ pc \in [Requests -> Calls \cup Answers \cup {"idle"}]
  BY DEF Goto, TypeOK
<1>2. label # "idle"
  BY DEF Calls, Answers
<1>. QED
  BY <1>1, <1>2 DEF Statuses

\* A failed call is a failure of its request, and a failure stays one.
LEMMA FailureMarks ==
    ASSUME NEW r \in Requests, NEW call \in Calls, failed' = failed \cup {<<call, r>>}
    PROVE  faulted' = faulted \cup {r}
BY DEF faulted

\* So is one that is on record.
LEMMA FailedIsFaulted ==
    ASSUME NEW r \in Requests, NEW call \in Calls, <<call, r>> \in failed
    PROVE  r \in faulted
BY DEF faulted

\* A request that arrives asks.
LEMMA ArriveAsks ==
    ASSUME Inv, NEW r \in Requests, Arrive(r)
    PROVE  Promise!Ask(r)
<1>1. Statuses[r] = "new"
  BY StatusOf DEF Arrive, Inv
<1>2. Statuses' = [Statuses EXCEPT ![r] = "asked"]
  BY StatusChanges DEF Arrive, Inv, Calls
<1>. QED
  BY <1>1, <1>2 DEF Arrive, Promise!Ask, faulted

\* The check answers, or lets the request go on.
LEMMA CheckSteps ==
    ASSUME Inv, NEW r \in Requests, CheckNames(r)
    PROVE  Promise!Step(r)
<1>1. /\ pc[r] = "check"
      /\ UNCHANGED <<arg, seen, stored, creds>>
      /\ failed' = failed \/ failed' = failed \cup {<<"check", r>>}
  BY DEF CheckNames, Fail
<1>a. faulted' = faulted \/ faulted' = faulted \cup {r}
  BY <1>1, FailureMarks DEF faulted, Calls
<1>2. PICK label \in {"exists", "insert", "error"} :
          /\ Goto(r, label)
          /\ label = "exists" => \E q \in stored : SameName(q, r)
          /\ label = "error" => failed' = failed \cup {<<"check", r>>}
  BY DEF CheckNames, Fail
<1>b. label = "error" => r \in faulted'
  BY <1>2, FailureMarks DEF Calls
<1>3. TypeOK /\ Statuses[r] = "asked" /\ r \notin stored
  BY <1>1, StatusOf DEF Inv, Good, Waiting, Calls
<1>4. Statuses' = [Statuses EXCEPT ![r] = IF label \in Calls THEN "asked" ELSE label]
  BY <1>2, <1>3, StatusChanges DEF Calls, Answers
<1>5. Promise!Write(r)
  BY <1>1, <1>3 DEF Promise!Write, Promise!MayWrite
<1>6. Promise!Answer(r) \/ UNCHANGED Statuses
  <2>1. CASE label = "insert"
    BY <1>3, <1>4, <2>1 DEF Statuses, Calls
  <2>2. CASE label \in {"exists", "error"}
    <3>1. Statuses' = [Statuses EXCEPT ![r] = label]
      BY <1>4, <2>2 DEF Calls
    <3>2. label = "exists" => Promise!Exists(r)
      BY <1>1, <1>2, <1>3 DEF Promise!Exists, SameName
    <3>. QED
      BY <1>2, <1>b, <1>3, <2>2, <3>1, <3>2 DEF Promise!Answer
  <2>. QED
    BY <2>1, <2>2
<1>. QED
  BY <1>1, <1>a, <1>3, <1>5, <1>6 DEF Promise!Step

\* What a call does to the tables is a write of the Directory's.
LEMMA ApplyWrites ==
    ASSUME Inv, NEW r \in Requests, NEW call \in Calls,
           Promise!MayWrite(r),
           call = "insert" => r \in faulted' \/ ~ \E q \in seen[r] : SameName(q, r),
           call = "credentials" => r \in stored /\ arg[r].kind = "sensor",
           Nothing \/ Apply(call, r)
    PROVE  Promise!Write(r)
<1>1. CASE Nothing
  BY <1>1 DEF Nothing, Promise!Write
<1>2. CASE Apply(call, r)
  <2>1. CASE call = "insert"
    BY <1>2, <2>1 DEF Apply, Promise!Write, Promise!Enter, SameName
  <2>2. CASE call = "credentials"
    BY <1>2, <2>2 DEF Apply, Promise!Write, Promise!Give
  <2>3. CASE call \notin {"insert", "credentials"}
    BY <1>2, <2>3 DEF Apply, Promise!Write
  <2>. QED
    BY <2>1, <2>2, <2>3
<1>. QED
  BY <1>1, <1>2

\* A call of a request's own is a step of it.
LEMMA WriteSteps ==
    ASSUME Inv, Inv', NEW r \in Requests, NEW call \in Calls \ {"check"}, NEW ok \in BOOLEAN,
           NEW label \in AfterInsert \cup {"created", "error"},
           Write(call, r, ok), Goto(r, label),
           label = "error" => ~ok
    PROVE  Promise!Step(r)
<1>1. /\ pc[r] = call
      /\ UNCHANGED <<arg, seen>>
      /\ Nothing \/ Apply(call, r)
      /\ failed' = failed \/ failed' = failed \cup {<<call, r>>}
      /\ ~ok => failed' = failed \cup {<<call, r>>}
  BY DEF Write, Fail
<1>a. /\ faulted' = faulted \/ faulted' = faulted \cup {r}
      /\ ~ok => r \in faulted'
  BY <1>1, FailureMarks DEF faulted
<1>b. \A c \in Calls :
          /\ <<c, r>> \in failed => r \in faulted'
          /\ <<c, r>> \in failed' => r \in faulted'
  BY <1>1 DEF faulted
<1>2. TypeOK /\ Good(r) /\ Good(r)' /\ TypeOK'
  BY DEF Inv
<1>3. Statuses[r] = "asked"
  BY <1>1, <1>2, StatusOf
<1>4. Statuses' = [Statuses EXCEPT ![r] = IF label \in Calls THEN "asked" ELSE label]
  BY <1>2, StatusChanges DEF Calls, Answers, AfterInsert
<1>5. Promise!Write(r)
  <2>1. call = "insert" => r \in faulted' \/ ~ \E q \in seen[r] : SameName(q, r)
    BY <1>1, <1>b, <1>2 DEF Good, Sound, Waiting, Calls
  <2>2. call = "credentials" => r \in stored /\ arg[r].kind = "sensor"
    BY <1>1, <1>2 DEF TypeOK
  <2>. QED
    BY <1>1, <1>3, <2>1, <2>2, ApplyWrites DEF Promise!MayWrite
<1>6. Promise!Answer(r) \/ UNCHANGED Statuses
  <2>1. CASE label \in AfterInsert
    BY <1>3, <1>4, <2>1 DEF Statuses, Calls, AfterInsert
  <2>2. CASE label \in {"created", "error"}
    <3>1. Statuses' = [Statuses EXCEPT ![r] = label]
      BY <1>4, <2>2 DEF Calls
    <3>2. label = "created" => Promise!Created(r)
      <4>1. pc'[r] = label
        BY <1>2 DEF Goto, TypeOK
      <4>. QED
        BY <1>1, <1>b, <1>2, <4>1 DEF Good, Sound, Promise!Created, Calls
    <3>. QED
      BY <1>1, <1>a, <1>3, <2>2, <3>1, <3>2 DEF Promise!Answer
  <2>. QED
    BY <2>1, <2>2
<1>. QED
  BY <1>1, <1>a, <1>3, <1>5, <1>6 DEF Promise!Step

\* A late write is one of a request that met a failure.
LEMMA LateWriteSteps ==
    ASSUME Inv, NEW r \in Requests, NEW call \in Calls, LateWrite(call, r)
    PROVE  Promise!Step(r)
<1>1. /\ <<call, r>> \in late
      /\ Apply(call, r)
      /\ UNCHANGED <<arg, pc, seen, faulted>>
  BY DEF LateWrite, faulted
<1>2. TypeOK /\ r \in faulted /\ pc[r] \notin Waiting
  BY <1>1, FailedIsFaulted DEF Inv, Good
<1>3. Promise!MayWrite(r)
  BY <1>2, StatusOf DEF Promise!MayWrite, Waiting, Answers, TypeOK, Calls
<1>4. call = "credentials" => r \in stored /\ arg[r].kind = "sensor"
  BY <1>1 DEF Inv, Good, AfterInsert
<1>5. Promise!Write(r)
  BY <1>1, <1>2, <1>3, <1>4, ApplyWrites
<1>6. UNCHANGED Statuses
  BY <1>1 DEF Statuses
<1>. QED
  BY <1>1, <1>5, <1>6 DEF Promise!Step

\* A restart ends the requests in progress.
LEMMA RestartAborts ==
    ASSUME Inv, Restart
    PROVE  Promise!Abort
<1>1. /\ pc' = [r \in Requests |-> IF r \in InProgress THEN "gone" ELSE pc[r]]
      /\ failed' = failed \cup {<<pc[r], r>> : r \in InProgress}
      /\ UNCHANGED <<arg, seen, stored, creds>>
  BY DEF Restart, Fail
<1>a. faulted' = faulted \cup InProgress
  <2>1. \A r \in InProgress : r \in Requests /\ pc[r] \in Calls
    BY DEF InProgress
  <2>. QED
    BY <1>1, <2>1 DEF faulted
<1>2. Promise!Asking = InProgress
  BY StatusOf DEF Inv, InProgress, Promise!Asking
<1>3. Statuses' = [r \in Requests |-> IF r \in InProgress THEN "gone" ELSE Statuses[r]]
  BY <1>1 DEF Statuses, Calls
<1>. QED
  BY <1>1, <1>a, <1>2, <1>3 DEF Promise!Abort

\* The handlers, the stores, late writes and restarts implement the Directory
\* (RegisterField, RegisterSensor, registerSensorHandler).
THEOREM RegistryImplementsDirectory == Spec => DirectoryKept
<1>1. Init => Promise!Init
  BY DEF Init, Promise!Init, Statuses, faulted
<1>2. ASSUME Inv, Inv', NEW r \in Requests, Serve(r)
      PROVE  Promise!Ask(r) \/ Promise!Step(r)
  <2>1. CASE InsertField(r)
    BY <1>2, <2>1, WriteSteps DEF InsertField, Calls
  <2>2. CASE InsertSensor(r)
    BY <1>2, <2>2, WriteSteps DEF InsertSensor, Calls, AfterInsert
  <2>3. CASE IndexSensor(r)
    BY <1>2, <2>3, WriteSteps DEF IndexSensor, Calls, AfterInsert
  <2>4. CASE CreateUser(r)
    BY <1>2, <2>4, WriteSteps DEF CreateUser, Calls, AfterInsert
  <2>5. CASE StoreSensorCredentials(r)
    BY <1>2, <2>5, WriteSteps DEF StoreSensorCredentials, Calls
  <2>. QED
    BY <1>2, <2>1, <2>2, <2>3, <2>4, <2>5, ArriveAsks, CheckSteps
    DEF Serve, CheckFields, CheckSensors
<1>3. Inv /\ Inv' /\ [Next]_vars => [Promise!Next]_(Promise!vars)
  <2>1. ASSUME UNCHANGED vars PROVE UNCHANGED Promise!vars
    BY <2>1 DEF vars, Promise!vars, Statuses, faulted
  <2>. QED
    BY <1>2, <2>1, LateWriteSteps, RestartAborts DEF Next, Promise!Next
<1>. QED
  BY <1>1, <1>3, RegistryInvariant, PTL DEF Spec, DirectoryKept, Promise!Spec
=============================================================================
