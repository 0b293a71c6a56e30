------------------------------ MODULE Registry ------------------------------
(***************************************************************************)
(* POST /fields and POST /sensors: internal/db RegisterField and           *)
(* RegisterSensor, and registerSensorHandler in internal/routes, which     *)
(* goes on to create the sensor's MQTT user in EMQX and to store its       *)
(* credentials.  Each request is served by a goroutine of its own; none of *)
(* the handlers uses a lock, a transaction or a conditional insert, so the *)
(* requests interleave between any two of their calls.                     *)
(*                                                                         *)
(* A request draws fresh UUIDs for the row and for the password, so both   *)
(* are named by the request.  Reads and acknowledged writes of Scylla      *)
(* (gocql's default quorum) are atomic; EMQX is external.                  *)
(***************************************************************************)
EXTENDS Naturals, FiniteSets

CONSTANTS
    Requests,    \* the registration requests that may ever arrive
    Owners,      \* users, for fields; field ids, for sensors
    NamesGiven,  \* field and sensor names
    Prefix,      \* the first 8 characters of a request's sensor id
    MaxFailures  \* bound: after that many failed calls nothing fails any more

ASSUME RegistryAssumption ==
    /\ "none" \notin Requests
    /\ DOMAIN Prefix = Requests
    /\ MaxFailures \in Nat

VARIABLES
    arg,       \* what a request asks for
    pc,        \* the call the request's goroutine makes next, or its answer
    seen,      \* history: the rows there were when the request arrived
    stored,    \* Scylla, tables fields and sensors_by_field: the requests' rows
    indexed,   \* Scylla, table sensors
    creds,     \* Scylla: the rows whose mqtt columns are set
    broker,    \* EMQX: whose password each MQTT user has
    late,      \* writes the server was cut off from and that may still happen
    failed     \* history: the calls that failed or that a process exit cut off

vars == <<arg, pc, seen, stored, indexed, creds, broker, late, failed>>

-----------------------------------------------------------------------------
Calls == {"check", "insert", "index", "user", "credentials"}

Answers == {"created", "exists", "error", "gone"}

Argument == [kind: {"field", "sensor"}, owner: Owners, name: NamesGiven]

Username(r) == <<Prefix[r], arg[r].name>>

Usernames == {Prefix[r] : r \in Requests} \X NamesGiven

\* A write: which call of which request it is.
Writes == (Calls \ {"check"}) \X Requests

\* The requests that met a failed call or a process exit.
faulted == {r \in Requests : \E call \in Calls : <<call, r>> \in failed}

TypeOK ==
    /\ arg \in [Requests -> Argument]
    /\ pc \in [Requests -> Calls \cup Answers \cup {"idle"}]
    /\ seen \in [Requests -> SUBSET Requests]
    /\ stored \subseteq Requests
    /\ indexed \subseteq Requests
    /\ creds \subseteq Requests
    /\ broker \in [Usernames -> Requests \cup {"none"}]
    /\ late \subseteq Writes
    /\ failed \subseteq Calls \X Requests
    /\ \A r \in Requests : pc[r] \in {"index", "user", "credentials"} =>
          arg[r].kind = "sensor" /\ r \in stored

Init ==
    /\ arg \in [Requests -> Argument]
    /\ pc = [r \in Requests |-> "idle"]
    /\ seen = [r \in Requests |-> {}]
    /\ stored = {}
    /\ indexed = {}
    /\ creds = {}
    /\ broker = [u \in Usernames |-> "none"]
    /\ late = {}
    /\ failed = {}

-----------------------------------------------------------------------------
\* The effect of one write.  EMQX refuses to create a user that exists; the
\* writes to Scylla are upserts.
Apply(call, r) ==
    /\ stored' = IF call = "insert" THEN stored \cup {r} ELSE stored
    /\ indexed' = IF call = "index" THEN indexed \cup {r} ELSE indexed
    /\ creds' = IF call = "credentials" THEN creds \cup {r} ELSE creds
    /\ broker' = IF call = "user" /\ broker[Username(r)] = "none"
                 THEN [broker EXCEPT ![Username(r)] = r]
                 ELSE broker

Nothing == UNCHANGED <<stored, indexed, creds, broker>>

\* Calls fail: single ones, or those a process exit cuts off.
Fail(calls) ==
    /\ Cardinality(failed) < MaxFailures
    /\ failed' = failed \cup calls

\* Request r makes a call that writes: it succeeds (a refusal by EMQX is an
\* outcome of its own, but changes nothing), or it fails or times out, when the
\* write may have happened, may not, or may happen later.
Write(call, r, ok) ==
    /\ pc[r] = call
    /\ \/ /\ ok
          /\ Apply(call, r)
          /\ UNCHANGED <<late, failed>>
       \/ /\ ~ok
          /\ Fail({<<call, r>>})
          /\ \/ Nothing /\ UNCHANGED late
             \/ Apply(call, r) /\ UNCHANGED late
             \/ Nothing /\ late' = late \cup {<<call, r>>}
    /\ UNCHANGED <<arg, seen>>

Goto(r, label) == pc' = [pc EXCEPT ![r] = label]

-----------------------------------------------------------------------------
Arrive(r) ==
    /\ pc[r] = "idle"
    /\ seen' = [seen EXCEPT ![r] = stored]
    /\ Goto(r, "check")
    /\ UNCHANGED <<arg, stored, indexed, creds, broker, late, failed>>

SameName(q, r) == arg[q] = arg[r]

\* Faulty variant: the names are read and not compared.
CheckNamesNotCompared(r) ==
    /\ pc[r] = "check"
    /\ \/ Goto(r, "insert") /\ UNCHANGED failed
       \/ Goto(r, "error") /\ Fail({<<"check", r>>})
    /\ UNCHANGED <<arg, seen, stored, indexed, creds, broker, late>>

\* Faulty variant: any row of the owner counts.
CheckNamesAnyRow(r) ==
    /\ pc[r] = "check"
    /\ IF \E q \in stored : arg[q].kind = arg[r].kind /\ arg[q].owner = arg[r].owner
       THEN Goto(r, "exists")
       ELSE Goto(r, "insert")
    /\ UNCHANGED <<arg, seen, stored, indexed, creds, broker, late, failed>>

\* The rows of the owner are listed, and the name of each is read and compared.
\* A failed list is an error; a failed read of one name is not noticed, and
\* that row counts as having another name.
CheckNames(r) ==
    /\ pc[r] = "check"
    /\ \/ /\ \E q \in stored : SameName(q, r)
          /\ Goto(r, "exists")
          /\ UNCHANGED failed
       \/ /\ ~ \E q \in stored : SameName(q, r)
          /\ Goto(r, "insert")
          /\ UNCHANGED failed
       \/ /\ Fail({<<"check", r>>})
          /\ Goto(r, "error") \/ Goto(r, "insert")
    /\ UNCHANGED <<arg, seen, stored, indexed, creds, broker, late>>

\* RegisterField
CheckFields(r) == arg[r].kind = "field" /\ CheckNames(r)

InsertField(r) ==
    /\ arg[r].kind = "field"
    /\ \E ok \in BOOLEAN :
        /\ Write("insert", r, ok)
        /\ Goto(r, IF ok THEN "created" ELSE "error")

\* Faulty variant: a failed insert is not noticed.
InsertSensorAnyway(r) ==
    /\ arg[r].kind = "sensor"
    /\ \E ok \in BOOLEAN : Write("insert", r, ok)
    /\ Goto(r, "index")

\* RegisterSensor.  That the field exists is not checked.
CheckSensors(r) == arg[r].kind = "sensor" /\ CheckNames(r)

InsertSensor(r) ==
    /\ arg[r].kind = "sensor"
    /\ \E ok \in BOOLEAN :
        /\ Write("insert", r, ok)
        /\ Goto(r, IF ok THEN "index" ELSE "error")

\* Faulty variant: the MQTT user is not created.
IndexSensorWithoutUser(r) ==
    \E ok \in BOOLEAN :
        /\ Write("index", r, ok)
        /\ Goto(r, IF ok THEN "credentials" ELSE "error")

IndexSensor(r) ==
    \E ok \in BOOLEAN :
        /\ Write("index", r, ok)
        /\ Goto(r, IF ok THEN "user" ELSE "error")

\* Faulty variant: the credentials are answered and not stored.
CreateUserAndAnswer(r) ==
    /\ \E ok \in BOOLEAN : Write("user", r, ok)
    /\ Goto(r, "created")

\* registerSensorHandler: a failure of CreateUser, or of StoreSensorCredentials,
\* is logged, and the request answered with 201 all the same.
CreateUser(r) ==
    /\ \E ok \in BOOLEAN : Write("user", r, ok)
    /\ Goto(r, "credentials")

StoreSensorCredentials(r) ==
    /\ \E ok \in BOOLEAN : Write("credentials", r, ok)
    /\ Goto(r, "created")

-----------------------------------------------------------------------------
\* A write that was cut off happens after all.
LateWrite(call, r) ==
    /\ <<call, r>> \in late
    /\ late' = late \ {<<call, r>>}
    /\ Apply(call, r)
    /\ UNCHANGED <<arg, pc, seen, failed>>

InProgress == {r \in Requests : pc[r] \in Calls}

\* The process exits and is started again: its requests are gone, and the
\* writes on their way may still happen.
Restart ==
    /\ InProgress # {}
    /\ pc' = [r \in Requests |-> IF r \in InProgress THEN "gone" ELSE pc[r]]
    /\ Fail({<<pc[r], r>> : r \in InProgress})
    /\ \E sent \in SUBSET {<<pc[r], r>> : r \in {q \in InProgress : pc[q] # "check"}} :
          late' = late \cup sent
    /\ UNCHANGED <<arg, seen, stored, indexed, creds, broker>>

Serve(r) ==
    \/ Arrive(r)
    \/ CheckFields(r) \/ InsertField(r)
    \/ CheckSensors(r) \/ InsertSensor(r) \/ IndexSensor(r)
    \/ CreateUser(r) \/ StoreSensorCredentials(r)

Next ==
    \/ \E r \in Requests : Serve(r)
    \/ \E call \in Calls, r \in Requests : LateWrite(call, r)
    \/ Restart

Spec == Init /\ [][Next]_vars

-----------------------------------------------------------------------------
\* What the read handlers answer: the rows listed for an owner, and a sensor's
\* credentials, "empty" when the row has none (a null column reads as "").
Listed(kind, owner) == {r \in stored : arg[r].kind = kind /\ arg[r].owner = owner}

GetFieldsByUserID(user) == Listed("field", user)

GetSensorsByFieldID(field) == Listed("sensor", field)

GetSensorCredentials(r) ==
    IF r \notin stored THEN <<"not found">>
    ELSE IF r \notin creds THEN <<"empty">>
    ELSE <<Username(r), r>>

\* The MQTT user of r's user name is another stored sensor's: their ids agree in
\* the first 8 characters and their names are the same.
Shared(r) ==
    \E q \in stored \ {r} : arg[q].kind = "sensor" /\ broker[Username(r)] = q

-----------------------------------------------------------------------------
\* A request answered with 201 is listed and indexed, whatever failed on the way.
\* A sensor's credentials read back as they were answered unless storing them
\* failed, and EMQX accepts them unless creating the user failed or the user is
\* another sensor's: one failure costs no more than that (handlers.go,
\* registerSensorHandler).
CreatedIsUsable ==
    \A r \in Requests : pc[r] = "created" =>
        IF arg[r].kind = "field"
        THEN r \in GetFieldsByUserID(arg[r].owner)
        ELSE /\ r \in GetSensorsByFieldID(arg[r].owner)
             /\ r \in indexed
             /\ \/ GetSensorCredentials(r) = <<Username(r), r>>
                \/ <<"credentials", r>> \in failed
             /\ \/ broker[Username(r)] = r
                \/ <<"user", r>> \in failed
                \/ Shared(r)

\* Nobody reads credentials that EMQX does not accept, unless creating the user
\* failed or it is another sensor's: the user is created before the credentials are
\* stored (handlers.go, registerSensorHandler).
StoredCredentialsWork ==
    \A r \in creds :
        broker[Username(r)] = r \/ <<"user", r>> \in failed \/ Shared(r)

\* An MQTT user whose password nobody can read is of a sensor whose credentials are
\* about to be stored, or could not be, or whose request a process exit ended
\* (handlers.go, registerSensorHandler).
UserHasCredentials ==
    \A r \in Requests : broker[Username(r)] = r =>
        \/ r \in creds
        \/ pc[r] \in {"credentials", "gone"}
        \/ <<"credentials", r>> \in failed

\* A second row of the same owner and name comes only from a request that
\* overlapped the first one's, or whose own check failed: names that were there when
\* a request arrived are not given again, whatever else fails and however late an
\* insert comes (fields.go RegisterField, sensors.go RegisterSensor).
DuplicateNeedsOverlap ==
    \A r \in stored : <<"check", r>> \notin failed => ~ \E q \in seen[r] : SameName(q, r)

\* "already exists" is never answered for a request's own row, or for a name
\* nobody registered (fields.go, sensors.go).
ExistsIsTrue ==
    \A r \in Requests : pc[r] = "exists" => \E q \in stored \ {r} : SameName(q, r)

\* Every row of table sensors has its row in sensors_by_field, however late the
\* writes come (sensors.go, RegisterSensor).
IndexedIsStored == indexed \subseteq stored
-----------------------------------------------------------------------------
Statuses ==
    [r \in Requests |->
        IF pc[r] = "idle" THEN "new" ELSE IF pc[r] \in Calls THEN "asked" ELSE pc[r]]

Promise == INSTANCE Directory
             WITH Arguments <- Argument, status <- Statuses, listed <- stored, given <- creds

\* Step for step, the handlers, the stores, late writes and restarts do what the
\* abstract Directory does: a request's answer is final, one that was turned away
\* leaves nothing behind, however late, nothing listed vanishes, and a name listed
\* when a request came is given again only after a failure (RegisterField,
\* RegisterSensor, registerSensorHandler).
DirectoryKept == Promise!Spec
=============================================================================
