------------------------------ MODULE Readings ------------------------------
(***************************************************************************)
(* The readings tables of Scylla (sensors_data.temperatures, humidities,   *)
(* ph_levels), as the read paths of the API use them.  Arroyo fills the    *)
(* tables from Kafka; the program only reads them.  A table is keyed by    *)
(* (sensor, bucket_date) and, within such a bucket, by timestamp.          *)
(*                                                                         *)
(* Time is counted in ticks, Day of them to a UTC day.                     *)
(***************************************************************************)
EXTENDS Integers

CONSTANTS
    Readings,    \* the readings that sensors may send
    Day,         \* ticks in a day
    Never        \* the arrival time of a reading that has not arrived

\* The bucket a reading is filed under is a field of the message, not a function
\* of its timestamp (JSONSchema in internal/arroyo).
ASSUME ReadingsAssumption ==
    /\ Day \in Nat \ {0}
    /\ Never \notin Int
    /\ \A r \in Readings : r.at \in Int /\ r.day \in Int

VARIABLES
    clock,       \* the time
    arrived      \* when each reading was inserted into its table

readings == <<clock, arrived>>

DayOf(t) == t \div Day

Stored == {r \in Readings : arrived[r] # Never}

ReadingsTypeOK ==
    /\ clock \in Int
    /\ arrived \in [Readings -> Int \cup {Never}]
    /\ \A r \in Stored : arrived[r] <= clock

\* Arroyo inserts a reading, late or in whatever order.
Insert(r) ==
    /\ arrived[r] = Never
    /\ arrived' = [arrived EXCEPT ![r] = clock]
    /\ UNCHANGED clock

\* The readings of one sensor in one table with a timestamp in the window.
InWindow(sensor, type, from, to) ==
    {r \in Stored : r.sensor = sensor /\ r.type = type /\ from <= r.at /\ r.at <= to}

\* Of those, the readings filed under the day of their timestamp that had arrived
\* before a given moment: what a query made at that moment must return.
Due(sensor, type, from, to, moment) ==
    {r \in InWindow(sensor, type, from, to) : r.day = DayOf(r.at) /\ arrived[r] < moment}
=============================================================================
