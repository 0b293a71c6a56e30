---------------------------- MODULE MCAggregate -----------------------------
(* Finite instances of Aggregate for TLC. *)
EXTENDS Aggregate, TLC

CONSTANTS q1, q2, q3

Reading(sensor, type, at, bucket) ==
    [sensor |-> sensor, type |-> type, at |-> at, day |-> bucket]

\* With two ticks to a day: readings of the first and the second day and one of
\* another type, all filed under their day.
SomeReadings == {Reading("s", 0, 1, 0), Reading("s", 0, 2, 1), Reading("s", 1, 1, 0)}

Wants(sensor, type, window) == [sensor |-> sensor, type |-> type, window |-> window]

SomeArgs == {Wants("s", 0, 1), Wants("s", 1, 1), Wants("s", 0, 3)}

\* One reading, and requests that all want it.
EarlyReading == {Reading("s", 0, 0, 0)}

OneArg == {Wants("s", 0, 4)}

Interchangeable == Permutations(Requests)
=============================================================================
