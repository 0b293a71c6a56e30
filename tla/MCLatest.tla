------------------------------ MODULE MCLatest ------------------------------
(* Finite instances of Latest for TLC. *)
EXTENDS Latest, TLC

CONSTANTS q1, q2

Reading(at, bucket, value) == [at |-> at, day |-> bucket, value |-> value]

\* With three ticks to a day: three readings of the first day, two of them equal
\* when rounded to even values.
SomeReadings == {Reading(0, 0, 2), Reading(1, 0, 4), Reading(2, 0, 3)}

Interchangeable == Permutations(Requests)
=============================================================================
