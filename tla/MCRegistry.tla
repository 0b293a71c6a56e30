----------------------------- MODULE MCRegistry -----------------------------
(* Finite instances of Registry for TLC. *)
EXTENDS Registry, TLC

CONSTANTS r1, r2, r3, n1, n2

\* The sensor ids of r1 and r2 agree in their first characters.
PrefixClash == [r \in Requests |-> IF r = r3 THEN "b" ELSE "a"]

\* r1 and r2 are interchangeable, and so are the names.
Interchangeable == Permutations({r1, r2}) \cup Permutations({n1, n2})
=============================================================================
