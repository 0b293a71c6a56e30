------------------------------ MODULE Catalog -------------------------------
(***************************************************************************)
(* What pipeline management promises, without pipelines, restarts, calls   *)
(* or processes: a set of flows (name and query) that is only added to,    *)
(* except that each failure may cost it one flow, sooner or later.  A lost *)
(* flow may be added again.                                                *)
(***************************************************************************)
EXTENDS Naturals, FiniteSets

CONSTANT Flow

VARIABLES
    kept,      \* the flows being kept
    lost,      \* the flows that were kept once and are not now
    faults     \* failed calls and process exits so far

Init ==
    /\ kept = {}
    /\ lost = {}
    /\ faults = 0

\* A step may itself be the failure, or not.
MayFail == faults' \in {faults, faults + 1}

Add(f) ==
    /\ kept' = kept \cup {f}
    /\ lost' = lost \ {f}
    /\ MayFail

Lose(f) ==
    /\ kept' = kept \ {f}
    /\ lost' = lost \cup {f}
    /\ MayFail
    /\ Cardinality(lost') <= faults'

Fail ==
    /\ faults' = faults + 1
    /\ UNCHANGED <<kept, lost>>

Next == Fail \/ \E f \in Flow : Add(f) \/ (f \in kept /\ Lose(f))

Spec == Init /\ [][Next]_<<kept, lost, faults>>
=============================================================================
