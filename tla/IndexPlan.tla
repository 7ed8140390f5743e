------------------------------ MODULE IndexPlan ------------------------------
(***************************************************************************)
(* What the Index Normalizer promises, written from spec.md 3 and 4.3:     *)
(* for one get/set call the LoweredIndexPlan is produced once, in one      *)
(* step, and is the plan of the array semantics (IndexReference) when the *)
(* index is well formed, an IndexError otherwise.  The call runs to        *)
(* completion (spec.md 5), so the step is weakly fair.                     *)
(***************************************************************************)
EXTENDS IndexReference

CONSTANT Calls      \* the calls [shape, known, index, ...] a caller may make

VARIABLES
    call,           \* the call
    plan            \* [status, plan]: "pending", "IndexError", or "planned"
                    \* with the LoweredIndexPlan produced

Init == call \in Calls /\ plan = Pending

\* Normalization is one step: its outcome depends on the call alone.
Produce ==
    /\ plan = Pending
    /\ plan' = IF RefValid(call) THEN Planned(RefPlan(call)) ELSE IndexError
    /\ UNCHANGED call

Spec == Init /\ [][Produce]_<<call, plan>> /\ WF_<<call, plan>>(Produce)
=============================================================================
