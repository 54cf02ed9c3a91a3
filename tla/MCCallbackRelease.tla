------------------------- MODULE MCCallbackRelease -------------------------
(* Model-checking instances of CallbackRelease: one record with a pointer  *)
(* field and a clear one, two versions of its source row, two callbacks.   *)
EXTENDS CallbackRelease, TLC

CONSTANTS rec, ptr, clr, v, w, i1, i2, h1, h2

MCRows == {ptr :> v @@ clr :> v, ptr :> w}

MCDisposition == ptr :> "pointer" @@ clr :> "clear"

Steady == [disposition |-> MCDisposition,
           class |-> ptr :> "RESTRICTED" @@ clr :> "UNMARKED",
           expectationPolicy |-> "demo", markingPolicy |-> "demo"]

\* The same after ptr was reclassified in the mapping.
Reclassified == [Steady EXCEPT !.class[ptr] = "SECRET"]

\* The marking policy of the connector's file is not the Expectation's.
Diverged == [Steady EXCEPT !.markingPolicy = "other"]

MCRequests == {[record |-> rec, field |-> ptr, allowed |-> TRUE],
               [record |-> rec, field |-> clr, allowed |-> TRUE],
               [record |-> rec, field |-> ptr, allowed |-> FALSE]}
PointerRequests == {[record |-> rec, field |-> ptr, allowed |-> TRUE]}
DriftConfigs == {Steady, Reclassified, Diverged}
SteadyConfigs == {Steady}

\* The core refuses the version of the record that lacks the clear field.
MCRefused == [record : {rec}, root : [{ptr} -> Leaves]]
=============================================================================
