-------------------------- MODULE MCAssertionStore --------------------------
(* Model-checking instances of AssertionStore: a vocabulary of two levels  *)
(* and one caveat, and a label that is not of that vocabulary.             *)
EXTENDS AssertionStore, TLC

CONSTANTS p1, p2, low, high, other, k1

MCRank == low :> 0 @@ high :> 1

Low == [policy |-> p1, classification |-> low, caveats |-> {k1}]
High == [policy |-> p1, classification |-> high, caveats |-> {}]
Foreign == [policy |-> p2, classification |-> other, caveats |-> {}]

OneLabel == {Low}
MCLabels == {Low, High, Foreign}
=============================================================================
