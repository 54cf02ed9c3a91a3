------------------------------- MODULE Labels -------------------------------
(***************************************************************************)
(* Marking arithmetic (rachis-reference/rachis/labels.py): labels of an    *)
(* ordered vocabulary and a set of caveats, combined to a high-water mark. *)
(***************************************************************************)
EXTENDS Naturals, Sequences, SequencesExt

CONSTANTS
    PolicyIds,        \* names of vocabularies a label may be expressed in
    Classifications,  \* classification names a label may carry
    Rank,             \* the vocabulary in use: its levels, low to high
    Caveats,
    Raises            \* what a call that raises ValueError gives

ASSUME RankAssumption ==
    /\ DOMAIN Rank \subseteq Classifications
    /\ Rank \in [DOMAIN Rank -> Nat]
    /\ \A c, d \in DOMAIN Rank : Rank[c] = Rank[d] => c = d

Label == [policy : PolicyIds, classification : Classifications,
          caveats : SUBSET Caveats]

ASSUME RaisesAssumption == Raises \notin Label

\* MarkingPolicy.rank raises for a name its levels do not hold.
Known(c) == c \in DOMAIN Rank

MaxClassification(c, d) == IF Rank[c] >= Rank[d] THEN c ELSE d

\* Faulty variant: the caveats both labels carry.
CombineMeet(a, b) ==
    IF a.policy # b.policy \/ ~Known(a.classification)
                           \/ ~Known(b.classification)
    THEN Raises
    ELSE [policy |-> a.policy,
          classification |-> MaxClassification(a.classification,
                                               b.classification),
          caveats |-> a.caveats \cap b.caveats]

Combine(a, b) ==
    IF a.policy # b.policy \/ ~Known(a.classification)
                           \/ ~Known(b.classification)
    THEN Raises
    ELSE [policy |-> a.policy,
          classification |-> MaxClassification(a.classification,
                                               b.classification),
          caveats |-> a.caveats \cup b.caveats]

\* For labels whose classifications are known; the ids are not compared.
Dominates(a, b) ==
    /\ Rank[a.classification] >= Rank[b.classification]
    /\ b.caveats \subseteq a.caveats

\* high_water raises for no labels, and when any combine does.
HighWater(labels) ==
    IF labels = << >> THEN Raises
    ELSE FoldLeft(LAMBDA acc, l : IF acc = Raises THEN Raises
                                  ELSE Combine(acc, l),
                  Head(labels), Tail(labels))
=============================================================================
