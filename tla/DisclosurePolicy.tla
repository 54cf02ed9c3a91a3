-------------------------- MODULE DisclosurePolicy --------------------------
(***************************************************************************)
(* The disclosure policy: a disposition for each field, and constraints    *)
(* that say which fields can be worked out from which others (secondary    *)
(* suppression).  The reference (rachis-reference/rachis/policy.py) and    *)
(* the connector (pipeline/policy.py, models.py) hold the same arithmetic; *)
(* where they are called differs, see Exchange and ConnectorService.       *)
(*                                                                         *)
(* A policy is [id, default, dispositions, derivations]; dispositions is a *)
(* function from the fields it names.  A value is [kind, text], where text *)
(* is its canonical text.                                                  *)
(***************************************************************************)
EXTENDS Naturals, Sequences, FiniteSets

CONSTANTS
    Fields,   \* qualified field names
    None      \* an optional attribute that is not there

Dispositions == {"clear", "hash-only", "pointer", "withheld"}
Protected == {"pointer", "withheld"}
Granularities == {"exact", "fine", "coarse"}

DerivationConstraint ==
    [field : Fields, from : SUBSET Fields, granularity : Granularities,
     protects : Granularities, accepted : BOOLEAN]

Precision == [g \in Granularities |->
                CASE g = "coarse" -> 0 [] g = "fine" -> 1 [] g = "exact" -> 2]

\* Faulty variant: the comparison is the wrong way round.
DefeatsCoarser(g, protected) == Precision[g] <= Precision[protected]

\* Granularity.defeats.
Defeats(g, protected) == Precision[g] >= Precision[protected]

Permissiveness == [d \in Dispositions |->
                     CASE d = "withheld" -> 0 [] d = "pointer" -> 1
                       [] d = "hash-only" -> 2 [] d = "clear" -> 3]

DispositionFor(policy, f) ==
    IF f \in DOMAIN policy.dispositions THEN policy.dispositions[f]
    ELSE policy.default

Openness(policy, f) == Permissiveness[DispositionFor(policy, f)]

\* What the models let through: constraints over the fields, and a disposition
\* for each field.
WellFormed(policy) ==
    /\ policy.derivations \subseteq DerivationConstraint
    /\ \A f \in Fields : DispositionFor(policy, f) \in Dispositions

\* Faulty variant: a field the policy does not list is not looked at, though
\* it is withheld by default.
BindsListed(policy, d) ==
    /\ ~d.accepted
    /\ d.field \in DOMAIN policy.dispositions
    /\ Defeats(d.granularity, d.protects)
    /\ d.from # {}
    /\ \A f \in d.from : Openness(policy, f) > Openness(policy, d.field)

\* One turn of the loop of validate: the constraint is not accepted, precise
\* enough, and all it derives from is released more permissively.
Binds(policy, d) ==
    /\ ~d.accepted
    /\ Defeats(d.granularity, d.protects)
    /\ d.from # {}
    /\ \A f \in d.from : Openness(policy, f) > Openness(policy, d.field)

\* DisclosurePolicy.validate; a policy may run if there are none.
Conflicts(policy) == {d \in policy.derivations : Binds(policy, d)}

\* policy_hash: what a constraint protects at, and its rationale, are left
\* out.  Without collisions a hash is what went into it.
PolicyHash(policy) ==
    [alg |-> "sha384",
     of |-> <<policy.id, policy.default, policy.dispositions,
              {<<d.field, d.from, d.granularity, d.accepted>> :
                  d \in policy.derivations}>>]

\* _repr: a value that is None has the JSON text null.
Repr(value) == IF value = None THEN <<"null">> ELSE value.text

\* Faulty variant: a pointer carries the value too.
ResolutionWithValue(name, value, disposition, label) ==
    [disposition |-> disposition, label |-> label,
     value |-> IF disposition \in {"clear", "pointer"} THEN value ELSE None,
     repr |-> IF disposition \in Protected THEN None ELSE Repr(value),
     digest |-> IF disposition = "hash-only" THEN Repr(value) ELSE None,
     pointer |-> IF disposition = "pointer" THEN <<name, value>> ELSE None]

\* What apply_policy makes of one field; "pointer" stands for the digest of
\* the value that the pointer carries.
Resolution(name, value, disposition, label) ==
    [disposition |-> disposition, label |-> label,
     value |-> IF disposition = "clear" THEN value ELSE None,
     repr |-> IF disposition \in Protected THEN None ELSE Repr(value),
     digest |-> IF disposition = "hash-only" THEN Repr(value) ELSE None,
     pointer |-> IF disposition = "pointer" THEN <<name, value>> ELSE None]

\* apply_policy raises on a conflict, and on a hash-only field without a
\* correlation service.
Applies(policy, mapped, correlation) ==
    /\ Conflicts(policy) = {}
    /\ \A f \in DOMAIN mapped :
           DispositionFor(policy, f) = "hash-only" => correlation

ApplyPolicy(policy, mapped, labels) ==
    [f \in DOMAIN mapped |->
        Resolution(f, mapped[f], DispositionFor(policy, f), labels[f])]

-----------------------------------------------------------------------------
(* What the constraints are for, stated without the loop of validate.      *)

\* The fields released at least as openly as k.
Released(policy, k) == {f \in Fields : Openness(policy, f) >= k}

\* The constraints the source has not accepted and that are precise enough
\* to matter: those the policy promises to hold.
Enforced(policy) ==
    {d \in policy.derivations :
        ~d.accepted /\ Defeats(d.granularity, d.protects) /\ d.from # {}}

ClosedUnder(derivations, known) ==
    \A d \in derivations : d.from \subseteq known => d.field \in known

\* All that follows from the fields in known, through any chain of
\* derivations: the least closed set around them.
Reach(derivations, known) ==
    {f \in Fields : \A s \in SUBSET Fields :
        known \subseteq s /\ ClosedUnder(derivations, s) => f \in s}

\* From the fields released at least as openly as k no field follows that is
\* released less openly, whatever the level k and the chain of derivations.
NotReconstructible(policy) ==
    \A k \in 1 .. 3 :
        Reach(Enforced(policy), Released(policy, k)) \subseteq
            Released(policy, k)
=============================================================================
