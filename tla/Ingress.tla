------------------------------ MODULE Ingress ------------------------------
(***************************************************************************)
(* The platform's entry gate (rachis-reference/rachis/ingress.py): checks  *)
(* on a package, each a comparison, and a memory of the roots seen within  *)
(* the replay window.  The memory is the process's own: a restart loses    *)
(* it.                                                                     *)
(***************************************************************************)
EXTENDS Provenance, Labels

CONSTANTS
    Packages,      \* packages that may be presented
    Anchors,       \* TrustStore: source identity -> public key
    Permitted,     \* measurements of the connectors that are permitted
    Expectations,  \* version -> Expectation
    Markings,      \* the policy ids of the marking policies held
    Window         \* replay_window_seconds

ASSUME WindowAssumption == Window \in Nat

VARIABLES
    seen,          \* roots remembered -> when
    now,           \* the clock
    admissions     \* history: root -> when this process admitted it, in order

ingressVars == <<seen, now, admissions>>

IngressInit == seen = << >> /\ now = 0 /\ admissions = << >>

-----------------------------------------------------------------------------
(* The checks, but for the replay.  Check 4 cannot fail.                   *)

SignatureHolds(p) ==
    /\ p.header.source \in DOMAIN Anchors
    /\ p.signature = [key |-> Anchors[p.header.source], root |-> p.root]

ExpectationKnown(p) == p.header.expectation \in DOMAIN Expectations

\* Check 5, if the Expectation is known.
LabelsPresent(p) ==
    LET id == Expectations[p.header.expectation].marking
    IN  /\ id \in Markings
        /\ \A i \in DOMAIN p.fields : p.fields[i].label.policy = id

\* Check 6: from the first field on, until one is not dominated.  The rank of
\* a classification that is not of the vocabulary raises.
Ranked(p, i) == /\ Known(p.recordLabel.classification)
                /\ Known(p.fields[i].label.classification)

Dominated(p, i) == Dominates(p.recordLabel, p.fields[i].label)

MarkingRaises(p) ==
    \E i \in DOMAIN p.fields :
        /\ ~Ranked(p, i)
        /\ \A j \in 1 .. i - 1 : Ranked(p, j) /\ Dominated(p, j)

MarkingHolds(p) ==
    \A i \in DOMAIN p.fields : Ranked(p, i) /\ Dominated(p, i)

\* Faulty variant: a pointer's leaf is recomputed with the salt it lacks.
ProofsHoldForAll(p) ==
    \A i \in DOMAIN p.fields :
        LET f == p.fields[i]
        IN  f.disposition # "withheld" =>
                Verifies(LeafHash(f.name, f.disposition, f.repr, f.label,
                                  f.salt),
                         f.proof, p.root)

\* _verify_proofs: what is released is recomputed, the rest is passed over.
ProofsHold(p) ==
    \A i \in DOMAIN p.fields :
        LET f == p.fields[i]
        IN  f.disposition \notin Protected =>
                /\ f.salt # None /\ f.repr # None
                /\ Verifies(LeafHash(f.name, f.disposition, f.repr, f.label,
                                     f.salt),
                            f.proof, p.root)

\* Check 7 is recorded and decides only at the very end.
HashWellFormed(p) == p.header.policyHash.alg = "sha384"

\* The reason of the first check that fails, in the order of verify.
Refusal(p) ==
    IF ~SignatureHolds(p) THEN "signature"
    ELSE IF p.header.measurement \notin Permitted THEN "attestation"
    ELSE IF ~ExpectationKnown(p) THEN "unknown expectation"
    ELSE IF ~LabelsPresent(p) THEN "labels/policy"
    ELSE IF MarkingRaises(p) THEN "raises"
    ELSE IF ~MarkingHolds(p) THEN "marking arithmetic"
    ELSE IF ~ProofsHold(p) THEN "provenance"
    ELSE "none"

-----------------------------------------------------------------------------
\* Faulty variant: the memory is pruned one unit too early.
KeptEarly == {r \in DOMAIN seen : now - seen[r] + 1 < Window}

\* The roots that pruning leaves in the memory.
Kept == {r \in DOMAIN seen : now - seen[r] < Window}

\* Refused before the memory is looked at.
Refuse(p) ==
    /\ UNCHANGED ingressVars
    /\ Refusal(p) # "none"

\* The memory is pruned, whatever comes of the package.
RefuseReplay(p) ==
    /\ p.root \in Kept
    /\ seen' = [r \in Kept |-> seen[r]]
    /\ Refusal(p) = "none"
    /\ UNCHANGED <<now, admissions>>

\* Faulty variant: a root that was seen before keeps its first time.
RememberFirst(p) ==
    /\ p.root \notin Kept
    /\ seen' = [r \in Kept \cup {p.root} |->
                   IF r \in DOMAIN seen THEN seen[r] ELSE now]
    /\ Refusal(p) = "none"

Remember(p) ==
    /\ p.root \notin Kept
    /\ seen' = [r \in Kept \cup {p.root} |->
                   IF r = p.root THEN now ELSE seen[r]]
    /\ Refusal(p) = "none"

Admissions(r) == IF r \in DOMAIN admissions THEN admissions[r] ELSE << >>

Admit(p) ==
    /\ Remember(p)
    /\ HashWellFormed(p)
    /\ admissions' = [r \in DOMAIN admissions \cup {p.root} |->
                         IF r = p.root THEN Append(Admissions(r), now)
                         ELSE admissions[r]]
    /\ UNCHANGED now

\* The result is taken over all checks, and check 7 had failed: the root has
\* been remembered by then.
RefuseHash(p) ==
    /\ Remember(p)
    /\ ~HashWellFormed(p)
    /\ UNCHANGED <<now, admissions>>

Verify(p) == Refuse(p) \/ RefuseReplay(p) \/ Admit(p) \/ RefuseHash(p)

\* time.time(), if nobody sets the clock back.
Tick == now' = now + 1 /\ UNCHANGED <<seen, admissions>>

\* A new process with a new Ingress.
Reopen == seen' = << >> /\ admissions' = << >> /\ UNCHANGED now

IngressNext == (\E p \in Packages : Verify(p)) \/ Tick \/ Reopen

IngressSpec == IngressInit /\ [][IngressNext]_ingressVars

-----------------------------------------------------------------------------
\* A root is admitted again only when the window has passed since it was
\* admitted last, however many packages are verified and however much is
\* pruned in between; only a restart forgets (ingress.py, check 9).
AdmittedOncePerWindow ==
    \A r \in DOMAIN admissions :
        \A i \in 1 .. Len(admissions[r]) - 1 :
            admissions[r][i + 1] - admissions[r][i] >= Window

\* The strengthening: an admission within the window is remembered, as of no
\* earlier time.
MemoryCovers ==
    \A r \in DOMAIN admissions :
        LET last == admissions[r][Len(admissions[r])]
        IN  now - last < Window => r \in DOMAIN seen /\ seen[r] >= last

\* Type correctness and the strengthening.
IngressInv ==
    /\ now \in Nat
    /\ seen \in [DOMAIN seen -> 0 .. now]
    /\ admissions \in [DOMAIN admissions -> Seq(0 .. now) \ {<< >>}]
    /\ MemoryCovers
    /\ AdmittedOncePerWindow
=============================================================================
