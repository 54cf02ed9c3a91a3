------------------------------ MODULE Exchange ------------------------------
(***************************************************************************)
(* The exchange of one record between a source and the platform, as the    *)
(* reference implements it: Connector.build_package (rachis/connect.py)    *)
(* over Connect, DisclosurePolicy and Provenance, Ingress.verify, and      *)
(* callbacks (Disclosure).  What was built may reach the platform at any    *)
(* time and any number of times: the connector's outbound queue keeps a    *)
(* package until an answer arrives (see OutboundQueue).                    *)
(***************************************************************************)
EXTENDS Ingress, Disclosure

CONSTANTS
    Calls,         \* calls of build_package: [row, policy, class]
    MadeCalls,     \* those of them made in the exchange
    SourceMapping, SourceExpectation,
    SourceIdentity, SourceKey, SourceMeasurement,
    Library,       \* the derivations the Validator knows
    Correlation,   \* whether there is a correlation service
    Foreign,       \* external: packages of other sources
    MaxBuilds, MaxTime, MaxLosses    \* bounds

ASSUME MadeCallsAssumption == MadeCalls \subseteq Calls
ASSUME CallsAssumption ==
    \A c \in Calls :
        /\ DOMAIN c = {"row", "policy", "class"}
        /\ DOMAIN c.policy = {"id", "default", "dispositions", "derivations"}

\* An Expectation names fields; Validator.LIBRARY holds coarse derivations of
\* what is protected as exact.
ASSUME ShapeAssumption == DOMAIN SourceExpectation.fields \subseteq Fields
ASSUME LibraryAssumption ==
    \A d \in Library : d.granularity = "coarse" /\ d.protects = "exact"

\* A mapping is a list of fields with lists of transforms.
IsList(s) == Len(s) \in Nat /\ DOMAIN s = 1 .. Len(s)
ASSUME MappingAssumption ==
    /\ IsList(SourceMapping.fields)
    /\ \A i \in DOMAIN SourceMapping.fields :
           IsList(SourceMapping.fields[i].transforms)

\* The source maps with the reference.
ASSUME TransformsAssumption == InBothLibraries(SourceMapping)

\* The platform has been told of the source.
ASSUME TrustAssumption ==
    /\ SourceIdentity \in DOMAIN Anchors
    /\ Anchors[SourceIdentity] = SourceKey
    /\ SourceMeasurement \in Permitted
    /\ SourceExpectation.version \in DOMAIN Expectations
    /\ Expectations[SourceExpectation.version].marking =
           SourceExpectation.marking
    /\ SourceExpectation.marking \in Markings

VARIABLES
    builds,        \* the packages built: [call, salt]
    bound          \* the last binding: [leaves, order, label]

vars == <<ingressVars, sourceVars, builds, bound>>

Init ==
    /\ IngressInit
    /\ SourceInit
    /\ builds = {} /\ bound = [order |-> << >>]

-----------------------------------------------------------------------------
(* What build_package makes of a call.                                     *)

Header(policy) ==
    [expectation |-> SourceExpectation.version,
     mappingHash |-> MappingHash(SourceMapping),
     policyHash |-> PolicyHash(policy),
     measurement |-> SourceMeasurement,
     source |-> SourceIdentity]

Mapped(row) == Transform(SourceMapping, row)

LabelOf(row) ==
    LabelsFor(SourceMapping, SourceExpectation.marking, Mapped(row))

RecordLabel(class) == [policy |-> SourceExpectation.marking,
                       classification |-> class, caveats |-> {}]

\* build_package raises on a row that does not conform and on a policy that
\* does not apply.
Accepts(c) ==
    /\ Problems(SourceExpectation, Mapped(c.row)) = {}
    /\ Applies(c.policy, Mapped(c.row), Correlation)

Builds == {[call |-> c, salt |-> s] :
              c \in {d \in Calls : Accepts(d)}, s \in 1 .. MaxLosses + 1}

ResolvedBy(b) == ApplyPolicy(b.call.policy, Mapped(b.call.row),
                             LabelOf(b.call.row))
Salts(b) == [f \in Fields |-> b.salt]

\* The package of each call, and what the source remembers of it.
PackageOf ==
    [b \in Builds |->
        Bind("record", Header(b.call.policy), RecordLabel(b.call.class),
             ResolvedBy(b), Salts(b), SourceKey)]
BindingOf ==
    [b \in Builds |->
        [leaves |-> LeavesOf(Header(b.call.policy), ResolvedBy(b), Salts(b)),
         order |-> CanonicalOrder(DOMAIN Mapped(b.call.row)),
         label |-> LabelOf(b.call.row)]]

Sent == {PackageOf[b] : b \in builds}

\* Texts and salts are told from an attribute that is not there.
ASSUME NoneAssumption ==
    /\ None \notin 1 .. MaxLosses + 1
    /\ \A b \in Builds : \A f \in DOMAIN Mapped(b.call.row) :
           Repr(Mapped(b.call.row)[f]) # None
ASSUME LossesAssumption == MaxLosses \in Nat

\* The gate is given what sources build.
ASSUME PackagesAssumption ==
    Foreign \subseteq Packages /\ PackageOf \in [Builds -> Packages]

-----------------------------------------------------------------------------
BuildPackage(b) ==
    /\ Cardinality(builds) < MaxBuilds
    /\ b.call \in MadeCalls
    /\ b.salt = store
    /\ builds' = builds \cup {b}
    /\ bound' = BindingOf[b]
    /\ UNCHANGED <<ingressVars, sourceVars>>

Deliver(p) ==
    /\ Verify(p)
    /\ UNCHANGED <<sourceVars, builds, bound>>

\* On a root the platform has admitted.
Callback(q, root) ==
    /\ Handle(q, root, bound)
    /\ UNCHANGED <<ingressVars, builds, bound>>

RevokeRequest(q) ==
    /\ Revoke(q)
    /\ UNCHANGED <<ingressVars, builds, bound>>

RestartSource(exported) ==
    /\ exported \/ store <= MaxLosses
    /\ Reload(exported)
    /\ UNCHANGED <<ingressVars, builds, bound>>

RestartPlatform ==
    /\ Reopen
    /\ UNCHANGED <<sourceVars, builds, bound>>

TimePasses ==
    /\ now < MaxTime
    /\ Tick
    /\ UNCHANGED <<sourceVars, builds, bound>>

Next ==
    \/ \E b \in Builds : BuildPackage(b)
    \/ \E p \in Sent \cup Foreign : Deliver(p)
    \/ \E q \in Requests, root \in DOMAIN admissions : Callback(q, root)
    \/ \E q \in Requests : RevokeRequest(q)
    \/ \E exported \in BOOLEAN : RestartSource(exported)
    \/ RestartPlatform
    \/ TimePasses

Spec == Init /\ [][Next]_vars

-----------------------------------------------------------------------------
(* Properties of the packages, over every call, made in the exchange or    *)
(* not, and every pair of calls.  The sets of counterexamples do not depend *)
(* on the state, so TLC computes them once.                                *)

\* What the source can have built with the salts it has had.
Possible(b) == b.salt <= store

Pairs == {<<b, c>> : b \in Builds, c \in Builds}

\* The gate agrees with the source: what an honest source builds is refused
\* only because the label asked for the record does not cover its fields, or
\* because a classification is not of the platform's vocabulary; signature,
\* Expectation, labels and proofs always hold (ingress.py, checks 1 to 8).
WronglyRefused ==
    {b \in Builds :
        LET p == PackageOf[b]
            covers == \A i \in DOMAIN p.fields :
                          /\ Ranked(p, i)
                          /\ Rank[p.fields[i].label.classification] <=
                                 Rank[p.recordLabel.classification]
        IN  Refusal(p) \notin IF covers THEN {"none"}
                              ELSE {"marking arithmetic", "raises"}}
RefusedOnlyForCause == \A b \in WronglyRefused : ~Possible(b)

\* Two packages with one root release the same values under the same labels:
\* the replay check may take one for the other.  What a pointer points to,
\* and the label asked for the record, are not under the root (provenance.py,
\* _leaf_hash and bind; ingress.py, check 9).
Clashing ==
    {bs \in Pairs :
        LET p == PackageOf[bs[1]]
            q == PackageOf[bs[2]]
        IN  /\ p.root = q.root
            /\ ~ /\ p.header = q.header
                 /\ DOMAIN p.fields = DOMAIN q.fields
                 /\ \A i \in DOMAIN p.fields :
                        q.fields[i] = [p.fields[i] EXCEPT
                                          !.pointer = q.fields[i].pointer]}
SameRootSameRelease ==
    \A bs \in Clashing : ~(Possible(bs[1]) /\ Possible(bs[2]))

\* A field's values have one type or none of its texts in common; 5 and "5"
\* have one canonical text (policy.py, _repr).
TextsTell ==
    \A b, c \in Builds :
        \A f \in DOMAIN Mapped(b.call.row) \cap DOMAIN Mapped(c.call.row) :
            Repr(Mapped(b.call.row)[f]) = Repr(Mapped(c.call.row)[f]) =>
                Mapped(b.call.row)[f] = Mapped(c.call.row)[f]

\* Rows that differ only in what the policy protects give packages that
\* differ only in pointers, under the same salts: no trace of a protected
\* value is in a leaf, a proof, the root or a field (provenance.py,
\* _leaf_hash and bind; policy.py, apply_policy).
Leaking ==
    {bs \in Pairs :
        LET b == bs[1]
            c == bs[2]
            mapped == Mapped(b.call.row)
            other == Mapped(c.call.row)
            q == PackageOf[c]
        IN  /\ c = [b EXCEPT !.call.row = c.call.row]
            /\ DOMAIN mapped = DOMAIN other
            /\ \A f \in DOMAIN mapped :
                   DispositionFor(b.call.policy, f) \notin Protected =>
                       mapped[f] = other[f]
            /\ q # [PackageOf[b] EXCEPT !.fields =
                       [i \in DOMAIN @ |->
                           [@[i] EXCEPT !.pointer = q.fields[i].pointer]]]}
ProtectedDoesNotTravel ==
    \A bs \in Leaking : ~(Possible(bs[1]) /\ Possible(bs[2]))

\* The proof of each bound field verifies for its leaf and for no other leaf
\* of the tree, whatever the number of leaves (provenance.py, MerkleTree).
Misproved ==
    {b \in Builds :
        LET p == PackageOf[b]
            leaves == BindingOf[b].leaves
        IN  \E i \in DOMAIN p.fields, j \in DOMAIN leaves :
                ~(Verifies(leaves[j], p.fields[i].proof, p.root) <=> j = i + 1)}
ProvesOnlyItself == \A b \in Misproved : ~Possible(b)

\* No two fields of the mapping have one target.
DistinctTargets ==
    \A i, j \in DOMAIN SourceMapping.fields :
        SourceMapping.fields[i].target = SourceMapping.fields[j].target => i = j

\* The connector's engine and the reference's mapping agree on a row but for
\* what comes out as None, which only the reference keeps as a value
\* (pipeline/mapping.py, connect.py).
Divergent ==
    {b \in Builds :
        LET reference == Mapped(b.call.row)
        IN  EngineTransform(SourceMapping, b.call.row) #
                [f \in {g \in DOMAIN reference : reference[g] # None}
                    |-> reference[f]]}
PortsAgree == \A b \in Divergent : ~Possible(b)

\* A row that the connector would build is conformant for the offline
\* Validator, and stays so when the owner adopts all the derivations it
\* proposes: none of its library is precise enough to block a policy
\* (connect.py, Validator).
Blocked ==
    {b \in Builds :
        LET adopted == [b.call.policy EXCEPT !.derivations =
                           @ \cup Proposed(SourceMapping, b.call.policy,
                                           Library)]
        IN  ~Conformant(SourceExpectation, SourceMapping, adopted, b.call.row)}
ProposalsDoNotBlock == \A b \in Blocked : ~Possible(b)

-----------------------------------------------------------------------------
(* Properties of the exchange.                                             *)

\* The state stays in its domains; no salt is of a store yet to come, and
\* what is admitted was built, here or elsewhere.
TypeOK ==
    /\ IngressInv
    /\ \A b \in builds : b.salt \in 1 .. store
    /\ revoked \subseteq {<<q.field, q.requester>> : q \in Requests}
    /\ log \in Seq([request : Requests, decision : Decisions])
    /\ DOMAIN admissions \subseteq {p.root : p \in Sent \cup Foreign}

\* A release whose proof fails is one against another root than the source
\* bound last, of a field that was not protected when it was bound, or of
\* one whose salt was lost (disclosure.py, handle).
ProofFailsOnlyOnChange ==
    [][\A q \in Requests, root \in DOMAIN admissions :
          /\ log' = Append(log, [request |-> q,
                                decision |-> "release:proof-fail"])
          /\ Handle(q, root, bound)
          => \/ root # Root(bound.leaves)
             \/ store > 1
             \/ \E b \in builds :
                    /\ BindingOf[b] = bound
                    /\ DispositionFor(b.call.policy, q.field) # "pointer"]_vars

\* A requester who was denied as revoked gets no release of that field from
\* the same handler later (disclosure.py, revoke; a restart forgets).
RevocationHolds ==
    \A i, j \in DOMAIN log :
        /\ i < j
        /\ log[i].decision = "deny:revoked"
        /\ log[i].request.field = log[j].request.field
        /\ log[i].request.requester = log[j].request.requester
        => log[j].decision = "deny:revoked"
=============================================================================
