----------------------------- MODULE MCExchange -----------------------------
(* Model-checking instance of Exchange: a record with a coded field, a     *)
(* number, a pointer and an extension field that nothing classifies.       *)
EXTENDS Exchange

CONSTANTS placeA, placeB

MCFields == {"code", "number", "place", "ns:note"}
MCExtensions == {"ns:note"}
MCCodePoint == "code" :> 1 @@ "ns:note" :> 2 @@ "number" :> 3 @@ "place" :> 4
MCEmptyText == << >>

MCRank == "low" :> 0 @@ "high" :> 1
MCClassifications == {"low", "high", "UNMARKED"}

FieldMapping(target, source, transforms, onUnmapped, class) ==
    [target |-> target, source |-> source, transforms |-> transforms,
     onUnmapped |-> onUnmapped, classification |-> class]

MCMapping ==
    [id |-> "mapping", expectation |-> "vessel:1",
     fields |->
        <<FieldMapping("code", "CD",
              <<[fn |-> "codelist", table |-> <<"GB">> :> <<"GBR">>]>>,
              "error", "low"),
          FieldMapping("number", "NO", <<[fn |-> "trim"]>>,
              "omit_field_with_reason", "low"),
          FieldMapping("place", "PL", <<[fn |-> "trim"]>>, "error", "high"),
          FieldMapping("ns:note", "NT",
              <<[fn |-> "prefix", arg |-> "N"], [fn |-> "trim"]>>,
              "omit_field_with_reason", "UNMARKED")>>]

Spec1(type, required) == [type |-> type, required |-> required,
                          pattern |-> None]
MCExpectation ==
    [version |-> "vessel:1", marking |-> "demo",
     fields |-> "code" :> Spec1("string", FALSE)
             @@ "number" :> Spec1("integer", FALSE)
             @@ "place" :> Spec1("string", TRUE)]
MCExpectations == "vessel:1" :> MCExpectation

Base == "CD" :> Str(<<"GB">>) @@ "PL" :> Str(<<placeA>>)
            @@ "NO" :> [kind |-> "integer", text |-> <<"5">>]
Derivation(granularity, accepted) ==
    [field |-> "place", from |-> {"code"}, granularity |-> granularity,
     protects |-> "exact", accepted |-> accepted]
Policy(place, derivations) ==
    [id |-> "policy", default |-> "withheld",
     dispositions |-> "code" :> "clear" @@ "number" :> "hash-only"
                   @@ "place" :> place,
     derivations |-> derivations]
Coarse == Policy("pointer", {Derivation("coarse", FALSE)})
Exact == Policy("pointer", {Derivation("exact", FALSE)})

Call(row, policy, class) == [row |-> row, policy |-> policy, class |-> class]

\* The place has changed; an unmapped code and no number; a note.  Besides,
\* a note without a code, no place, and a text in place of the number.
Moved == "PL" :> Str(<<placeB>>) @@ Base
Partial == "CD" :> Str(<<"FR">>) @@ "NO" :> None @@ Base
Noted == "NT" :> Str(<<placeB>>) @@ Base
Rows == {Base, Moved, Partial, Noted, "CD" :> None @@ Noted,
         "PL" :> None @@ Base, "NO" :> Str(<<"5">>) @@ Moved}
MCCalls ==
    {Call(row, policy, class) :
        row \in Rows, class \in {"low", "high"},
        policy \in {Coarse, Exact, Policy("clear", {}),
                    Policy("withheld", {}), Policy("hash-only", {})}}

\* In the exchange only the place changes, or the label asked for is too low,
\* or nothing is protected.
MCMadeCalls ==
    {Call(Base, Coarse, "high"), Call(Moved, Coarse, "high"),
     Call(Base, Coarse, "low"), Call(Base, Policy("clear", {}), "high")}

MCLibrary == {[field |-> "place", from |-> {"number"},
               granularity |-> "coarse", protects |-> "exact",
               accepted |-> FALSE]}

MCRequests ==
    {[field |-> "place", requester |-> r, clearance |-> c,
      nationality |-> "PNA", purpose |-> "safety"] :
        r \in {"analyst"}, c \in {"low", "high"}}
MCRules == <<[kind |-> "clearance", minimum |-> "high", order |-> MCRank],
             [kind |-> "releasability", nations |-> {"PNA"}],
             [kind |-> "purpose", blocked |-> {"marketing"}]>>

MCAnchors == "source" :> "key" @@ "partner" :> "partner-key"

\* A partner's packages: one with a policy hash of another kind, one signed
\* with a key the platform does not hold.
PartnerHeader == [Header(Policy("clear", {})) EXCEPT !.source = "partner"]
PartnerPackage(header, key) ==
    Bind("other", header, RecordLabel("high"),
         ApplyPolicy(Policy("clear", {}), Mapped(Base), LabelOf(Base)),
         [f \in Fields |-> 9], key)
MCForeign ==
    {PartnerPackage([PartnerHeader EXCEPT !.policyHash.alg = "md5"],
                    "partner-key"),
     PartnerPackage(PartnerHeader, "lost-key")}

MCPackages == MCForeign \cup {PackageOf[b] : b \in Builds}

\* The hypotheses of the theorems on roots and on the two mappings.
ASSUME HypothesesAssumption == TextsTell /\ DistinctTargets
=============================================================================
