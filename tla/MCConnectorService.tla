------------------------- MODULE MCConnectorService -------------------------
(* Model-checking instance of ConnectorService: mapping files that compile   *)
(* and not, policies that run and not.                                       *)
EXTENDS ConnectorService

Mapping(class, fn) ==
    [id |-> "mapping", expectation |-> "vessel:1",
     fields |-> <<[target |-> "a", source |-> "A",
                   transforms |-> <<[fn |-> fn, arg |-> "x"]>>,
                   onUnmapped |-> "error", classification |-> class]>>]

MCMappings == {Mapping("low", "prefix"), Mapping("low", "soundex")}

Derivation(field, from, granularity, accepted) ==
    [field |-> field, from |-> from, granularity |-> granularity,
     protects |-> "exact", accepted |-> accepted]

Policy(dispositions, derivations) ==
    [id |-> "policy", default |-> "withheld", dispositions |-> dispositions,
     derivations |-> derivations]

MCFields == {"a", "b", "c"}
MCPolicies ==
    {Policy("a" :> "clear",
            {Derivation("c", {"a", "b"}, "exact", FALSE),
             Derivation("b", {"a"}, "fine", FALSE)}),
     Policy("a" :> "clear", {Derivation("c", {"a"}, "exact", FALSE)}),
     None}

MCLevels == {<<"UNMARKED", "RESTRICTED", "GENERAL", "SECRET">>,
             <<"RESTRICTED", "SECRET">>, <<"low", "high">>}
MCRequests ==
    [roles : {{}}, nationality : {"PNA"}, purpose : {"safety"},
     clearance : {"UNMARKED", "RESTRICTED", "SECRET", "high", "unheard of"},
     lawfulBasis : {NoBasis, "warrant"},
     devicePosture : {"managed-attested", "unmanaged"}]

=============================================================================
