SPECIFICATION Spec
CONSTANTS
    placeA = placeA
    placeB = placeB
    None = None
    Raises = Raises
    Fields <- MCFields
    Extensions <- MCExtensions
    CodePoint <- MCCodePoint
    EmptyText <- MCEmptyText
    Numeric = {}
    PolicyIds = {"demo"}
    Classifications <- MCClassifications
    Rank <- MCRank
    Caveats = {}
    Packages <- MCPackages
    Anchors <- MCAnchors
    Permitted = {"measured"}
    Expectations <- MCExpectations
    Markings = {"demo"}
    Window = 2
    Requests <- MCRequests
    Rules <- MCRules
    MaxCalls = 2
    Calls <- MCCalls
    MadeCalls <- MCMadeCalls
    SourceMapping <- MCMapping
    SourceExpectation <- MCExpectation
    SourceIdentity = "source"
    SourceKey = "key"
    SourceMeasurement = "measured"
    Library <- MCLibrary
    Correlation = TRUE
    Foreign <- MCForeign
    MaxBuilds = 2
    MaxTime = 2
    MaxLosses = 1
INVARIANTS
    TypeOK
    RefusedOnlyForCause
    SameRootSameRelease
    ProtectedDoesNotTravel
    ProvesOnlyItself
    PortsAgree
    ProposalsDoNotBlock
    RevocationHolds
    AdmittedOncePerWindow
PROPERTIES
    ProofFailsOnlyOnChange
CHECK_DEADLOCK FALSE
