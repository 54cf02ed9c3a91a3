SPECIFICATION Spec
CONSTANTS
    None = None
    NoFile = NoFile
    Empty = Empty
    Fields <- MCFields
    Extensions = {}
    Numeric = {}
    EmptyText = EmptyText
    KeyPaths = {TRUE, FALSE}
    Mappings <- MCMappings
    Policies <- MCPolicies
    Expectations = {"vessel:1", "vessel:2"}
    Requests <- MCRequests
    Levels <- MCLevels
    MaxStarts = 3
    MaxKeys = 2
INVARIANTS
    TypeOK
    RunningPolicyProtects
    OneIdentity
    HealthIsTruthful
    OrphansNeedAFailedStart
    RulesAreMonotone
CHECK_DEADLOCK FALSE
