CONSTANTS
    Requests = {r1, r2}
    Styles <- MCStyles
    r1 = r1
    r2 = r2
    MaxListens = 2
    Types = {json, xml}
    Json = json
SPECIFICATION Spec
INVARIANTS
    LayersOutliveRequests
    AnswersMatchWork
    PortReleased
    ContentTypeTellsEncoding
PROPERTY
    ShutdownReturns
CHECK_DEADLOCK FALSE
