SPECIFICATION Spec
CONSTANTS
    b1 = b1
    b2 = b2
    u1 = u1
    u2 = u2
    h1 = h1
    h2 = h2
    c1 = c1
    c2 = c2
    v1 = v1
    r1 = r1
    t1 = t1
    m1 = m1
    s1 = s1
    s2 = s2
    mA = mA
    mB = mB
    mC = mC
    Callers = {c1, c2}
    Boot = Boot
    MaxGrants = 2
    NoCredential = NoCredential
    Nobody = Nobody
    Clients = {c1, c2}
    MaxKeys = 2
    Browsers = {b1, b2}
    Users = {u1, u2}
    Handlers = {h1, h2}
    RoleHolders = {}
    GroupMembers = {u1}
    ByRole = TRUE
    ByGroup = TRUE
    MaxFlows = 2
    MaxCodes = 2
    None = None
    Viewers = {v1}
    TailLines = 2
    MaxPrinted = 3
    MaxOrphans = 1
    MaxBody = 2
    Registries <- Listings
    Names = {"auto", "large", "fast", "emb"}
    Roles = {"system", "user"}
    MaxMessages = 3
    Calls = {r1}
    Teams = {t1}
    Models = {m1}
    TeamOf <- OneTeam
    ModelOf <- OneModel
    Switches = {s1, s2}
    ScopeOf <- TwoGlobalSwitches
    Writes = {1, 2}
    Routers = {1, 2}
    Ids = {mA, mB, mC}
    Lists <- Releases
    Fields = {"prompt"}
    Values = {1, 2}
    Admins = {1}
    Absent = Absent
    Same = Same
    Unset = Unset
    p1 = p1
    p2 = p2
    n1 = n1
    n2 = n2
    e1 = e1
    o1 = o1
    Passes = {p1, p2}
    Served = {m1}
    UpstreamNames = {n1, n2}
    Images <- TwoImages
    NoListing = NoListing
    MaxRows = 3
    Limit = 1
    Concurrency = 2
    MaxRequests = 3
    Earlier = {e1}
    Others = {o1}
    MaxGenerated = 5
    RequestsPerChunk = 2
    ContentPerChunk = 2
INVARIANTS
    RefreshesAlone
    SessionsBegunHere
    OneSessionPerCode
    
    
    TurnClosedTruly
    SelectionAsPromised
    InstructionsKept
    OneSwitchPerScope
    ContentAllowed
    KnobTellsTruth
    WholeConfiguration
    PagesMissNothing
    LoadIsReal
    TrafficAsExpected
    HistoryWhole
PROPERTIES
    ReuseNeedsStaleRead
    CallsEnd
    RefusedOnlyWhenUnknown
    RolloverPickedUp
    TailReleased
    EditsOutliveSyncs
    VerdictsSettle
CHECK_DEADLOCK FALSE
