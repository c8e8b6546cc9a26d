SPECIFICATION FairSpec
CONSTANTS
    q1 = q1
    q2 = q2
    r1 = r1
    r2 = r2
    k1 = k1
    Requests = {q1, q2}
    Replicas = {r1, r2}
    Keys = {k1}
    KeyOf <- OneConversation
    MaxConcurrency <- OneSlotEach
    MaxRate = 1
    Debounce = 0
    Window = 2
    PollEvery = 1
    NoReplica = NoReplica
    NoKey = NoKey
PROPERTIES
    
    HitsAreReturns
    FirstRequestsAreSeen
    EveryReplicaRetried
