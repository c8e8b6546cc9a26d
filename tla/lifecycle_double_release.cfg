SPECIFICATION Spec
CONSTANTS
    q1 = q1
    q2 = q2
    q3 = q3
    r1 = r1
    r2 = r2
    rtA = rtA
    rtB = rtB
    Requests = {q1, q2, q3}
    Replicas = {r1}
    Routers = {rtA, rtB}
    RouterOf <- TwoRouters
    Kind <- OneOfEach
    MaxConcurrency <- OneSlotEach
    MaxTokens = 1
    Faults = {"audit"}
    NoReplica = NoReplica
INVARIANTS
    NoOversubscription
