SPECIFICATION Spec
CONSTANTS
    q1 = q1
    q2 = q2
    q3 = q3
    r1 = r1
    r2 = r2
    rtA = rtA
    rtB = rtB
    Requests = {q1, q2, q3}
    Replicas = {r1}
    Routers = {rtA, rtB}
    RouterOf <- TwoRouters
    Kind <- OneOfEach
    MaxConcurrency <- TwoSlotsEach
    MaxTokens = 1
    Faults = {"query", "placement", "start", "backend", "settle", "release", "crash", "removal"}
    NoReplica = NoReplica
INVARIANTS
    CeilingRespected
    NoOversubscription
    SlotsCovered
    ServedRowOpen
    AnswerMatchesRow
\* With its model removed and every request at an end nothing is left to happen.
CHECK_DEADLOCK FALSE
