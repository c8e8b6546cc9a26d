SPECIFICATION Spec
CONSTANTS
    p1 = p1
    p2 = p2
    m1 = m1
    m2 = m2
    Pods = {p1, p2}
    Models = {m1, m2}
    ModelOf <- TwoModels
    Configs <- OneModelConfig
    Passes = {s1}
    Requests = {q1, q2}
    Healths = {"ready", "loading"}
    Reports = {0, 1, 2}
    NoPod = NoPod
PROPERTIES
    ClaimsFindRoom
    ListedRowsStay
