SPECIFICATION FairSpec
CONSTANTS
    p1 = p1
    p2 = p2
    m1 = m1
    m2 = m2
    Pods = {p1, p2}
    Models = {m1}
    ModelOf <- OneModel
    Configs <- NoneOrAll
    Passes = {s1, s2}
    Requests = {q1}
    Healths = {"ready"}
    Reports = {0}
    NoPod = NoPod
INVARIANTS
    CapacityNeverLost
PROPERTIES
    FleetConverges
