SPECIFICATION FairSpec
CONSTANTS
    Apps = {a1}
    s1 = s1
    s2 = s2
    qa = qa
    prod = prod
    Services = {s1}
    Envs = {qa}
    EnvOf <- EnvOfOne
    Deltas <- OneServiceDeltas
    Keys = {k1, k2}
    Sessions = {h1}
    MaxRequests = 2
    MaxAttempts = 2
    TaskRetries = 0
    CheckRetries = 0
    MaxReceives = 2
    MaxLate = 1
    Faults = {"work", "duplicate", "reuse"}
    NoPayload = NoPayload
INVARIANTS ClosedIsReported NobodyForgotten
PROPERTIES Resolved
CHECK_DEADLOCK FALSE
