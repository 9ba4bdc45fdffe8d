SPECIFICATION Spec
CONSTANTS
    Apps = {a1, a2}
    s1 = s1
    s2 = s2
    qa = qa
    prod = prod
    Services = {s1}
    Envs = {qa}
    EnvOf <- EnvOfOne
    Deltas <- BareDeltas
    Keys = {k1, k2}
    Sessions = {h1, h2}
    MaxRequests = 2
    MaxAttempts = 1
    TaskRetries = 1
    CheckRetries = 0
    MaxReceives = 1
    MaxLate = 1
    Faults = {"late", "sdk", "publish", "check", "crash", "consumer"}
    NoPayload = NoPayload
SYMMETRY Symmetry
CONSTRAINT OneFaultAtATime
INVARIANTS ReferentialIntegrity UniqueKeys
CHECK_DEADLOCK FALSE
