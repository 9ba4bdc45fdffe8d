SPECIFICATION Spec
CONSTANTS
    Apps = {a1}
    s1 = s1
    s2 = s2
    qa = qa
    prod = prod
    Services = {s1, s2}
    Envs = {qa, prod}
    EnvOf <- EnvOfTwo
    Deltas <- UpdateDeltas
    Keys = {k1, k2, k3}
    Sessions = {h1, h2}
    MaxRequests = 3
    MaxAttempts = 2
    TaskRetries = 0
    CheckRetries = 0
    MaxReceives = 1
    MaxLate = 1
    Faults = {}
    NoPayload = NoPayload
SYMMETRY Symmetry
INVARIANTS AtMostOneInFlight
CHECK_DEADLOCK FALSE
