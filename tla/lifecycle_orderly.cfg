SPECIFICATION OrderlySpec
CONSTANTS
    Apps = {a1}
    s1 = s1
    s2 = s2
    qa = qa
    prod = prod
    Services = {s1, s2}
    Envs = {qa, prod}
    EnvOf <- EnvOfTwo
    Deltas <- UpdateDeltas
    Keys = {k1, k2, k3}
    Sessions = {h1, h2}
    MaxRequests = 3
    MaxAttempts = 1
    TaskRetries = 1
    CheckRetries = 0
    MaxReceives = 1
    MaxLate = 1
    Faults = {"publish", "check", "crash", "consumer", "sdk", "late"}
    NoPayload = NoPayload
SYMMETRY Symmetry
INVARIANTS TypeOK AtMostOneInFlight SuccessIsApplied
PROPERTIES TerminalIsFinal OnlyYoungerRequestsPurge OneAtATime AbandonedBlocks
CONSTRAINT OneFaultAtATime
CHECK_DEADLOCK FALSE
