SPECIFICATION Spec
CONSTANTS
    a = a
    b = b
    qa = qa
    prod = prod
    db = db
    Envs = {qa, prod}
    Services = {a, b}
    Slugs = {db}
    Requests <- Calls
    MaxRequests = 4
    MaxBuilds = 1
    Faults = {"github", "restart", "review"}
    NoFile = NoFile
    NoEnv = NoEnv
INVARIANTS TypeOK OverlaysResolve Published
PROPERTIES NoResurrection NothingLost
CHECK_DEADLOCK FALSE
