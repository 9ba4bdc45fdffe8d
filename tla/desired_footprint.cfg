SPECIFICATION ShownSpec
CONSTANTS
    a = a
    b = b
    qa = qa
    prod = prod
    queue = queue
    db = db
    Envs = {qa, prod}
    Services = {a, b}
    Types = {"messaging", "rel_database"}
    AwsTypes = {"messaging"}
    Slugs = {queue, db}
    MaxRequests = 2
    Twins = {1, 2}
    Creations <- AllCreations
    Updates <- AllUpdates
    Alike <- LikeProd
    Faults = {}
INVARIANT FootprintMatches
CHECK_DEADLOCK FALSE
