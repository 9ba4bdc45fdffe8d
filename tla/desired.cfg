SPECIFICATION ShownSpec
CONSTANTS
    a = a
    b = b
    qa = qa
    prod = prod
    queue = queue
    db = db
    Envs = {qa, prod}
    Services = {a, b}
    Types = {"messaging", "rel_database"}
    AwsTypes = {"messaging"}
    Slugs = {queue, db}
    MaxRequests = 3
    Twins = {1, 2}
    Creations <- AllCreations
    Updates <- AllUpdates
    Alike <- LikeProd
    Faults = {"cleanup", "halfway", "unmerged"}
INVARIANTS TypeOK SuccessIsShown StatusIsEarned OneEnvironmentEach Provisioned AccessEnds
PROPERTIES NoOrphaning PurgeAfterTeardown StoredKeySurvives RemovedIsWithdrawn
CHECK_DEADLOCK FALSE
