SPECIFICATION StatusSpec
CONSTANTS
    qa = qa
    prod = prod
    x = x
    y = y
    old = old
    new = new
    None = None
    Callers = {k1, k2}
    Inputs <- Forms
    Apps = {app}
    Envs = {qa, prod}
    Names = {x, y}
    Endpoints = {old, new}
    Tokens = {old, new}
    Readers = {reader}
    MaxClusters = 2
    MaxCalls = 3
    MaxRequests = 3
INVARIANTS TypeOK ServicesRouted OnePerEnvironment EnvironmentOnOneCluster SuccessIsWhole BlocksNamed
PROPERTIES DeletedIsGone CredentialSurvives RoutesEnvironments
SYMMETRY Alike
CHECK_DEADLOCK FALSE
