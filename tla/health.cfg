SPECIFICATION FairSpec
CONSTANTS
    x1 = x1
    g1 = g1
    c1 = c1
    dead1 = dead1
    Services = {x1}
    Groups = {g1}
    GroupOf <- GroupOfOne
    Registry <- OneDead
    ClusterOf <- ClusterOfOne
    Sweeps = {w1, w2}
    States <- Seen
    Flaky = {dead1}
    ListTimeout = 90
    SweepTimeout = 120
INVARIANTS TypeOK NoOrphanSetup
PROPERTIES FailureIsSeen
