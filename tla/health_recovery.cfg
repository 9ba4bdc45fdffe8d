SPECIFICATION FairSpec
CONSTANTS
    x1 = x1
    g1 = g1
    c1 = c1
    dead1 = dead1
    Services = {x1}
    Groups = {g1}
    GroupOf <- GroupOfOne
    Registry <- OneDead
    ClusterOf <- ClusterOfOne
    Sweeps = {w1}
    States <- Seen
    Flaky = {}
    ListTimeout = 90
    SweepTimeout = 120
PROPERTIES RecoveryIsSeen
