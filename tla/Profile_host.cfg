CONSTANTS
    Hosts = {s, t}
    Supported = {"p"}
    Unprofilable = {"bad"}
    Malformed = {2}
    ResultCacheMax = 2
    Workloads <- AllWorkloads
SPECIFICATION HostSpec
INVARIANTS
    PrefixIdentity
    QuietClearIsHonest
PROPERTIES ReleasedForGood
SYMMETRY HostSymmetry
CHECK_DEADLOCK FALSE
