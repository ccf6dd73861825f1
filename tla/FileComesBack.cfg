SPECIFICATION Spec
CONSTANTS
    Files = {f1, f2}
    Providers = {"gateway", "helia", "storacha", "synapse"}
    Sizes = {"small", "large"}
    Partials = 2
    MaxGrowth = 1
    None = None
    Other = Other
CHECK_DEADLOCK FALSE
INVARIANT FileComesBack
