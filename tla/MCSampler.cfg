SPECIFICATION SamplerSpec
CONSTANTS
    Threads = {t1, t2}
    Fingerprints = {f1, f2, f3}
    Capacity = 2
    FullPerWindow = 2
    Reduced = 3
    Window = 2
    Resample = 3
    MaxDelay = 3
    LastMs = 5
    MaxHits = 5
INVARIANTS LruMatchesMap FullBudget
SYMMETRY Symmetry
CHECK_DEADLOCK FALSE
