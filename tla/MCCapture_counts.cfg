SPECIFICATION Spec
CONSTANTS
    MaxQueue = 1
    BatchSize = 1
    MaxThrows = 4
    MaxFailures = 0
    MaxEntries = 1
    Threads = {t1}
    Fingerprints = {f1, f2}
    Classes = {}
    ClassOf <- NoClass
INVARIANTS OccurrencesConserved
SYMMETRY Symmetry
CHECK_DEADLOCK FALSE
