SPECIFICATION Spec
CONSTANTS
    MaxQueue = 1
    BatchSize = 1
    MaxThrows = 3
    MaxFailures = 1
    MaxEntries = 1
    Threads = {t1, t2}
    Fingerprints = {f1}
    Classes = {c1}
    ClassOf <- SharedClass
INVARIANTS OccurrencesConserved SourceShippedOnce QuietDeathLosesNothing
SYMMETRY Symmetry
CHECK_DEADLOCK FALSE
