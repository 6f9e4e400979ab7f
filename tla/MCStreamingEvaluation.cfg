\* Three findings on two channels against up to two records of ground truth.
CONSTANTS
    t1 = t1
    t2 = t2
    Targets = {t1, t2}
    MaxFindings = 3
    MaxExpectations = 2
SPECIFICATION StreamingSpec
SYMMETRY TargetSymmetry
INVARIANTS
    MetricsOrNothing
    RecallOverTruth
