\* Three findings on two channels, up to two expectations each, equal or not.
CONSTANTS
    t1 = t1
    t2 = t2
    Targets = {t1, t2}
    MaxFindings = 3
    MaxExpectations = 2
SPECIFICATION EvaluationSpec
SYMMETRY TargetSymmetry
INVARIANTS
    PublishedIsBatch
    AgreementsMaximal
