SPECIFICATION Spec
CONSTANTS
    N = 3
    MaxWorkers = 2
    MaxAttempts = 2
    Models = {m1, m2}
    Types = {"LegalConcept", "LegalSubject"}
    Link = Link
    Setups <- MCSetups
    Smoke = {2}
    MaxRuns = 2
    MaxChanges = 1
INVARIANTS TypesAreOrderFree LossIsBounded ReadyIsOneRun
PROPERTIES PaidOnce ExtractionEnds
CHECK_DEADLOCK FALSE
