CONSTANTS
    MaxGeneration = 1
    MaxSequence = 4
    Retained = FALSE
    MayPanic = TRUE
SPECIFICATION Spec
INVARIANTS TypeOK AppliedAsPublished ReportedIsDriven
PROPERTIES PowerCycled RequestRetained CallReturns
