CONSTANTS
    MaxGeneration = 2
    MaxSequence = 3
    Retained = TRUE
    MayPanic = FALSE
SPECIFICATION Spec
INVARIANT AppliedAsPublished
