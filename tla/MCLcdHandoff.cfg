CONSTANTS
    Values = {b, w}
    Black = b
    Noise = n
    Frames <- MCFrames
    MaxGeneration = 1
    MaxSequence = 2
    Retained = FALSE
    MayPanic = TRUE
SPECIFICATION Spec
INVARIANTS FlipShowsFrame
PROPERTIES SlotOwned TailFinishes TornNotLeftLit
