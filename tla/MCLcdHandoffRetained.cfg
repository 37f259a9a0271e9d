CONSTANTS
    Values = {b, w}
    Black = b
    Noise = n
    Frames <- MCOneFrame
    MaxGeneration = 2
    MaxSequence = 2
    Retained = TRUE
    MayPanic = FALSE
SPECIFICATION Spec
PROPERTIES ImplementsHandoff
