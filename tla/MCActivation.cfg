CONSTANTS
    MaxGeneration = 2
    MaxBinds = 2
    MaxId = 3
    SequenceModulus = 2
    MaxAttempts = 1
    Boards = {"picoclaw", "plain"}
    Retaining = {"picoclaw"}
    Failing = {"picoclaw"}
SPECIFICATION Spec
INVARIANTS OutcomeTruthful BoardHeld NeverMisdiagnosed
PROPERTIES LeaseAuthorized ProbeReturns
