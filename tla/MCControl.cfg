CONSTANTS
    Processes = {{t1, t2}, {t3}}
    t1 = t1
    t2 = t2
    t3 = t3
    Tool = t3
    Ops = {"ping", "bad"}
    KnownOps = {"ping"}
    SequenceLimit = 4
    MaxRequest = 3
    MaxSession = 2
    MayFail = TRUE
SPECIFICATION Spec
CHECK_DEADLOCK FALSE
INVARIANTS OwnAnswer ToolVerdict
PROPERTIES WordIntact ReaderReturns
