CONSTANTS
    Numerals <- MCNumerals
    DefaultTimeout = 2
    MaxTimeout = 2
    DefaultCount = 2
    MaxCount = 3
    MaxSize = 3
    CheckPing = 9
    MaxPing = 9
    ArgumentLists <- MCArgumentLists
    ContractTexts <- MCContractTexts
    ActivationTexts <- MCActivationTexts
    Compiled <- MCCompiled
    Boards <- MCBoards
    ContractOrder <- MCContractOrder
    ActivationOrder <- MCActivationOrder
    Durations = {1, 2, 4}
SPECIFICATION Spec
CHECK_DEADLOCK FALSE
INVARIANTS ArgumentsExact RecordsExact  EchoTruthful
PROPERTIES ToolEnds
