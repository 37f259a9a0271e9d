CONSTANTS
    MaxWord = 2
    MaxOther = 1
    TokenLimit = 2
    DeferralLimit = 2
    QueueLength = 1
    LinuxChannels = {"control"}
    RtosChannels = {"control", "notify"}
SPECIFICATION Spec
PROPERTIES NoOverwrite InOrder WordsArrive
