SPECIFICATION FairSpec
CONSTANTS
    MAX_DESC = 2
    ProviderOf <- MCUdp
    MaxInc <- EachOnce
    MaxChange = 0
    MaxRx = 1
    AddAllReply = {"SUCCESS"}
    NoneReply = {"SUCCESS", "ERROR"}
    Args <- Nc
    Keys = {}
    StackLimit = 2
    PromptKernel = TRUE
PROPERTIES NcPrints
CHECK_DEADLOCK FALSE
