SPECIFICATION FairSpec
CONSTANTS
    MAX_DESC = 2
    ProviderOf <- MCTcpUdp
    MaxInc <- EachOnce
    MaxChange = 1
    MaxRx = 1
    AddAllReply = {"SUCCESS"}
    NoneReply = {"SUCCESS", "ERROR"}
    Args <- TcpOnce
    Keys = {}
    StackLimit = 3
    PromptKernel = TRUE
PROPERTIES OnceEnds
CHECK_DEADLOCK FALSE
