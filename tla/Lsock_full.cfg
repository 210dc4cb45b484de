SPECIFICATION Spec
CONSTANTS
    MAX_DESC = 2
    ProviderOf <- MCTcpUdp
    MaxInc <- EachOnce
    MaxChange = 0
    MaxRx = 1
    AddAllReply = {"SUCCESS", "ERROR"}
    NoneReply = {"SUCCESS", "ERROR"}
    Args <- Full
    Keys = {"T"}
    StackLimit = 2
    PromptKernel = FALSE
INVARIANTS
    ReadIsAnswered
    NoGhostRow
    CountsShown
CHECK_DEADLOCK FALSE
