SPECIFICATION FairSpec
CONSTANTS
    MAX_DESC = 2
    ProviderOf <- MCUdp
    MaxInc <- FirstTwice
    MaxChange = 0
    MaxRx = 1
    AddAllReply = {"SUCCESS"}
    NoneReply = {"SUCCESS"}
    Args <- UdpModes
    Keys = {}
    StackLimit = 2
    PromptKernel = TRUE
INVARIANTS
    TypeOK
    RowIsDescribed
PROPERTIES
    OnceShowsAll
    ScreenConverges
    OnceEnds
