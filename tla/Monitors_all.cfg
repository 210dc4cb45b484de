SPECIFICATION Spec
CONSTANTS
    Tools = {"filemon", "netbottom", "jurple", "lsock-17-1", "bpf"}
    Pids = {1, 2, 3}
    Self = 1
    Programs = {"sh", "cc"}
    Files = {"log", "tmp"}
    Filtered = {"log"}
    Commands <- MCCommands
    Depth = 2
    MaxDeeds = 3
    MaxRuns = 1
    Sources = {1, 2, 3}
    Socket <- MCSocket
    TcpStates = {"Established", "Closed"}
    MaxMoves = 1
    Devices = {"phone", "pad"}
    BUFSIZE = 4
    Cleared = 2
    MaxMessages = 3
    MAX_DESC = 2
    ProviderOf <- MCProviderOf
    MaxInc <- MCMaxInc
    MaxChange = 1
    MaxRx = 1
    AddAllReply = {"SUCCESS"}
    NoneReply = {"SUCCESS"}
    Provider2 = "TCP_KERNEL"
    Provider3 = "UDP_USERLAND"
    Commands17 <- MCWants
    Keys17 = {"T"}
    Widths17 <- MCWidths
    Height = 2
    Lossy = {1}
    Frames <- MCFrames
    MaxFrames = 4
    BpfDevices = 2
    BufLen = 130
    Protocol = 6
    Port = 80
INVARIANTS
    MonitorsTypeOK
    GapsAreMarked
    NoFeedback
    LinesAreExact
    RelayIsExact
    OldRowsAreTrue
    PacketsAreExact
PROPERTIES
    CreatorsAreStopped
    SourcesArePrinted
CHECK_DEADLOCK FALSE
