SPECIFICATION WalksSpec
CONSTANTS
    N = 16
    F = 4
    THRESHOLD = 1
    Units = 2
    Characters = 3
    Space = 1
    Texts <- MCTexts
    Rooms = {12, 27}
    Page = 2
    Enough = 2
    Caches <- MCCaches
    Requests <- MCRequests
    KextPage = 4
    PrelinkAddr = 40
    PrelinkSize = 4
    PrelinkOffset = 500
    Batches <- MCBatches
    MaxNamespaces = 4
    Files <- MCFiles
    CommandLines <- MCCommandLines
    Kernels <- MCKernels
    MaxSyscalls <- MCMaxSyscalls
    NoAddress = NoAddress
    VectorAddress = VectorAddress
    Listings <- MCListings
    NoNumber = NoNumber
    JTools <- MCJTools
    SMBTables <- MCTables
    AddressSpaces <- MCSpaces
    Top = 8
    HighAddress = 6
    MaxLines = 3
    MaxChanges = 1
    Snapshots <- MCSnapshots
    Traces <- MCTraces
    Sessions <- MCSessions
    NoKey = NoKey
    NoArgument = NoArgument
    NoID = NoID
    Trees <- MCTrees
    Images <- MCImages
    MaxProperties = 2
    ValueLen = 8
    Mask = 16
INVARIANTS
    WalksTypeOK
    TreesAreSound
    LongestMatch
    RoundTrip
    KextsAreExact
    SectionsAreFound
    CompanionIsExact
    TablesAreExact
    LinesAreResolved
    StructuresInStep
    RegionsAreTold
    SnapshotsAreTold
    ShowsWhatIsAsked
    DeviceTreesAreTold
