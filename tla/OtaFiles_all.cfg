SPECIFICATION Spec
CONSTANTS
    OUT_BUFSIZE = 4
    IntMax = 50
    PbzxFiles <- MCPbzxFiles
    EntryHeader = 1
    SkipBytes = 10
    DiffInputs <- MCDiffInputs
    Paths <- MCPaths
    Unpackings <- MCUnpackings
INVARIANTS
    FilesTypeOK
    BufferIsAccounted
    NothingLost
    DifferencesAreExact
    FreshIsExact
