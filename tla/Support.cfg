\* Buffers of at most two bytes that grow; zones of six bytes with a header of
\* one; two lists; two instructions with two registers and three labels; texts of
\* four characters.
SPECIFICATION Spec
CONSTANTS
    Buffers = {"a", "b"}
    InitSizes = {0, 1, 2}
    Strings <- MCStrings
    Numbers <- MCNumbers
    IntSizes = {2}
    PtrSize = 2
    SizeMod = 65536
    MaxUsage = 3
    ZONE_SIZE = 6
    HeaderSize = 1
    Sizes = {0, 1, 2, 3, 5, 6}
    MaxZones = 4
    MaxBlocks = 5
    Heads = {"h", "k"}
    Elements = {"e", "f", "g"}
    NullNode = "null"
    Words = {"int", "co", "list", "word"}
    MaxFormat = 6
    Letters = {"i", "f"}
    Digits = {"1", "9"}
    Keywords <- MCKeywords
    OtherChars <- MCOtherChars
    INT_MAX = 19
    MaxText = 4
    ByteBase = 8
    Registers = {1, 8}
    BlockLabels = {"loop"}
    Routines = {"puts"}
    Values = {"frame"}
    OffsetOf <- MCOffsetOf
    MemLocation = 100
    MaxCalls = 2
INVARIANTS
    SafeUpToTwice
    ZonesSafe
    RingClosed
    FormatKept
    TokenIsRight
    CodeIsProgram
    TargetsReached
PROPERTIES
    IsByteString
    IsSequence
    TokensTile
CHECK_DEADLOCK FALSE
