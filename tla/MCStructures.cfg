SPECIFICATION PartSpec
CONSTANTS
    Count = 3
    MaxOut = 2
    Requested = 1
    Bits = 2
    Torn = Torn
    Keys = {6, 7, 8, 14, 15, 20}
    Slots = {1, 2, 3, 4}
    MinTable = 8
    TableBits = 3
    FpBits = 4
    Fingerprint <- FingerprintOf
    Nil = 0
    Levels = 10
    WordBits = 2
    MaxRecords = 3
    PayloadSizes = {1, 2}
    MaxCrashes = 2
    Bad = Bad
    Cells = {0, 1, 2, 3}
    MaxStream = 6
    MaxChunk = 3
    OutLimit = 1
    MaxUnsent = 3
    SubBits = 1
    ValueBits = 5
    Recorded = {0, 3, 4, 7, 15, 31}
    MaxCount = 3
INVARIANTS RingsSound NothingLeftBehind LookupsAgree FindsTheNearest
    CommandsAreTheStream NobodyIsForgotten PercentilesAreClose
PROPERTIES RingsAreFifos Terminates JournalIsDurable
