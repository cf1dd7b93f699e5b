SPECIFICATION MCSpec
CONSTANTS
    BufLen = 4
    PutSizes = {1, 3, 4}
    GetSizes = {1, 3}
    Files <- MCFiles
    NoDevice = NoDevice
    MaxByte = 4
    MaxEra = 2
    InputLen = 6
    InBufLen = 3
    MaxAsk = 2
    MaxChunk = 3
    MemMaxByte = 3
    MemMaxEra = 1
    NoMark = NoMark
PROPERTIES OnlyWhatWasAsked DetachDelivers RootsAreFiles EachByteOnceInOrder
