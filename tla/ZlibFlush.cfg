SPECIFICATION MCSpec
CONSTANTS
    Contents <- MCContents
    Key <- MCKey
    Width = 7
    BosChunk = 2
    MaxAsk = 3
    MaxByte = 0
    MaxEra = 0
    CodeContents <- MCCodeContents
    Texts <- MCTexts
    MaxLen = 1
    MaxOpen = 0
    Foreign <- MCForeign
    Sizes = {1, 2}
    MaxBytes = 4
    MaxOpens = 2
INVARIANT SyncFlushGoesOn
