SPECIFICATION MCSpec
CONSTANTS
    Contents <- MCContents
    Key <- MCKey
    Width = 7
    BosChunk = 2
    MaxAsk = 3
    MaxByte = 3
    MaxEra = 2
    CodeContents <- MCCodeContents
    Texts <- MCTexts
    MaxLen = 8
    MaxOpen = 2
    Foreign <- MCForeign
    Sizes = {1, 2}
    MaxBytes = 4
    MaxOpens = 2
INVARIANTS KeyInStep ShortMeansEnd CountInStep ClosedIsWhole EndIsAll
PROPERTIES NothingAfterLoss ImplementsByteStream ReadsInOrder WritesReadBack
