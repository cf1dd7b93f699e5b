SPECIFICATION MCSpec
CONSTANTS
    Threads = {t1}
    Ids = {1, 2}
    BitSets <- MCBitSets
    NoExc = NoExc
    Lines <- MCLines
    MaxRoom = 2
    MaxLen = 4
    Contents <- MCContents
    Foreign = {77}
    NoChar = NoChar
    MaxGet = 1
    MaxBack = 1
    MaxByte = 1
    MaxEra = 0
INVARIANT NestedHandlingIdempotent
