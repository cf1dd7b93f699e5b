SPECIFICATION MCSpec
CONSTANTS
    Threads = {t1}
    Ids = {1, 2}
    BitSets <- MCBitSets
    NoExc = NoExc
    Lines <- MCLines
    MaxRoom = 2
    MaxLen = 4
    Contents <- MCContents
    Foreign = {77}
    NoChar = NoChar
    MaxGet = 3
    MaxBack = 4
    MaxByte = 3
    MaxEra = 1
INVARIANTS SavedMatchesBits
PROPERTIES FirstFailureKept AbsorbedIsRecorded NothingLost AsksNoMore ReportsTheEnd PlaceKept ChannelIsAFile
