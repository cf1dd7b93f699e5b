SPECIFICATION MCSpec
CONSTANTS
    Locales <- MCLocales
    Formats <- MCFormats
    Types = {"int", "uint", "bool", "float"}
    Bits = 8
    Ints <- MCInts
    Floats <- MCFloats
    Widths = {0, 5, 9}
    MaxPad = 6
    MaxGroup = 3
    Inputs <- MCInputs
    MaxFields = 2
    Confs <- MCConfs
    Zones <- MCZones
    Abbrevs <- MCAbbrevs
    Times <- MCTimes
    TimeFormats <- MCTimeFormats
    Hints <- MCHints
    ThisYear = 2024
    Currencies <- MCCurrencies
    Layouts <- MCFieldFormats
    Units = {"int", "uint", "digits"}
    Sums <- MCAmounts
    Strings <- MCStrings
    Spans = {0, 8}
    Bills <- MCBills
PROPERTIES FieldsReadBack TextDenotes TimeReadsBack HintOnlyFills MoneyReadRightly
