SPECIFICATION MCSpec
CONSTANTS
    Locales <- MCLocales
    Formats <- MCInferredFormats
    Types = {"uint"}
    Bits = 8
    Ints <- MCInts
    Floats <- MCFloats
    Widths = {0, 5, 9}
    MaxPad = 6
    MaxGroup = 3
    Inputs <- MCNoInputs
    MaxFields = 1
    Confs <- MCConfs
    Zones <- MCZones
    Abbrevs <- MCAbbrevs
    Times <- MCEraDates
    TimeFormats <- MCEraFormats
    Hints <- MCEraDates
    ThisYear = 2024
    Currencies <- MCOneCurrency
    Layouts <- MCOneFormat
    Units = {"int"}
    Sums <- MCAmounts
    Strings <- MCStrings
    Spans = {0, 8}
    Bills <- MCNoBills
PROPERTY EraYearKept
