SPECIFICATION AxiLiveSpec
CONSTANTS
    Register = {0, 1}
    Unmapped = {2}
    Value = {0, 1}
    DefaultOf <- MCDefault
INVARIANTS
    AxiTypeOK
    AnswersAreOwed
    ReadsAreCurrent
    PixelPortAnswersAddress
PROPERTIES
    AccessesEnd
