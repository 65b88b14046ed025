SPECIFICATION PeSpec
CONSTANTS
    text = text  data = data  bss = bss  none = none
    f = f  g = g  h = h  Garbage = Garbage
    ZeroFilled = FALSE
    ManyNames = FALSE
    PeFiles <- MCFiles
    Questions <- MCQuestions
\* A call that returned is over.
CHECK_DEADLOCK FALSE
INVARIANTS PeInv
PROPERTIES PeEnds
