SPECIFICATION MachoSpec
CONSTANTS
    Underscore = Underscore  dotText = dotText  dotConst = dotConst
    dotData = dotData  none = none  f = f  g = g
    Locals = FALSE
    SameName = FALSE
    MachoFiles <- MCFiles
    Questions <- MCQuestions
\* A call that returned is over.
CHECK_DEADLOCK FALSE
INVARIANTS MachoInv
