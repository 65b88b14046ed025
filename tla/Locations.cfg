\* Every platform, other threads load and unload up to four times.
SPECIFICATION Spec
CONSTANTS
    prog = prog  a = a  b = b  d = d
    Images = {prog, a, b, d}
    Program = prog
    NoImage = NoImage
    Nowhere = Nowhere
    Length <- MCLength
    Hosts <- MCHosts
    Memory = 1048576
    Changes = 4
INVARIANTS LocationInv AnswersAreRight LoadedIsFound
PROPERTIES Answered
