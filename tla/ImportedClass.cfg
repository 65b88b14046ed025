\* Every way to import, with a loader that matches names.
SPECIFICATION Spec
CONSTANTS
    gcc = gcc  alloc = alloc  notype = notype  None = None
    l1 = l1  i1 = i1  i2 = i2  b1 = b1  b2 = b2  v1 = v1  v2 = v2
    Values = {v1, v2}
    Libs = {l1}
    Classes = {i1, i2}
    Blocks = {b1, b2}
    Images = {gcc, alloc, notype}
    Features <- MCFeatures
    Reload <- SameImage
    Imports <- AnyImport
    Throwing = TRUE
\* Memory that a throwing constructor left behind is gone, and a constructor
\* that runs over its memory is not followed.
CHECK_DEADLOCK FALSE
SYMMETRY Symmetry
INVARIANTS ClassInv ClassesStayMapped TypeInfoStaysMapped ValuesStayMapped
