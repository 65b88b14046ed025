\* A loader that matches names first (glibc), two objects.
SPECIFICATION Spec
CONSTANTS
    o1 = o1  o2 = o2  o3 = o3
    sys = sys  home = home
    x = x  libx = libx  libxso = libxso
    prog = prog  a = a  b = b  junk = junk
    y = y
    Dirs = {sys, home}
    SysDir = sys
    Names = {x, libx, libxso}
    Decorated <- MCDecorated
    Files = {prog, a, b, junk}
    Loadable = {a, b}
    Program = prog
    Symbols = {y}
    Exports <- MCExports
    ByName = TRUE
    NoFile = NoFile  NoHandle = NoHandle  NoPath = NoPath
    Bare = Bare  Dot = Dot  Nowhere = Nowhere
    Objs = {o1, o2}
    Paths <- MCPaths
    Searches = {TRUE, FALSE}
    FileSystems <- MCFileSystems
    Linux = TRUE
    Steps = 1
SYMMETRY TwoObjects
INVARIANTS TypeOK Ownership LoadTellsTheTruth CopyIsEqual
PROPERTIES FailedAssignChangesNothing SourceStaysMapped NoStaleText ImplementsOwners
