\* Two smart libraries and a plain one, one change of a file at any time.
SPECIFICATION SmartSpec
CONSTANTS
    o1 = o1  o2 = o2  s = s  home = home  x = x  libx = libx
    prog = prog  a = a  b = b  text = text  y = y
    Dirs = {home}
    SysDir = home
    Names = {x, libx}
    Decorated <- MCDecorated
    Files = {prog, a, b, text}
    Loadable = {a, b}
    Readable = {prog, a, b}
    Program = prog
    Symbols = {y}
    Exports <- MCExports
    ByName = FALSE
    NoFile = NoFile  NoHandle = NoHandle  NoPath = NoPath  NoCall = NoCall
    Bare = Bare  Dot = Dot  Nowhere = Nowhere
    Objs = {o1, o2, s}
    Plain = {s}
    Paths <- MCPaths
    Searches = {FALSE}
    Decorations = {FALSE}
    FileSystems <- MCFileSystems
    Linux = TRUE
    Steps = 1
\* A program that was terminated makes no more calls.
CHECK_DEADLOCK FALSE
INVARIANTS SmartInv
PROPERTIES FailedAssignKeepsBoth SmartImplementsOwners
