\* Two threads import from a library that its owner unloads, while its file
\* is replaced once.
SPECIFICATION ImportsSpec
CONSTANTS
    lib = lib  b1 = b1  b2 = b2  i1 = i1  i2 = i2  t1 = t1  t2 = t2
    home = home  x = x  prog = prog  a = a  b = b  y = y  z = z
    Dirs = {home}
    SysDir = home
    Names = {x}
    Decorated <- MCDecorated
    Files = {prog, a, b}
    Loadable = {a, b}
    Program = prog
    Symbols = {y, z}
    Exports <- MCExports
    ByName = FALSE
    NoFile = NoFile  NoHandle = NoHandle  NoPath = NoPath
    Bare = Bare  Dot = Dot  Nowhere = Nowhere
    Objs = {lib, b1, b2}
    Boxes = {b1, b2}
    Imports = {i1, i2}
    Threads = {t1, t2}
    NoImport = NoImport  Idle = Idle
    Paths <- MCPaths
    Searches = {FALSE}
    FileSystems <- MCFileSystems
    Linux = TRUE
    Steps = 1
INVARIANTS ImportsInv ImportsStayMapped
PROPERTIES ImportsImplementOwners
