\* Two objects, three trees, one change of a file or the directory.
SPECIFICATION Spec
CONSTANTS
    o1 = o1  o2 = o2
    sys = sys  home = home
    x = x  xdll = xdll  libxdll = libxdll  xdlldll = xdlldll
    prog = prog  a = a  b = b  junk = junk  lame = lame
    y = y
    Dirs = {sys, home}
    SearchPath <- MCSearchPath
    Names = {x, xdll, libxdll, xdlldll}
    Extended = {xdll, libxdll, xdlldll}
    Suffixed <- MCSuffixed
    Prefixed <- MCPrefixed
    Files = {prog, a, b, junk, lame}
    Loadable = {a, b}
    Lacking = {lame}
    Program = prog
    Symbols = {y}
    Exports <- MCExports
    NoFile = NoFile  NoHandle = NoHandle  NoPath = NoPath
    Bare = Bare  Dot = Dot
    Objs = {o1, o2}
    Paths <- MCPaths
    FileSystems <- MCFileSystems
    Steps = 1
SYMMETRY TwoObjects
INVARIANTS WinInv WinLoadTellsTheTruth WinCopyIsEqual ExactMeansExact 
PROPERTIES WinImplementsOwners
