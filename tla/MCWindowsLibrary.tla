--------------------------- MODULE MCWindowsLibrary ---------------------------
(* Small instances of WindowsLibrary for TLC.                              *)
EXTENDS WindowsLibrary, TLC

CONSTANTS o1, o2, sys, home, x, xdll, libxdll, xdlldll, prog, a, b, junk, lame, y

MCSuffixed == x :> xdll @@ xdll :> xdlldll @@ libxdll :> xdlldll @@ xdlldll :> xdlldll
MCPrefixed == x :> libxdll @@ xdll :> xdlldll @@ libxdll :> xdlldll @@ xdlldll :> xdlldll
MCExports == prog :> {} @@ a :> {y} @@ b :> {} @@ junk :> {}
             @@ lame :> {}
MCSearchPath == <<home, sys, Dot>>

(* An executable without an extension beside its plugin, a MinGW library   *)
(* beside a file without an extension, a plugin whose decorated name is    *)
(* taken by something else, libraries of one name in both places; a plugin *)
(* that lacks a dependency beside a file that does not.                    *)
Tree(hx, hxdll, hlibxdll, sx, sxdll) ==
    home :> (x :> hx @@ xdll :> hxdll @@ libxdll :> hlibxdll @@ xdlldll :> NoFile)
    @@ sys :> (x :> sx @@ xdll :> sxdll @@ libxdll :> NoFile @@ xdlldll :> NoFile)
MCFileSystems == {Tree(prog, a, NoFile, NoFile, b), Tree(a, NoFile, b, prog, NoFile),
                  Tree(a, junk, NoFile, prog, b), Tree(a, NoFile, lame, prog, b)}

At(d, n) == [dir |-> d, name |-> n, dotted |-> FALSE]
MCPaths == {At(Bare, x), At(Dot, x), At(home, x), At(sys, xdll)}

TwoObjects == Permutations({o1, o2})
=============================================================================
