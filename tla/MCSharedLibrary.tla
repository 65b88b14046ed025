--------------------------- MODULE MCSharedLibrary ---------------------------
(* Small instances of SharedLibrary for TLC.                               *)
EXTENDS SharedLibrary, TLC

CONSTANTS o1, o2, o3, sys, home, x, libx, libxso, prog, a, b, junk, y

MCDecorated == x :> libx @@ libx :> libxso @@ libxso :> libxso
MCExports == prog :> {} @@ a :> {y} @@ b :> {} @@ junk :> {}

(* An application beside its plugin and a library in the system folder; a  *)
(* plugin whose decorated name is taken by something else; only decorated  *)
(* names, in both places.                                                  *)
Tree(hx, hlibx, sx, slibx) ==
    home :> (x :> hx @@ libx :> hlibx @@ libxso :> NoFile)
    @@ sys :> (x :> sx @@ libx :> slibx @@ libxso :> NoFile)
MCFileSystems == {Tree(prog, a, b, NoFile), Tree(a, junk, NoFile, b),
                  Tree(prog, NoFile, a, NoFile)}

At(d, n) == [dir |-> d, name |-> n]
MCPaths == {At(Bare, x), At(Dot, x), At(home, x), At(sys, x)}

(* No operation tells objects apart. *)
TwoObjects == Permutations(Objs)
=============================================================================
