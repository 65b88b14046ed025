-------------------------- MODULE MCImportedSymbols --------------------------
(* A small instance of ImportedSymbols for TLC: one library of a user's,   *)
(* two boxes, two imported values, two threads.                            *)
EXTENDS ImportedSymbols, TLC

CONSTANTS lib, b1, b2, i1, i2, t1, t2, home, x, prog, a, b, y, z

MCDecorated == x :> x
MCExports == prog :> {} @@ a :> {y} @@ b :> {y}
MCFileSystems == {home :> (x :> a)}
MCPaths == {[dir |-> home, name |-> x]}
=============================================================================
