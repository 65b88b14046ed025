---------------------------- MODULE MCImportedClass ----------------------------
(* Small instances of ImportedClass for TLC: a library as GCC and Clang    *)
(* make them, one with an allocating constructor, and one without type     *)
(* information; loaders that match names, and such that do not.            *)
EXTENDS ImportedClass, TLC

CONSTANTS gcc, alloc, notype, l1, i1, i2, b1, b2, v1, v2

MCFeatures == [f \in Images |->
    CASE f = gcc    -> {"C1", "D1", "D0", "typeinfo"}
      [] f = alloc  -> Symbols
      [] f = notype -> {"C1", "D1", "D0"}]
SameImage == [f \in Images |-> {f}]
AnyImage == [f \in Images |-> Images]
Symmetry == Permutations(Classes) \cup Permutations(Blocks) \cup Permutations(Values)
AnyImport == [rvalue : BOOLEAN, sized : BOOLEAN]
Lvalues == [rvalue : {FALSE}, sized : {TRUE}]
=============================================================================
