---------------------------- MODULE MCSmartLibrary ----------------------------
(* Small instances of SmartLibrary for TLC: two smart libraries and one    *)
(* shared_library; two libraries and a file that cannot be parsed, or a    *)
(* library by its decorated name only.                                     *)
EXTENDS SmartLibrary, TLC

CONSTANTS o1, o2, s, home, x, libx, prog, a, b, text, y

MCDecorated == x :> libx @@ libx :> libx
MCExports == [f \in {prog, a, b, text} |-> IF f = a THEN {y} ELSE {}]
MCFileSystems == {home :> (x :> a @@ libx :> b), home :> (x :> text @@ libx :> a),
                  home :> (x :> prog @@ libx :> a)}
MCDecoratedOnly == {home :> (x :> NoFile @@ libx :> a)}
MCAllSystems == MCFileSystems \cup MCDecoratedOnly
MCPaths == [dir : {home}, name : {x, libx}]
=============================================================================
