---------------------------- MODULE MCLibraryInfo ----------------------------
(* Files for LibraryInfo: every magic, complete and cut off at the lengths *)
(* at which a parser runs out of bytes, with every damage to what the calls *)
(* read.                                                                   *)
EXTENDS LibraryInfo

(* Where each call can stop, in a file of that format.                     *)
Damages(magic) ==
    {d \in UNION {[calls -> {"read", "name", "other"}] : calls \in SUBSET Calls} :
        \A call \in DOMAIN d : d[call] = "name" => call # "sections" /\ magic \notin Elf}
Sound == [call \in {} |-> "read"]
Nothing == [call \in Calls |-> "read"]

Binaries == UNION {{[magic |-> magic, length |-> 1000, damaged |-> damaged] :
                        damaged \in Damages(magic)} : magic \in KnownFormats}
CutOff == {[magic |-> magic, length |-> length, damaged |-> Nothing] :
              magic \in KnownFormats \cup {"dos", "text", "blank"}, length \in {4, 63, 299}}
Others == {[magic |-> magic, length |-> length, damaged |-> Sound] :
              magic \in {"dos", "text", "blank"}, length \in {-1, 64, 300}}
Empty == [magic |-> "blank", length |-> 0, damaged |-> Sound]

MCPlatforms == {[os |-> os, is32bit |-> b] :
    os \in {"windows", "macos", "linux"}, b \in BOOLEAN}

MCFiles == Binaries \cup CutOff \cup Others \cup {Empty}
=============================================================================
