------------------------------ MODULE MCPeInfo ------------------------------
(* Files for PeInfo: code, data with a zero-filled tail, and a section     *)
(* without stored contents; functions in any of them, with and without a   *)
(* name.                                                                   *)
EXTENDS PeInfo

CONSTANTS text, data, bss, none, f, g, h,
    ZeroFilled,     \* are there exports in what is not stored?
    ManyNames       \* are there more names than functions?

Headers == <<[name |-> text, va |-> 10, vsize |-> 4, raw |-> 2, rawsize |-> 4],
             [name |-> data, va |-> 20, vsize |-> 4, raw |-> 6, rawsize |-> 2],
             [name |-> bss,  va |-> 30, vsize |-> 2, raw |-> 0, rawsize |-> 0]>>

Stored == {10, 13, 20, 21}
Addresses == IF ZeroFilled THEN Stored \cup {22, 30} ELSE Stored

File(names, ordinals, functions, behind) ==
    [sections |-> Headers, names |-> names, ordinals |-> ordinals,
     functions |-> functions, behind |-> behind]

(* Behind the ordinals lie characters, numbers that are no ordinals, or    *)
(* words that happen to be some, or the end of the file.                   *)
Behind == {<<>>, <<0>>, <<99>>, <<0, 1>>, <<99, 0>>, <<1, 99>>, <<99, 99>>}

SameNumber == {File(<<f, g>>, <<o, 1 - o>>, <<r, s>>, w) :
                  o \in {0, 1}, r \in Addresses, s \in Addresses, w \in {<<>>, <<0, 1>>}}
OneNamed == {File(<<f>>, <<o>>, <<r, s, 13>>, w) :
                o \in {0, 1}, r \in Addresses, s \in Addresses, w \in Behind}
NoneNamed == {File(<<>>, <<>>, <<r, 20>>, w) : r \in Addresses, w \in Behind}
NoExports == {File(<<>>, <<>>, <<>>, <<>>)}
Aliases == {File(<<f, g, h>>, <<0, o, 1>>, <<r, s>>, <<99>>) :
                o \in {0, 1}, r \in Addresses, s \in Addresses}

MCFiles == SameNumber \cup OneNamed \cup NoneNamed \cup NoExports
             \cup IF ManyNames THEN Aliases ELSE {}

Ask(op, wanted) == [op |-> op, wanted |-> wanted]
MCQuestions == {Ask("sections", none), Ask("symbols", none)}
    \cup {Ask("symbols_in", w) : w \in {text, data, bss, none}}

(* These files are what the proofs ask for, but for the two exceptions. *)
ASSUME MCFilesAsProved ==
    PeSectionsApart /\ (ZeroFilled \/ ManyNames \/ ExportsStored)
=============================================================================
