------------------------------- MODULE Listing -------------------------------
(***************************************************************************)
(* What library_info promises about a binary file, whatever its format     *)
(* (library_info.hpp): "List of sections that exist in binary file", "List *)
(* of all the exportable symbols from all the sections", "List of symbols  *)
(* from the specified section"; and the state that the parsers of all      *)
(* formats have.                                                           *)
(***************************************************************************)
EXTENDS Integers, Sequences, SequencesExt

CONSTANT
    Questions       \* (bound) the calls: [op, wanted], a member function
                    \* and its argument

ASSUME QuestionsAssumption ==
    \A x \in Questions : x.op \in {"sections", "symbols", "symbols_in"}

VARIABLES
    file,   \* the file that is asked about
    q,      \* the call
    pc,     \* where it is
    i,      \* a loop's counter
    ret     \* what is returned

IsSeq(s) == s \in Seq({s[k] : k \in DOMAIN s})

(* A file's content is the names of its sections and, for every named      *)
(* symbol, whether it can be linked against from outside and the number of *)
(* the section it is in (0: in none).                                      *)
Sections(content) == ToSet(content.sections)

Symbols(content) == {s.name : s \in {r \in content.symbols : r.exported}}

SymbolsIn(content, wanted) ==
    {s.name : s \in {r \in content.symbols :
        /\ r.exported /\ r.section \in DOMAIN content.sections
        /\ content.sections[r.section] = wanted}}

Answer(content) ==
    CASE q.op = "sections" -> Sections(content)
      [] q.op = "symbols"  -> Symbols(content)
      [] q.op = "symbols_in" -> SymbolsIn(content, q.wanted)
=============================================================================
