----------------------------- MODULE MCLocations -----------------------------
(* Small instances of Locations for TLC.                                   *)
EXTENDS Locations, TLC

CONSTANTS prog, a, b, d

MCLength == prog :> 259 @@ a :> 260 @@ b :> 1024 @@ d :> 32767
LongProgram == [MCLength EXCEPT ![prog] = 1024]

H(platform, layout, proc, err, libs) ==
    [platform |-> platform, layout |-> layout, proc |-> proc,
     lasterr |-> err, libs |-> libs]

(* Cygwin comes with and without a last error from before, and with a path *)
(* beyond its first buffer.                                                *)
MCHosts ==
    {H(p, "array", TRUE, Ok, {prog, a}) :
        p \in {"macos", "android", "linux", "qnx", "freebsd", "solaris", "windows"}}
    \cup {H(p, "plain", FALSE, Ok, {prog, a}) : p \in {"android", "qnx", "freebsd"}}
    \cup {H("windows", "array", TRUE, err, {b, d}) :
             err \in {"insufficient_buffer", "module_not_found"}}
    \cup {H("cygwin", "array", TRUE, Ok, {a, b, d})}
    \cup {H("cygwin", "array", TRUE, err, {a}) :
             err \in {"insufficient_buffer", "module_not_found"}}
=============================================================================
