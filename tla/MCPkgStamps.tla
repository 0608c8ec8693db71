----------------------------- MODULE MCPkgStamps -----------------------------
(* A patched library, and a program that needs it, is developed in an       *)
(* override directory and installs to two places.                           *)
EXTENDS PkgStamps

CONSTANTS lib, app

MCDeps == [p \in {lib, app} |-> IF p = app THEN {lib} ELSE {}]
MCInstalls == [p \in {lib, app} |->
                 IF p = app THEN {"staging_installed", "target_installed"}
                 ELSE {"target_installed"}]
MCNumPatches == [p \in {lib, app} |-> IF p = lib THEN 2 ELSE 0]

The(p) == << <<p, "installed">> >>
With(p, c) == << <<p, c>> >> \o The(p)

\* One package at a time, and <pkg>-reconfigure all.
MCCommands ==
  {The(app), With(lib, "clean-for-reconfigure") \o The(app)}
    \cup {<< <<p, "dircleaned">> >> : p \in {lib, app}}
    \cup {With(app, c) : c \in Cleans \ {"dircleaned"}}

ASSUME MCCleansFirst == CleansFirst
=============================================================================
