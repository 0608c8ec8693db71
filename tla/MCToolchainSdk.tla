--------------------------- MODULE MCToolchainSdk ---------------------------
(* Small instances of ToolchainSdk for TLC. *)
EXTENDS ToolchainSdk

\* Two boards with the vendor path and prefix in common, as 3516cv608 and 3516cv610.
MCShared == [b \in Boards |-> CHOOSE t \in Toolchains : TRUE]

\* One run per board, named after it.
MCOwnBoard == [r \in Runs |-> r]

\* All versions have their tools in one place, or later ones have moved them.
MCSameLayout == [v \in Versions |-> "bin"]
MCMovedTools == [v \in Versions |-> IF v = 1 THEN "bin" ELSE "usr/bin"]
=============================================================================
