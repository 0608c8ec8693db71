---- MODULE KconfigFiles ----
(* The order in which the programs of support/kconfig change the files that
   outlive them (confdata.c): .config and .config.old, a minimal defconfig, and
   auto.conf with what belongs to it.  What a program reads, asks and calculates
   between its writes is KconfigSession's; here it may be anything, so that what
   is said of the files holds whatever the values are. *)
EXTENDS KconfigText

VARIABLES pc,      \* where the program is; "off" when none runs
          disk,    \* [config, old, def, header, tristate, auto]: files
          lines,   \* written to a temporary file
          todo,    \* include/config files still to be touched
          touched, \* those touched since auto.conf was written
          last     \* history: .config as saved last
Stored == <<disk, lines, todo, touched, last>>
fileVars == <<kc, pc, Stored>>

FileNames == {"config", "old", "def", "header", "tristate", "auto"}
(* Where a program changes no file, and where writing one may begin. *)
Quiet == {"random", "asking", "menu", "saved", "minimal3", "exit"}
Begins == {"write", "minimal", "sync"}

FilesInit ==
    /\ pc = "off" /\ DOMAIN disk = FileNames /\ last = disk.config
    /\ lines = <<>> /\ todo = {} /\ touched = {}

(* Between programs Kconfig may change; a running one has read it. *)
Run == /\ pc \in Quiet \cup {"off"} /\ pc' \in Quiet \cup Begins \cup {"off"}
       /\ pc # "off" => kc' = kc
       /\ UNCHANGED Stored

(* conf_write(): a temporary file, .config out of the way, and the new one in
   its place. *)
CloseTmp == /\ pc = "write" /\ pc' = "rename"
            /\ UNCHANGED <<kc, disk, todo, touched, last>>
\* Slip: the old file is removed.
Unlink ==
    /\ pc = "rename" /\ pc' = "replace"
    /\ disk' = [disk EXCEPT !.config = Absent]
    /\ UNCHANGED <<kc, lines, todo, touched, last>>

KeepOld ==
    /\ pc = "rename" /\ pc' = "replace"
    /\ disk' = IF disk.config.state = "absent" THEN disk
               ELSE [disk EXCEPT !.old = disk.config, !.config = Absent]
    /\ UNCHANGED <<kc, lines, todo, touched, last>>
Replace ==
    /\ pc = "replace" /\ pc' = "saved"
    /\ disk' = [disk EXCEPT !.config = Whole(lines)] /\ last' = Whole(lines)
    /\ UNCHANGED <<kc, lines, todo, touched>>
FailReplace ==
    /\ pc = "replace" /\ pc' \in {"menu", "exit"}
    /\ UNCHANGED <<kc, Stored>>

(* conf_write_defconfig() opens the file itself, and writes what it finds. *)
OpenMinimal ==
    /\ pc = "minimal" /\ pc' = "minimal2"
    /\ disk' = [disk EXCEPT !.def = [lines |-> <<>>, state |-> "torn"]]
    /\ UNCHANGED <<kc, lines, todo, touched, last>>
CloseMinimal ==
    /\ pc = "minimal2" /\ pc' = "minimal3"
    /\ DOMAIN disk' = FileNames /\ \A f \in FileNames \ {"def"} : disk'[f] = disk[f]
    /\ UNCHANGED <<kc, lines, todo, touched, last>>

(* conf_write_autoconf(): the files of what changed are touched one by one, the
   header and tristate.conf are replaced, and auto.conf last.  Every line that
   auto.conf will have and has not, or has and will not have, is of a symbol
   whose file is named; texts that Kconfig no longer has are an exception. *)
Names(names, old, new) ==
    \A l \in (ToSet(old) \ ToSet(new)) \cup (ToSet(new) \ ToSet(old)) :
        l.sym \in names \/ (l.sym \notin Syms /\ SymType[l.sym] = "string")
Split == /\ pc = "sync" /\ pc' = "touch"
         /\ Names(todo', disk.auto.lines, lines')
         /\ UNCHANGED <<kc, disk, touched, last>>
Touch ==
    /\ pc = "touch" /\ todo # {} /\ pc' = "touch"
    /\ LET s == CHOOSE v \in todo : TRUE
       IN  todo' = todo \ {s} /\ touched' = touched \cup {s}
    /\ UNCHANGED <<kc, disk, lines, last>>
\* Slip: the first renames do not wait for what there is to touch.
RenameEarly ==
    /\ pc = "touch" /\ pc' = "header"
    /\ disk' = [disk EXCEPT !.header = Whole(Macros(lines))]
    /\ UNCHANGED <<kc, lines, todo, touched, last>>

RenameHeader ==
    /\ pc = "touch" /\ todo = {} /\ pc' = "header"
    /\ disk' = [disk EXCEPT !.header = Whole(Macros(lines))]
    /\ UNCHANGED <<kc, lines, todo, touched, last>>
RenameTristate ==
    /\ pc = "header" /\ pc' = "tristate"
    /\ disk' = [disk EXCEPT !.tristate = Whole(Tristates(lines))]
    /\ UNCHANGED <<kc, lines, todo, touched, last>>
RenameAuto ==
    /\ pc = "tristate" /\ pc' = "exit"
    /\ disk' = [disk EXCEPT !.auto = Whole(lines)] /\ touched' = {}
    /\ UNCHANGED <<kc, lines, todo, last>>

(* A program ends, or is killed, wherever it is. *)
Stop == /\ pc # "off" /\ pc' = "off" /\ lines' = <<>> /\ todo' = {}
        /\ UNCHANGED <<kc, disk, touched, last>>

FilesNext ==
    \/ Run \/ Stop
    \/ CloseTmp \/ KeepOld \/ Replace \/ FailReplace
    \/ OpenMinimal \/ CloseMinimal
    \/ Split \/ Touch \/ RenameHeader \/ RenameTristate \/ RenameAuto
FilesSpec == FilesInit /\ [][FilesNext]_fileVars

-----------------------------------------------------------------------------
(* The configuration saved last is in .config or in .config.old. *)
LastSaveSurvives == last.state = "whole" => last \in {disk.config, disk.old}

(* When auto.conf changes, autoconf.h and tristate.conf say the same, and the file of every
   symbol whose value changed was touched since the last time, so that make
   rebuilds what uses it, even if earlier attempts were killed half way. *)
AutoConfLast ==
    [][disk'.auto # disk.auto =>
         /\ disk'.header.lines = Macros(disk'.auto.lines)
         /\ disk'.tristate.lines = Tristates(disk'.auto.lines)
         /\ Names(touched, disk.auto.lines, disk'.auto.lines)]_fileVars
====
