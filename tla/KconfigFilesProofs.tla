---- MODULE KconfigFilesProofs ----
EXTENDS KconfigFiles, TLAPS

USE DEF Stored, fileVars

(* The configuration saved last is where it was put, or was moved out of the way
   and nothing is in its place. *)
SaveInv ==
    last.state = "whole" =>
        disk.config = last \/ (disk.config.state = "absent" /\ disk.old = last)

(* What a program that writes auto.conf has done so far.  The symbols whose files
   were touched by programs that were killed stay touched. *)
SyncInv ==
    /\ pc = "touch" => Names(todo \cup touched, disk.auto.lines, lines)
    /\ pc \in {"header", "tristate"} =>
         /\ Names(touched, disk.auto.lines, lines)
         /\ disk.header = Whole(Macros(lines))
    /\ pc = "tristate" => disk.tristate = Whole(Tristates(lines))

FilesInv == DOMAIN disk = FileNames /\ SaveInv /\ SyncInv

\* A name more does no harm.
LEMMA NamesGrow ==
    ASSUME NEW S, NEW T, S \subseteq T, NEW old, NEW new, Names(S, old, new)
    PROVE  Names(T, old, new)
  BY DEF Names

LEMMA FilesStep ==
    ASSUME FilesInv, [FilesNext]_fileVars PROVE FilesInv'
  <1> USE DEF FilesInv, SaveInv, SyncInv, Syms
  <1>1. CASE Run
    BY <1>1 DEF Run, Quiet, Begins, Names
  <1>2. CASE Stop
    BY <1>2 DEF Stop
  <1>3. CASE CloseTmp
    BY <1>3 DEF CloseTmp
  <1>4. CASE KeepOld
    BY <1>4 DEF KeepOld, Absent, FileNames
  <1>5. CASE Replace
    BY <1>5 DEF Replace, FileNames
  <1>6. CASE FailReplace
    BY <1>6 DEF FailReplace
  <1>7. CASE OpenMinimal
    BY <1>7 DEF OpenMinimal, FileNames
  <1>8. CASE CloseMinimal
    BY <1>8 DEF CloseMinimal, FileNames
  <1>9. CASE Split
    BY <1>9, NamesGrow DEF Split, Names
  <1>10. CASE Touch
    BY <1>10 DEF Touch, Names
  <1>11. CASE RenameHeader
    BY <1>11 DEF RenameHeader, FileNames, Names
  <1>12. CASE RenameTristate
    BY <1>12 DEF RenameTristate, FileNames, Names
  <1>13. CASE RenameAuto
    BY <1>13 DEF RenameAuto, FileNames
  <1>14. CASE UNCHANGED fileVars
    BY <1>14 DEF Names
  <1> QED
    BY <1>1, <1>2, <1>3, <1>4, <1>5, <1>6, <1>7, <1>8, <1>9, <1>10, <1>11, <1>12, <1>13, <1>14
       DEF FilesNext

LEMMA FilesInvariant == FilesSpec => []FilesInv
  <1>1. FilesInit => FilesInv
    BY DEF FilesInit, FilesInv, SaveInv, SyncInv
  <1>2. FilesInv /\ [FilesNext]_fileVars => FilesInv'
    BY FilesStep
  <1> QED
    BY <1>1, <1>2, PTL DEF FilesSpec

(* A configuration that was saved is never lost: whatever is read, edited and
   calculated, wherever a program is killed and whichever rename fails. *)
THEOREM SavedIsKept == FilesSpec => []LastSaveSurvives
  <1>1. FilesInv => LastSaveSurvives
    BY DEF FilesInv, SaveInv, LastSaveSurvives
  <1> QED
    BY <1>1, FilesInvariant, PTL

(* make hears of every change: auto.conf is only replaced when what belongs to it
   is, and after a file was touched for every symbol with another value, by this
   program or by one before it that was killed. *)
THEOREM ChangesAreAnnounced == FilesSpec => AutoConfLast
  <1>1. ASSUME FilesInv, [FilesNext]_fileVars, disk'.auto # disk.auto
        PROVE  /\ disk'.header.lines = Macros(disk'.auto.lines)
               /\ disk'.tristate.lines = Tristates(disk'.auto.lines)
               /\ Names(touched, disk.auto.lines, disk'.auto.lines)
    <2>1. RenameAuto
      BY <1>1 DEF FilesInv, FilesNext, Run, Stop, CloseTmp, KeepOld, Replace, FailReplace,
                  OpenMinimal, CloseMinimal, Split, Touch, RenameHeader, RenameTristate, FileNames
    <2>2. /\ disk'.header = disk.header /\ disk'.tristate = disk.tristate
          /\ disk'.auto = Whole(lines) /\ pc = "tristate"
      BY <1>1, <2>1 DEF RenameAuto, FilesInv, FileNames
    <2> QED
      BY <1>1, <2>2 DEF FilesInv, SyncInv, Whole
  <1>2. FilesInv /\ [FilesNext]_fileVars
          => [disk'.auto # disk.auto =>
                /\ disk'.header.lines = Macros(disk'.auto.lines)
                /\ disk'.tristate.lines = Tristates(disk'.auto.lines)
                /\ Names(touched, disk.auto.lines, disk'.auto.lines)]_fileVars
    BY <1>1
  <1> QED
    BY <1>2, FilesInvariant, PTL DEF FilesSpec, AutoConfLast
====
