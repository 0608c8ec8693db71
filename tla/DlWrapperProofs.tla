-------------------------- MODULE DlWrapperProofs --------------------------
EXTENDS DlWrapper, TLAPS

USE DEF wrapper

(***************************************************************************)
(* The number of URIs left stays a natural number only because a file that *)
(* is being verified has come from one of them.                            *)
(***************************************************************************)
Countdown == \A b \in Builds : pc[b] = "verify" => left[b] > 0
TypeInv == TypeOK /\ Countdown

LEMMA ExitType ==
  ASSUME TypeInv, NEW b \in Builds, NEW l \in PCs \ {"verify"}, Exit(b, l),
         output' \in Contents \cup {NoFile}, strays' \in 0 .. MaxCuts
  PROVE  TypeInv'
  BY DlAssumption DEF TypeInv, TypeOK, Countdown, Exit, Goto

LEMMA StepType == ASSUME TypeInv, NEW b \in Builds, Step(b) PROVE TypeInv'
  <1> USE DlAssumption DEF TypeInv, TypeOK, Countdown, PCs, Inside
  <1>1. CASE Link(b)
    BY <1>1 DEF Link, UseLegacy, Goto, Contents
  <1>2. CASE SkipLegacy(b)
    BY <1>2 DEF SkipLegacy, Goto
  <1>3. CASE CopyEnd(b)
    BY <1>3 DEF CopyEnd, Goto
  <1>4. CASE Missing(b)
    BY <1>4 DEF Missing, StartFetch, Goto
  <1>5. CASE Reuse(b) \/ Refuse(b) \/ Abort(b) \/ FailSave(b) \/ FailRename(b) \/ Report(b)
    BY <1>5, ExitType DEF Reuse, Refuse, Abort, FailSave, FailRename, Report
  <1>6. CASE Mismatch(b)
    BY <1>6 DEF Mismatch, Goto
  <1>7. CASE Remove(b)
    BY <1>7 DEF Remove, StartFetch, Goto
  <1>8. CASE FailFetch(b) \/ Drop(b)
    <2>1. NextUri(b) /\ left[b] - 1 \in 0 .. NumUris
      BY <1>8 DEF FailFetch, Drop
    <2> QED BY <2>1 DEF NextUri, Goto
  <1>9. CASE Fetch(b)
    BY <1>9 DEF Fetch, Goto, Contents
  <1>10. CASE Keep(b)
    BY <1>10 DEF Keep, Goto
  <1>11. CASE Mktemp(b)
    BY <1>11 DEF Mktemp, Goto, Contents
  <1>12. CASE Save(b)
    BY <1>12 DEF Save, Goto
  <1>13. CASE Rename(b)
    BY <1>13 DEF Rename, Goto
  <1>14. CASE Chmod(b)
    BY <1>14 DEF Chmod, Goto
  <1> QED
    BY <1>1, <1>2, <1>3, <1>4, <1>5, <1>6, <1>7, <1>8, <1>9, <1>10, <1>11, <1>12, <1>13, <1>14
       DEF Step

\* Where a run that is cut short goes: back to the lock, or to its end.
LEMMA CutMoves ==
  ASSUME NEW b \in Builds, Kill(b) \/ Errexit(b)
  PROVE  /\ pc[b] \in Inside
         /\ \E l \in {"wait", "failed"} : CutShort(b, l)
  BY DEF Kill, Errexit, Untested, Inside

LEMMA CutType ==
  ASSUME TypeInv, NEW b \in Builds, NEW l \in {"wait", "failed"}, CutShort(b, l), strays <= cuts
  PROVE  TypeInv' /\ strays' <= cuts'
  BY DlAssumption DEF TypeInv, TypeOK, Countdown, PCs, Inside, CutShort, Goto

LEMMA StepCuts ==
  ASSUME NEW b \in Builds, Step(b) PROVE UNCHANGED <<hashes, strays, cuts>>
  BY DEF Step, Link, SkipLegacy, CopyEnd, Missing, Reuse, Refuse, Mismatch, Remove, FailFetch, Fetch,
         Abort, Keep, Drop, Mktemp, Chmod, Save, FailSave, Rename, FailRename, Report, StartFetch, NextUri,
         Exit

(***************************************************************************)
(* The state of the directory and of the runs stays within its declared    *)
(* values, for any builds, hash files, number of URIs and faults.          *)
(***************************************************************************)
THEOREM TypeCorrect == Spec => []TypeOK
  <1> DEFINE Inv == TypeInv /\ strays <= cuts
  <1>1. Init => Inv
    BY DlAssumption DEF Init, TypeInv, TypeOK, Countdown, PCs
  <1>2. Inv /\ [Next]_vars => Inv'
    <2> SUFFICES ASSUME Inv, [Next]_vars PROVE Inv'
      OBVIOUS
    <2>1. ASSUME NEW b \in Builds, Step(b) PROVE Inv'
      BY <2>1, StepType, StepCuts
    <2>2. ASSUME NEW b \in Builds, Kill(b) \/ Errexit(b) PROVE Inv'
      BY <2>2, CutMoves, CutType
    <2>3. ASSUME NEW b \in Builds, Lock(b) \/ Retry(b) PROVE Inv'
      BY <2>3 DEF Lock, Retry, Goto, TypeInv, TypeOK, Countdown, PCs, Inside
    <2>4. CASE UNCHANGED vars
      BY <2>4 DEF vars, TypeInv, TypeOK, Countdown
    <2> QED
      BY <2>1, <2>2, <2>3, <2>4 DEF Next
  <1>3. Inv => TypeOK
    BY DEF TypeInv
  <1> QED
    BY <1>1, <1>2, <1>3, PTL DEF Spec

-----------------------------------------------------------------------------
(***************************************************************************)
(* One run holds the lock, and only such a run is past its beginning.      *)
(***************************************************************************)
LockInv ==
  /\ \A b, c \in lock : b = c
  /\ \A b \in Builds : b \in lock <=> pc[b] \in Inside

\* c is a file the run of b keeps, and rc says whether its hashes accept it.
Kept(b, c) ==
  /\ c \in Complete /\ Verdict(hashes[b], c) \in {0, 3}
  /\ rc[b] = 0 <=> Verdict(hashes[b], c) = 0

\* What the run of b knows, at each point, of the file under the name.
Knows(b) ==
  /\ pc[b] \in {"fetch", "verify", "mktemp", "chmod", "save", "rename"} => output = NoFile
  /\ pc[b] = "remove" => output # NoFile /\ Verdict(hashes[b], output) = 2
  /\ pc[b] = "verify" => tmpf[b] \in Complete
  /\ pc[b] \in {"mktemp", "chmod", "save"} => Kept(b, tmpf[b])
  /\ pc[b] = "rename" => Kept(b, tmp_output[b])
  /\ pc[b] = "report" => Kept(b, output)
  /\ pc[b] = "copy" /\ SameHashes => \A c \in Builds : pc[c] # "ok"

WrapperInv == TypeInv /\ LockInv /\ (\A b \in Builds : Knows(b)) /\ ServedStays

\* A run that is not inside knows nothing.
LEMMA OutsideKnows ==
  ASSUME NEW b \in Builds, pc[b] \notin Inside PROVE Knows(b)
  BY DEF Knows, Inside

LEMMA StepPC ==
  ASSUME TypeOK, NEW b \in Builds, Step(b)
  PROVE  /\ pc[b] \in Inside
         /\ \A c \in Builds \ {b} : pc'[c] = pc[c]
         /\ lock' = IF pc'[b] \in Inside THEN lock ELSE lock \ {b}
  <1> USE DEF TypeOK, Inside, Goto
  <1>1. CASE Link(b) \/ SkipLegacy(b) \/ CopyEnd(b)
    BY <1>1 DEF Link, SkipLegacy, CopyEnd
  <1>2. CASE Missing(b) \/ Mismatch(b) \/ Remove(b)
    BY <1>2 DEF Missing, Mismatch, Remove, StartFetch
  <1>3. CASE Reuse(b) \/ Refuse(b) \/ Abort(b)
    BY <1>3 DEF Reuse, Refuse, Abort, Exit
  <1>4. CASE FailSave(b) \/ FailRename(b) \/ Report(b)
    BY <1>4 DEF FailSave, FailRename, Report, Exit
  <1>5. CASE FailFetch(b) \/ Fetch(b) \/ Drop(b) \/ Keep(b)
    BY <1>5 DEF FailFetch, Fetch, Drop, Keep, NextUri
  <1>6. CASE Mktemp(b) \/ Chmod(b) \/ Save(b) \/ Rename(b)
    BY <1>6 DEF Mktemp, Chmod, Save, Rename
  <1> QED
    BY <1>1, <1>2, <1>3, <1>4, <1>5, <1>6 DEF Step

\* What a step does to the knowledge of its own run.
LEMMA StepKnows ==
  ASSUME WrapperInv, NEW b \in Builds, Step(b) PROVE Knows(b)'
  <1> USE DEF WrapperInv, TypeInv, TypeOK, Goto, Inside
  <1>0. UNCHANGED hashes
    BY StepCuts
  <1>1. CASE Link(b)
    <2>1. pc'[b] \in {"check", "copy"} /\ output = NoFile /\ \A c \in Builds \ {b} : pc'[c] = pc[c]
      BY <1>1 DEF Link, UseLegacy
    <2>2. SameHashes => \A c \in Builds : pc[c] # "ok"
      BY <2>1 DEF ServedStays
    <2> QED BY <1>0, <2>1, <2>2 DEF Knows, SameHashes
  <1>2. CASE SkipLegacy(b) \/ CopyEnd(b)
    BY <1>2 DEF SkipLegacy, CopyEnd, Knows
  <1>3. CASE Missing(b) \/ Remove(b)
    BY <1>3 DEF Missing, Remove, StartFetch, Knows
  <1>4. CASE Mismatch(b)
    BY <1>4 DEF Mismatch, Knows
  <1>5. CASE Reuse(b) \/ Refuse(b) \/ Abort(b) \/ FailSave(b) \/ FailRename(b) \/ Report(b)
    <2>1. pc'[b] \in {"ok", "failed"}
      BY <1>5 DEF Reuse, Refuse, Abort, FailSave, FailRename, Report, Exit
    <2> QED BY <2>1 DEF Knows
  <1>6. CASE FailFetch(b) \/ Drop(b)
    BY <1>6 DEF FailFetch, Drop, NextUri, Knows
  <1>7. CASE Fetch(b)
    BY <1>7 DEF Fetch, Knows
  <1>8. CASE Keep(b)
    BY <1>8 DEF Keep, Knows, Kept
  <1>9. CASE Mktemp(b) \/ Chmod(b)
    BY <1>9 DEF Mktemp, Chmod, Knows, Kept
  <1>10. CASE Save(b)
    BY <1>10 DEF Save, Knows, Kept
  <1>11. CASE Rename(b)
    BY <1>11 DEF Rename, Knows, Kept
  <1> QED
    BY <1>1, <1>2, <1>3, <1>4, <1>5, <1>6, <1>7, <1>8, <1>9, <1>10, <1>11 DEF Step

\* What a step does to the file and to what its own build is told.
LEMMA StepServes ==
  ASSUME WrapperInv, NEW b \in Builds, Step(b)
  PROVE  /\ pc'[b] = "ok" => output' # NoFile /\ Verdict(hashes'[b], output') = 0
         /\ output' = output \/ output = NoFile \/ pc[b] = "copy"
              \/ Verdict(hashes[b], output) = 2
  <1> USE DEF WrapperInv, TypeInv, TypeOK, Goto, Inside
  <1>0. UNCHANGED hashes
    BY StepCuts
  <1>1. CASE Link(b) \/ SkipLegacy(b) \/ CopyEnd(b)
    BY <1>1 DEF Link, SkipLegacy, CopyEnd, UseLegacy
  <1>2. CASE Missing(b) \/ Remove(b) \/ Mismatch(b)
    BY <1>2 DEF Missing, Remove, Mismatch, StartFetch, Knows
  <1>3. CASE Reuse(b) \/ Refuse(b) \/ Abort(b) \/ FailSave(b) \/ FailRename(b)
    BY <1>0, <1>3 DEF Reuse, Refuse, Abort, FailSave, FailRename, Exit
  <1>4. CASE Report(b)
    BY <1>0, <1>4, ContentsAssumption DEF Report, Exit, Knows, Kept
  <1>5. CASE FailFetch(b) \/ Fetch(b) \/ Drop(b) \/ Keep(b)
    BY <1>5 DEF FailFetch, Fetch, Drop, Keep, NextUri
  <1>6. CASE Mktemp(b) \/ Chmod(b) \/ Save(b)
    BY <1>6 DEF Mktemp, Chmod, Save
  <1>7. CASE Rename(b)
    BY <1>7 DEF Rename, Knows
  <1> QED
    BY <1>1, <1>2, <1>3, <1>4, <1>5, <1>6, <1>7 DEF Step

LEMMA StepInv == ASSUME WrapperInv, NEW b \in Builds, Step(b) PROVE WrapperInv'
  <1>0. TypeInv' /\ UNCHANGED hashes
    BY StepType, StepCuts DEF WrapperInv
  <1>1. LockInv'
    BY StepPC DEF WrapperInv, TypeInv, TypeOK, LockInv
  <1>2. ASSUME NEW c \in Builds \ {b} PROVE Knows(c)'
    <2>1. pc'[c] \notin Inside
      BY StepPC DEF WrapperInv, TypeInv, TypeOK, LockInv
    <2> QED BY <2>1 DEF Knows, Inside
  <1>3. ServedStays'
    <2> SUFFICES ASSUME NEW c \in Builds, SameHashes', pc'[c] = "ok"
                 PROVE  output' # NoFile /\ Verdict(hashes'[c], output') = 0
      BY DEF ServedStays
    <2>1. CASE c = b
      BY <2>1, StepServes
    <2>2. CASE c # b
      <3>1. SameHashes /\ hashes[b] = hashes[c] /\ pc[c] = "ok"
        BY <1>0, <2>2, StepPC DEF SameHashes, WrapperInv, TypeInv
      <3>2. output # NoFile /\ Verdict(hashes[c], output) = 0
        BY <3>1 DEF WrapperInv, ServedStays
      <3>3. pc[b] # "copy"
        BY <3>1 DEF WrapperInv, Knows
      <3> QED BY <1>0, <3>1, <3>2, <3>3, StepServes
    <2> QED BY <2>1, <2>2
  <1> QED
    BY <1>0, <1>1, <1>2, <1>3, StepKnows DEF WrapperInv

LEMMA WrapperInvariant ==
  (Init => WrapperInv /\ strays <= cuts)
  /\ (WrapperInv /\ strays <= cuts /\ [Next]_vars => (WrapperInv /\ strays <= cuts)')
  <1>1. Init => WrapperInv /\ strays <= cuts
    BY DlAssumption DEF Init, WrapperInv, TypeInv, TypeOK, Countdown, PCs, LockInv, Knows, Inside,
                        ServedStays
  <1>2. WrapperInv /\ strays <= cuts /\ [Next]_vars => (WrapperInv /\ strays <= cuts)'
    <2> SUFFICES ASSUME WrapperInv, strays <= cuts, [Next]_vars
                 PROVE  (WrapperInv /\ strays <= cuts)'
      OBVIOUS
    <2>1. ASSUME NEW b \in Builds, Step(b) PROVE (WrapperInv /\ strays <= cuts)'
      BY <2>1, StepInv, StepCuts
    <2>2. ASSUME NEW b \in Builds, Kill(b) \/ Errexit(b) PROVE (WrapperInv /\ strays <= cuts)'
      <3>0. PICK l \in {"wait", "failed"} : CutShort(b, l)
        BY <2>2, CutMoves
      <3>1. TypeInv' /\ strays' <= cuts'
        BY <3>0, CutType DEF WrapperInv
      <3>2. /\ pc'[b] = l /\ lock' = lock \ {b} /\ UNCHANGED <<hashes, output>>
            /\ \A c \in Builds \ {b} : pc'[c] = pc[c]
            /\ pc[b] \in Inside
        BY <2>2, <3>0, CutMoves DEF CutShort, Goto, WrapperInv, TypeInv, TypeOK
      <3>3. LockInv' /\ \A c \in Builds : pc'[c] \notin Inside
        BY <3>2 DEF WrapperInv, LockInv, Inside
      <3>4. \A c \in Builds : Knows(c)'
        BY <3>3 DEF Knows, Inside
      <3>5. ServedStays'
        BY <3>2 DEF WrapperInv, ServedStays, SameHashes
      <3> QED BY <3>1, <3>3, <3>4, <3>5 DEF WrapperInv
    <2>3. ASSUME NEW b \in Builds, Lock(b) \/ Retry(b) PROVE (WrapperInv /\ strays <= cuts)'
      <3>1. TypeInv' /\ UNCHANGED <<hashes, output, strays, cuts, wrapper>>
        BY <2>3 DEF Lock, Retry, Goto, WrapperInv, TypeInv, TypeOK, Countdown, PCs, Inside
      <3>2. /\ \A c \in Builds \ {b} : pc'[c] = pc[c]
            /\ pc'[b] \in {"legacy", "wait"}
        BY <2>3 DEF Lock, Retry, Goto, WrapperInv, TypeInv, TypeOK
      <3>3. LockInv'
        BY <2>3 DEF Lock, Retry, Goto, WrapperInv, TypeInv, TypeOK, LockInv, Inside
      <3>4. \A c \in Builds : Knows(c)'
        BY <3>1, <3>2 DEF Knows, Kept, SameHashes, WrapperInv
      <3>5. ServedStays'
        BY <3>1, <3>2 DEF WrapperInv, ServedStays, SameHashes
      <3> QED BY <3>1, <3>3, <3>4, <3>5 DEF WrapperInv
    <2>4. CASE UNCHANGED vars
      BY <2>4 DEF vars, WrapperInv, TypeInv, TypeOK, Countdown, LockInv, Knows, Kept, SameHashes,
                  ServedStays
    <2> QED
      BY <2>1, <2>2, <2>3, <2>4 DEF Next
  <1> QED
    BY <1>1, <1>2

(***************************************************************************)
(* A build that was told of success still finds the file it was told of    *)
(* when it extracts it, however many builds with the same hash files run   *)
(* dl-wrapper meanwhile, and whichever of them are cut short.              *)
(***************************************************************************)
THEOREM ServedFileStays == Spec => []ServedStays
  <1>1. WrapperInv => ServedStays
    BY DEF WrapperInv
  <1> QED
    BY <1>1, WrapperInvariant, PTL DEF Spec

(***************************************************************************)
(* What success says of a file, when the build has a hash file: each line  *)
(* of it that names the file gives the hash the file has.                  *)
(***************************************************************************)
LEMMA AcceptedIsHashed ==
  ASSUME NEW h \in [file: BOOLEAN, lines: Seq(Lines), exempt: BOOLEAN], NEW c,
         h.file, Verdict(h, c) = 0
  PROVE  \A i \in DOMAIN h.lines : c = h.lines[i].sum
  <1>1. CASE h.lines = <<>>
    BY <1>1
  <1>2. CASE h.lines # <<>>
    <2>1. \A i \in DOMAIN h.lines : Passes(h.lines[i], c)
      BY <1>2 DEF Verdict
    <2> QED BY <2>1 DEF Passes
  <1> QED
    BY <1>1, <1>2

\* Only a step of its own run, one that serves the file, tells a build of success.
LEMMA OnlyStepsServe ==
  ASSUME WrapperInv, [Next]_vars, NEW b \in Builds, pc[b] # "ok", pc'[b] = "ok"
  PROVE  Step(b)
  <1>1. ASSUME NEW c \in Builds, Step(c) PROVE Step(b)
    BY <1>1, StepPC DEF WrapperInv, TypeInv
  <1>2. ASSUME NEW c \in Builds, Lock(c) \/ Retry(c) PROVE FALSE
    BY <1>2 DEF Lock, Retry, Goto, WrapperInv, TypeInv, TypeOK
  <1>4. ASSUME NEW c \in Builds, Kill(c) \/ Errexit(c) PROVE FALSE
    BY <1>4, CutMoves DEF CutShort, Goto, WrapperInv, TypeInv, TypeOK
  <1>3. CASE UNCHANGED vars
    BY <1>3 DEF vars
  <1> QED
    BY <1>1, <1>2, <1>3, <1>4 DEF Next

(***************************************************************************)
(* Success is never told of a file that is torn, or that has another hash  *)
(* than the one the build's hash files give: not even of a legacy file     *)
(* that was copied, half copied or put there by another build.             *)
(***************************************************************************)
THEOREM HashedFileIsRight == Spec => HashedIsRight
  <1> DEFINE A == \A b \in Builds :
                    pc[b] # "ok" /\ pc'[b] = "ok" /\ hashes[b].file =>
                       \A i \in DOMAIN hashes[b].lines : output' = hashes[b].lines[i].sum
  <1>1. WrapperInv /\ [Next]_vars => [A]_vars
    <2> SUFFICES ASSUME WrapperInv, [Next]_vars, NEW b \in Builds,
                        pc[b] # "ok", pc'[b] = "ok", hashes[b].file
                 PROVE  \A i \in DOMAIN hashes[b].lines : output' = hashes[b].lines[i].sum
      OBVIOUS
    <2>1. Step(b)
      BY OnlyStepsServe
    <2>2. Verdict(hashes[b], output') = 0
      BY <2>1, StepServes, StepCuts
    <2>3. hashes[b] \in [file: BOOLEAN, lines: Seq(Lines), exempt: BOOLEAN]
      BY DlAssumption DEF WrapperInv, TypeInv, TypeOK
    <2> QED BY <2>2, <2>3, AcceptedIsHashed
  <1> QED
    BY <1>1, WrapperInvariant, PTL DEF Spec, HashedIsRight

-----------------------------------------------------------------------------
\* A run that is not inside has no temporary.
OutsideClean == \A b \in Builds : pc[b] \notin Inside => tmp_output[b] = NoFile

LEMMA StepClean ==
  ASSUME TypeOK, OutsideClean, NEW b \in Builds, Step(b) PROVE OutsideClean'
  <1> USE DEF TypeOK, OutsideClean, Goto
  <1>1. CASE Link(b) \/ SkipLegacy(b) \/ CopyEnd(b) \/ Mismatch(b)
    BY <1>1 DEF Link, SkipLegacy, CopyEnd, Mismatch, Inside
  <1>2. CASE Missing(b) \/ Remove(b)
    BY <1>2 DEF Missing, Remove, StartFetch, Inside
  <1>3. CASE Reuse(b) \/ Refuse(b) \/ Abort(b) \/ FailSave(b) \/ FailRename(b) \/ Report(b)
    BY <1>3 DEF Reuse, Refuse, Abort, FailSave, FailRename, Report, Exit
  <1>4. CASE FailFetch(b) \/ Fetch(b) \/ Drop(b) \/ Keep(b)
    BY <1>4 DEF FailFetch, Fetch, Drop, Keep, NextUri, Inside
  <1>5. CASE Mktemp(b) \/ Chmod(b) \/ Save(b) \/ Rename(b)
    BY <1>5 DEF Mktemp, Chmod, Save, Rename, Inside
  <1> QED
    BY <1>1, <1>2, <1>3, <1>4, <1>5 DEF Step

(***************************************************************************)
(* For any number of builds, URIs and faults: no run that ends where the   *)
(* script ends it, whichever of its error paths it takes, leaves a         *)
(* temporary in BR2_DL_DIR; those that are killed, or that set -e ends at  *)
(* a command the script does not test, leave at most one each.             *)
(***************************************************************************)
THEOREM DownloadsLeaveNoClutter == Spec => []NoClutter
  <1>1. Init => OutsideClean
    BY DEF Init, OutsideClean
  <1>2. TypeOK /\ OutsideClean /\ [Next]_vars => OutsideClean'
    <2> SUFFICES ASSUME TypeOK, OutsideClean, [Next]_vars PROVE OutsideClean'
      OBVIOUS
    <2>1. ASSUME NEW b \in Builds, Step(b) PROVE OutsideClean'
      BY <2>1, StepClean
    <2>2. ASSUME NEW b \in Builds, Lock(b) \/ Retry(b) PROVE OutsideClean'
      BY <2>2 DEF Lock, Retry, Goto, TypeOK, OutsideClean, Inside
    <2>3. ASSUME NEW b \in Builds, Kill(b) \/ Errexit(b) PROVE OutsideClean'
      BY <2>3, CutMoves DEF CutShort, Goto, TypeOK, OutsideClean, Inside
    <2>4. CASE UNCHANGED vars
      BY <2>4 DEF vars, OutsideClean
    <2> QED
      BY <2>1, <2>2, <2>3, <2>4 DEF Next
  <1>3. strays <= cuts /\ OutsideClean => NoClutter
    BY DEF OutsideClean, NoClutter
  <1>4. WrapperInv => TypeOK
    BY DEF WrapperInv, TypeInv
  <1> QED
    BY <1>1, <1>2, <1>3, <1>4, WrapperInvariant, PTL DEF Spec

-----------------------------------------------------------------------------
(* Refinement, for a directory without a legacy file. *)

StoreInv == WrapperInv /\ (\A b \in Builds : pc[b] # "copy") /\ output \in Complete \cup {NoFile}

LEMMA StepStoreInv ==
  ASSUME Legacy = NoFile, StoreInv, NEW b \in Builds, Step(b)
  PROVE  pc'[b] # "copy" /\ output' \in Complete \cup {NoFile}
  <1> USE DEF StoreInv, WrapperInv, TypeInv, TypeOK, Goto
  <1>1. CASE Link(b) \/ SkipLegacy(b) \/ CopyEnd(b)
    BY <1>1 DEF Link, SkipLegacy, CopyEnd, UseLegacy
  <1>2. CASE Missing(b) \/ Remove(b) \/ Mismatch(b)
    BY <1>2 DEF Missing, Remove, Mismatch, StartFetch
  <1>3. CASE Reuse(b) \/ Refuse(b) \/ Abort(b) \/ FailSave(b) \/ FailRename(b) \/ Report(b)
    BY <1>3 DEF Reuse, Refuse, Abort, FailSave, FailRename, Report, Exit
  <1>4. CASE FailFetch(b) \/ Fetch(b) \/ Drop(b) \/ Keep(b)
    BY <1>4 DEF FailFetch, Fetch, Drop, Keep, NextUri
  <1>5. CASE Mktemp(b) \/ Chmod(b) \/ Save(b)
    BY <1>5 DEF Mktemp, Chmod, Save
  <1>6. CASE Rename(b)
    BY <1>6 DEF Rename, Knows, Kept
  <1> QED
    BY <1>1, <1>2, <1>3, <1>4, <1>5, <1>6 DEF Step

\* The store asks the same check-hash.
LEMMA SameVerdict == \A h, c : Store!Verdict(h, c) = Verdict(h, c)
  <1> SUFFICES ASSUME NEW h, NEW c PROVE Store!Verdict(h, c) = Verdict(h, c)
    OBVIOUS
  <1>1. \A l : Store!Passes(l, c) = Passes(l, c)
    BY DEF Store!Passes, Passes
  <1>2. Store!FirstFailing(h, c) = FirstFailing(h, c)
    BY DEF Store!FirstFailing, FirstFailing, Store!Passes, Passes
  <1> QED
    BY <1>1, <1>2 DEF Store!Verdict, Verdict, Store!Passes, Passes

\* The run of b moves to l, and what its build was told with it.
LEMMA ResultMoves ==
  ASSUME TypeOK, NEW b \in Builds, NEW l \in PCs, pc' = [pc EXCEPT ![b] = l]
  PROVE  Result' = [Result EXCEPT ![b] = IF l \in {"ok", "failed"} THEN l ELSE "none"]
  BY DEF TypeOK, Result

LEMMA QuietStore ==
  ASSUME TypeOK, NEW b \in Builds, NEW l \in PCs \ {"ok", "failed"}, Goto(b, l),
         pc[b] \notin {"ok", "failed"}, UNCHANGED <<hashes, output>>
  PROVE  UNCHANGED Store!storeVars
  <1>1. Result' = Result
    BY DEF TypeOK, Result, Goto
  <1> QED
    BY <1>1 DEF Store!storeVars

LEMMA StepStore ==
  ASSUME StoreInv, NEW b \in Builds, Step(b), Legacy = NoFile
  PROVE  Store!Next \/ UNCHANGED Store!storeVars
  <1> USE DEF StoreInv, WrapperInv, TypeInv, PCs, Inside
  <1>0. UNCHANGED hashes /\ Result[b] = "none"
    BY StepCuts, StepPC DEF Result
  <1>1. ASSUME pc' = [pc EXCEPT ![b] = "failed"], UNCHANGED output,
               output = NoFile \/ Verdict(hashes[b], output) # 0
        PROVE  Store!Next
    <2>1. Store!GiveUp(b)
      BY <1>0, <1>1, ResultMoves, SameVerdict DEF Store!GiveUp, Store!Accepts
    <2> QED BY <2>1 DEF Store!Next
  <1>2. ASSUME pc' = [pc EXCEPT ![b] = "ok"], UNCHANGED output,
               output # NoFile /\ Verdict(hashes[b], output) = 0
        PROVE  Store!Next
    <2>1. Store!Serve(b)
      BY <1>0, <1>2, ResultMoves, SameVerdict DEF Store!Serve, Store!Accepts
    <2> QED BY <2>1 DEF Store!Next
  <1>3. CASE Link(b) \/ CopyEnd(b)
    BY <1>3 DEF Link, CopyEnd, UseLegacy
  <1>4. CASE SkipLegacy(b) \/ Missing(b) \/ Mismatch(b)
    BY <1>0, <1>4, QuietStore DEF SkipLegacy, Missing, Mismatch, StartFetch
  <1>5. CASE Reuse(b)
    BY <1>2, <1>5 DEF Reuse, Exit, Goto
  <1>6. CASE Refuse(b)
    BY <1>1, <1>6 DEF Refuse, Exit, Goto
  <1>7. CASE Remove(b)
    <2>1. Result' = Result
      BY <1>7 DEF Remove, StartFetch, Goto, Result, TypeOK
    <2>2. Store!Discard(b)
      BY <1>0, <1>7, <2>1, SameVerdict DEF Remove, StartFetch, Knows, Store!Discard
    <2> QED BY <2>2 DEF Store!Next
  <1>8. CASE FailFetch(b) \/ Drop(b)
    BY <1>0, <1>8, QuietStore DEF FailFetch, Drop, NextUri
  <1>9. CASE Fetch(b) \/ Keep(b) \/ Mktemp(b) \/ Chmod(b) \/ Save(b)
    BY <1>0, <1>9, QuietStore DEF Fetch, Keep, Mktemp, Chmod, Save
  <1>10. CASE Abort(b) \/ FailSave(b) \/ FailRename(b)
    BY <1>1, <1>10 DEF Abort, FailSave, FailRename, Exit, Goto, Knows
  <1>11. CASE Rename(b)
    <2>1. Result' = Result
      BY <1>11 DEF Rename, Goto, Result, TypeOK
    <2>2. Kept(b, tmp_output[b]) /\ output = NoFile
      BY <1>11 DEF Rename, Knows
    <2>3. Store!Deliver(b, tmp_output[b])
      BY <1>0, <1>11, <2>1, <2>2, SameVerdict DEF Rename, Kept, Store!Deliver
    <2> QED BY <2>2, <2>3 DEF Store!Next, Kept
  <1>12. CASE Report(b)
    <2>1. Kept(b, output) /\ UNCHANGED output
      BY <1>12 DEF Report, Knows
    <2>2. CASE rc[b] = 0
      BY <1>2, <1>12, <2>1, <2>2, ContentsAssumption DEF Report, Exit, Goto, Kept
    <2>3. CASE rc[b] # 0
      BY <1>1, <1>12, <2>1, <2>3 DEF Report, Exit, Goto, Kept
    <2> QED BY <2>2, <2>3
  <1> QED
    BY <1>3, <1>4, <1>5, <1>6, <1>7, <1>8, <1>9, <1>10, <1>11, <1>12 DEF Step

(***************************************************************************)
(* When BR2_DL_DIR holds no legacy file of that name, the wrapper is an    *)
(* atomic store: for any builds, hash files, URIs, faults and ways of a    *)
(* run to be cut short, each of its steps is one of DlStore or is not seen *)
(* there.                                                                  *)
(***************************************************************************)
THEOREM WrapperImplementsStore ==
  ASSUME Legacy = NoFile PROVE Spec => ImplementsStore
  <1> DEFINE Inv == StoreInv /\ strays <= cuts
  <1>1. Init => Inv /\ Store!Init
    <2> SUFFICES ASSUME Init PROVE Inv /\ Store!Init
      OBVIOUS
    <2>1. WrapperInv /\ strays <= cuts
      BY WrapperInvariant
    <2> QED BY <2>1 DEF Init, StoreInv, Store!Init, Result
  <1>2. Inv /\ [Next]_vars => Inv'
    <2> SUFFICES ASSUME Inv, [Next]_vars PROVE Inv'
      OBVIOUS
    <2>1. WrapperInv' /\ strays' <= cuts'
      BY WrapperInvariant DEF StoreInv
    <2>2. ASSUME NEW b \in Builds, Step(b) PROVE Inv'
      BY <2>1, <2>2, StepStoreInv, StepPC DEF StoreInv, WrapperInv, TypeInv
    <2>3. ASSUME NEW b \in Builds, Lock(b) \/ Retry(b) PROVE Inv'
      BY <2>1, <2>3 DEF Lock, Retry, Goto, StoreInv, WrapperInv, TypeInv, TypeOK
    <2>4. ASSUME NEW b \in Builds, Kill(b) \/ Errexit(b) PROVE Inv'
      BY <2>1, <2>4, CutMoves DEF CutShort, Goto, StoreInv, WrapperInv, TypeInv, TypeOK
    <2>5. CASE UNCHANGED vars
      BY <2>1, <2>5 DEF vars, StoreInv
    <2> QED
      BY <2>2, <2>3, <2>4, <2>5 DEF Next
  <1>3. Inv /\ [Next]_vars => [Store!Next]_Store!storeVars
    <2> SUFFICES ASSUME StoreInv, [Next]_vars PROVE Store!Next \/ UNCHANGED Store!storeVars
      BY DEF Store!storeVars
    <2>0. TypeOK
      BY DEF StoreInv, WrapperInv, TypeInv
    <2>1. ASSUME NEW b \in Builds, Step(b) PROVE Store!Next \/ UNCHANGED Store!storeVars
      BY <2>1, StepStore
    <2>2. ASSUME NEW b \in Builds, Lock(b) \/ Kill(b) PROVE UNCHANGED Store!storeVars
      BY <2>0, <2>2, QuietStore DEF Lock, Kill, CutShort, PCs, Inside
    <2>5. ASSUME NEW b \in Builds, Errexit(b) PROVE Store!Next
      <3>1. pc[b] \in {"remove", "verify", "mktemp", "chmod", "save", "rename", "fetch"}
        BY <2>5 DEF Errexit, Untested
      <3>2. output = NoFile \/ Verdict(hashes[b], output) = 2
        BY <3>1 DEF StoreInv, WrapperInv, Knows
      <3>3. pc' = [pc EXCEPT ![b] = "failed"] /\ UNCHANGED <<hashes, output>>
        BY <2>5 DEF Errexit, CutShort, Goto
      <3>4. Result' = [Result EXCEPT ![b] = "failed"]
        <4>1. "failed" \in PCs
          BY DEF PCs
        <4> QED BY <2>0, <3>3, <4>1, ResultMoves
      <3>5. Store!GiveUp(b)
        BY <3>1, <3>2, <3>3, <3>4, SameVerdict DEF Store!GiveUp, Store!Accepts, Result
      <3> QED BY <3>5 DEF Store!Next
    <2>3. ASSUME NEW b \in Builds, Retry(b) PROVE Store!Next
      <3>1. Result[b] # "none"
        BY <2>3 DEF Retry, Result
      <3>2. pc' = [pc EXCEPT ![b] = "wait"] /\ UNCHANGED <<hashes, output>>
        BY <2>3 DEF Retry, Goto
      <3>3. Result' = [Result EXCEPT ![b] = "none"]
        <4>1. "wait" \in PCs /\ "wait" \notin {"ok", "failed"}
          BY DEF PCs
        <4> QED BY <2>0, <3>2, <4>1, ResultMoves
      <3>4. Store!Again(b)
        BY <3>1, <3>2, <3>3 DEF Store!Again
      <3> QED BY <3>4 DEF Store!Next
    <2>4. CASE UNCHANGED vars
      BY <2>4 DEF vars, Store!storeVars, Result
    <2> QED
      BY <2>1, <2>2, <2>3, <2>4, <2>5 DEF Next
  <1> QED
    BY <1>1, <1>2, <1>3, PTL DEF Spec, ImplementsStore, Store!Spec

=============================================================================
