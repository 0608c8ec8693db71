------------------------------ MODULE DlWrapper ------------------------------
(***************************************************************************)
(* support/download/dl-wrapper, for one file of one package's directory    *)
(* under BR2_DL_DIR, as run by builds that share that directory: each run  *)
(* holds the directory's lock (flock, package/pkg-download.mk) from its    *)
(* first step to its last.  A build that was told of success extracts the  *)
(* file later, without the lock.                                           *)
(*                                                                         *)
(* Between two steps a run may be killed, and the lock goes with the last  *)
(* of its processes; dl-wrapper sets no trap, so a signal from the         *)
(* terminal does the same.                                                 *)
(***************************************************************************)
EXTENDS CheckHash, FiniteSets

CONSTANTS
  Builds,     \* builds that share BR2_DL_DIR
  HashFiles,  \* what their hash files may say of the file
  NumUris,    \* how many URIs make passes with -u
  Legacy,     \* what BR2_DL_DIR itself holds under that name, or NoFile
  Faults,     \* what may go wrong: a subset of FaultKinds
  MaxCuts     \* bound: how many runs are cut short

FaultKinds == {"kill", "errexit", "link", "copy", "save", "rename"}

ASSUME DlAssumption ==
  /\ HashFiles \subseteq [file: BOOLEAN, lines: Seq(Lines), exempt: BOOLEAN]
  /\ NumUris \in Nat /\ MaxCuts \in Nat
  /\ Legacy \in Contents \cup {NoFile}
  /\ Faults \subseteq FaultKinds

VARIABLES
  hashes,  \* the hash files of each build
  output,  \* ${output}
  lock,    \* the builds holding the lock of the directory
  strays,  \* how many ${output}.XXXXXX nobody will remove any more
  cuts,    \* how many runs were cut short: killed, or ended by set -e
  pc, tmpf, tmp_output, left, rc  \* of each build's run

wrapper == <<tmpf, tmp_output, left, rc>>
vars == <<hashes, output, lock, strays, cuts, pc, wrapper>>

Inside == {"legacy", "copy", "check", "remove", "fetch", "verify", "mktemp", "chmod", "save",
           "rename", "report"}
PCs == Inside \cup {"wait", "ok", "failed"}

TypeOK ==
  /\ hashes \in [Builds -> HashFiles]
  /\ output \in Contents \cup {NoFile}
  /\ lock \in SUBSET Builds
  /\ strays \in 0 .. MaxCuts /\ cuts \in 0 .. MaxCuts
  /\ pc \in [Builds -> PCs]
  /\ tmpf \in [Builds -> Contents \cup {NoFile}]
  /\ tmp_output \in [Builds -> Contents \cup {NoFile}]
  /\ left \in [Builds -> 0 .. NumUris]
  /\ rc \in [Builds -> {0, 1}]

Init ==
  /\ hashes \in [Builds -> HashFiles]
  /\ output = NoFile /\ lock = {} /\ strays = 0 /\ cuts = 0
  /\ pc = [b \in Builds |-> "wait"]
  /\ tmpf = [b \in Builds |-> NoFile]
  /\ tmp_output = [b \in Builds |-> NoFile]
  /\ left = [b \in Builds |-> 0]
  /\ rc = [b \in Builds |-> 1]

-----------------------------------------------------------------------------
Goto(b, l) == pc' = [pc EXCEPT ![b] = l]

\* The end of a run gives the lock back.
Exit(b, l) ==
  /\ Goto(b, l)
  /\ lock' = lock \ {b}
  /\ tmpf' = [tmpf EXCEPT ![b] = NoFile]
  /\ tmp_output' = [tmp_output EXCEPT ![b] = NoFile]
  /\ left' = [left EXCEPT ![b] = 0]
  /\ rc' = [rc EXCEPT ![b] = 1]
  /\ UNCHANGED <<hashes, cuts>>

\* Slip: no flock.
LockAnyway(b) ==
  /\ pc[b] = "wait"
  /\ lock' = lock \cup {b}
  /\ Goto(b, "legacy")
  /\ UNCHANGED <<hashes, output, strays, cuts, wrapper>>

Lock(b) ==
  /\ pc[b] = "wait" /\ lock = {}
  /\ lock' = {b}
  /\ Goto(b, "legacy")
  /\ UNCHANGED <<hashes, output, strays, cuts, wrapper>>

(***************************************************************************)
(* A file in BR2_DL_DIR itself is hard-linked or, when it cannot be,       *)
(* copied by a cp that may fail half way; || true hides that.              *)
(***************************************************************************)
UseLegacy == output = NoFile /\ Legacy # NoFile

Link(b) ==
  /\ pc[b] = "legacy" /\ UseLegacy
  /\ \/ output' = Legacy /\ Goto(b, "check")
     \/ "link" \in Faults /\ output' = Torn /\ Goto(b, "copy")
     \/ {"link", "copy"} \subseteq Faults /\ UNCHANGED output /\ Goto(b, "check")
  /\ UNCHANGED <<hashes, lock, strays, cuts, wrapper>>

SkipLegacy(b) ==
  /\ pc[b] = "legacy" /\ ~UseLegacy
  /\ Goto(b, "check")
  /\ UNCHANGED <<hashes, output, lock, strays, cuts, wrapper>>

CopyEnd(b) ==
  /\ pc[b] = "copy"
  /\ output' = Legacy \/ ("copy" \in Faults /\ UNCHANGED output)
  /\ Goto(b, "check")
  /\ UNCHANGED <<hashes, lock, strays, cuts, wrapper>>

-----------------------------------------------------------------------------
(* A file that is there already: lines 73 to 82. *)

StartFetch(b) ==
  /\ Goto(b, "fetch")
  /\ left' = [left EXCEPT ![b] = NumUris]
  /\ UNCHANGED <<hashes, lock, strays, cuts, tmpf, tmp_output, rc>>

Missing(b) ==
  /\ pc[b] = "check" /\ output = NoFile
  /\ StartFetch(b) /\ UNCHANGED output

Reuse(b) ==
  /\ pc[b] = "check" /\ output # NoFile /\ Verdict(hashes[b], output) = 0
  /\ Exit(b, "ok")
  /\ UNCHANGED <<output, strays>>

\* The file stays, or it might come again from a later location.
Refuse(b) ==
  /\ pc[b] = "check" /\ output # NoFile /\ Verdict(hashes[b], output) \notin {0, 2}
  /\ Exit(b, "failed")
  /\ UNCHANGED <<output, strays>>

\* Slip: the file is removed whatever check-hash found.
MismatchAny(b) ==
  /\ pc[b] = "check" /\ output # NoFile /\ Verdict(hashes[b], output) # 0
  /\ Goto(b, "remove")
  /\ UNCHANGED <<hashes, output, lock, strays, cuts, wrapper>>

Mismatch(b) ==
  /\ pc[b] = "check" /\ output # NoFile /\ Verdict(hashes[b], output) = 2
  /\ Goto(b, "remove")
  /\ UNCHANGED <<hashes, output, lock, strays, cuts, wrapper>>

Remove(b) ==
  /\ pc[b] = "remove"
  /\ output' = NoFile
  /\ StartFetch(b)

-----------------------------------------------------------------------------
(***************************************************************************)
(* The loop over the URIs.  A backend or its post-process fails, or        *)
(* delivers some complete file, the right one or not; what check-hash does *)
(* not accept is dropped for the next URI, except that a file no hash file *)
(* mentions is kept, with an error.                                        *)
(***************************************************************************)
\* Slip: the same URI is tried again.
SameUri(b) ==
  /\ tmpf' = [tmpf EXCEPT ![b] = NoFile]
  /\ Goto(b, "fetch")
  /\ UNCHANGED <<hashes, output, lock, strays, cuts, tmp_output, left, rc>>

NextUri(b) ==
  /\ left' = [left EXCEPT ![b] = @ - 1]
  /\ tmpf' = [tmpf EXCEPT ![b] = NoFile]
  /\ Goto(b, "fetch")
  /\ UNCHANGED <<hashes, output, lock, strays, cuts, tmp_output, rc>>

\* Slip: the loop goes on after the last URI.
FailFetchPastEnd(b) == pc[b] = "fetch" /\ NextUri(b)

FailFetch(b) == pc[b] = "fetch" /\ left[b] > 0 /\ NextUri(b)

Fetch(b) ==
  /\ pc[b] = "fetch" /\ left[b] > 0
  /\ \E c \in Complete : tmpf' = [tmpf EXCEPT ![b] = c]
  /\ Goto(b, "verify")
  /\ UNCHANGED <<hashes, output, lock, strays, cuts, tmp_output, left, rc>>

Abort(b) ==
  /\ pc[b] = "fetch" /\ left[b] = 0
  /\ Exit(b, "failed")
  /\ UNCHANGED <<output, strays>>

Keep(b) ==
  /\ pc[b] = "verify" /\ Verdict(hashes[b], tmpf[b]) \in {0, 3}
  /\ rc' = [rc EXCEPT ![b] = IF Verdict(hashes[b], tmpf[b]) = 0 THEN 0 ELSE 1]
  /\ Goto(b, "mktemp")
  /\ UNCHANGED <<hashes, output, lock, strays, cuts, tmpf, tmp_output, left>>

Drop(b) == pc[b] = "verify" /\ Verdict(hashes[b], tmpf[b]) \notin {0, 3} /\ NextUri(b)

-----------------------------------------------------------------------------
(* To a temporary name in the directory of ${output}, then mv. *)

Mktemp(b) ==
  /\ pc[b] = "mktemp"
  /\ tmp_output' = [tmp_output EXCEPT ![b] = Torn]
  /\ Goto(b, "chmod")
  /\ UNCHANGED <<hashes, output, lock, strays, cuts, tmpf, left, rc>>

Chmod(b) ==
  /\ pc[b] = "chmod"
  /\ Goto(b, "save")
  /\ UNCHANGED <<hashes, output, lock, strays, cuts, wrapper>>

\* Slip: the downloaded file is saved straight to its name.
SaveInPlace(b) ==
  /\ pc[b] = "save"
  /\ output' = Torn
  /\ tmp_output' = [tmp_output EXCEPT ![b] = tmpf[b]]
  /\ tmpf' = [tmpf EXCEPT ![b] = NoFile]
  /\ Goto(b, "rename")
  /\ UNCHANGED <<hashes, lock, strays, cuts, left, rc>>

Save(b) ==
  /\ pc[b] = "save"
  /\ tmp_output' = [tmp_output EXCEPT ![b] = tmpf[b]]
  /\ tmpf' = [tmpf EXCEPT ![b] = NoFile]
  /\ Goto(b, "rename")
  /\ UNCHANGED <<hashes, output, lock, strays, cuts, left, rc>>

\* Slip: an error leaves the temporary.
FailSaveStray(b) ==
  /\ pc[b] = "save" /\ "save" \in Faults
  /\ Goto(b, "failed") /\ lock' = lock \ {b}
  /\ UNCHANGED <<hashes, output, strays, cuts, wrapper>>

\* The filesystem is full, say: the temporary goes.
FailSave(b) ==
  /\ pc[b] = "save" /\ "save" \in Faults
  /\ Exit(b, "failed")
  /\ UNCHANGED <<output, strays>>

Rename(b) ==
  /\ pc[b] = "rename"
  /\ output' = tmp_output[b]
  /\ tmp_output' = [tmp_output EXCEPT ![b] = NoFile]
  /\ Goto(b, "report")
  /\ UNCHANGED <<hashes, lock, strays, cuts, tmpf, left, rc>>

Report(b) ==
  /\ pc[b] = "report"
  /\ Exit(b, IF rc[b] = 0 THEN "ok" ELSE "failed")
  /\ UNCHANGED <<output, strays>>

FailRename(b) ==
  /\ pc[b] = "rename" /\ "rename" \in Faults
  /\ Exit(b, "failed")
  /\ UNCHANGED <<output, strays>>

Step(b) ==
  \/ Link(b) \/ SkipLegacy(b) \/ CopyEnd(b)
  \/ Missing(b) \/ Reuse(b) \/ Refuse(b) \/ Mismatch(b) \/ Remove(b)
  \/ FailFetch(b) \/ Fetch(b) \/ Abort(b) \/ Keep(b) \/ Drop(b)
  \/ Mktemp(b) \/ Chmod(b) \/ Save(b) \/ FailSave(b) \/ Rename(b) \/ FailRename(b) \/ Report(b)

-----------------------------------------------------------------------------
(***************************************************************************)
(* A run that is cut short cleans nothing up: a temporary it has made in   *)
(* BR2_DL_DIR stays.                                                       *)
(***************************************************************************)
CutShort(b, l) ==
  /\ cuts < MaxCuts /\ cuts' = cuts + 1
  /\ strays' = strays + (IF tmp_output[b] = NoFile THEN 0 ELSE 1)
  /\ Goto(b, l) /\ lock' = lock \ {b}
  /\ tmpf' = [tmpf EXCEPT ![b] = NoFile]
  /\ tmp_output' = [tmp_output EXCEPT ![b] = NoFile]
  /\ left' = [left EXCEPT ![b] = 0] /\ rc' = [rc EXCEPT ![b] = 1]
  /\ UNCHANGED <<hashes, output>>

Kill(b) == "kill" \in Faults /\ pc[b] \in Inside /\ CutShort(b, "wait")

(***************************************************************************)
(* The commands whose failure the script does not test: the rm -f of a     *)
(* file with a wrong hash; mktemp -d, cd and rm -rf around each URI; the   *)
(* mktemp and the chmod of the temporary; rm -rf of the scratch directory  *)
(* before the mv; and the rm of the two error paths themselves.            *)
(***************************************************************************)
Untested(b) ==
  \/ pc[b] \in {"remove", "verify", "mktemp", "chmod", "save", "rename"}
  \/ pc[b] = "fetch" /\ left[b] > 0

\* One of them fails, and set -e ends the run there.
Errexit(b) == "errexit" \in Faults /\ Untested(b) /\ CutShort(b, "failed")

\* make is run again, after a failure or for a build tree made anew.
Retry(b) ==
  /\ pc[b] \in {"ok", "failed"}
  /\ Goto(b, "wait")
  /\ UNCHANGED <<hashes, output, lock, strays, cuts, wrapper>>

Next == \E b \in Builds : Lock(b) \/ Step(b) \/ Kill(b) \/ Errexit(b) \/ Retry(b)

Spec == Init /\ [][Next]_vars

(***************************************************************************)
(* A run goes on by itself, and flock queues the runs that wait: one that  *)
(* finds the lock free again and again gets it.                            *)
(***************************************************************************)
FairSpec == Spec /\ \A b \in Builds : WF_vars(Step(b)) /\ SF_vars(Lock(b))

-----------------------------------------------------------------------------
\* What the build of a run was told.
Result == [b \in Builds |-> IF pc[b] \in {"ok", "failed"} THEN pc[b] ELSE "none"]

(***************************************************************************)
(* The wrapper implements the atomic store of DlStore: kills, failing      *)
(* commands and concurrent builds included.                                *)
(***************************************************************************)
Store == INSTANCE DlStore WITH out <- output, result <- Result
ImplementsStore == Store!Spec

(***************************************************************************)
(* The wrapper does not clutter BR2_DL_DIR: a run that ends where the      *)
(* script ends it, on success or on any of its error paths, takes its      *)
(* temporary with it.  A run that is cut short, killed or ended by set -e  *)
(* at a command whose failure it does not test, may leave one, which       *)
(* nobody removes, and never more.                                         *)
(***************************************************************************)
NoClutter ==
  /\ strays <= cuts
  /\ \A b \in Builds : pc[b] \notin Inside => tmp_output[b] = NoFile

SameHashes == \A b, c \in Builds : hashes[b] = hashes[c]

(***************************************************************************)
(* Between a build's download and its extraction, which takes no lock, the *)
(* other builds' runs do not take the file away from it, if they have the  *)
(* same hash files.                                                        *)
(***************************************************************************)
ServedStays ==
  \A b \in Builds : SameHashes /\ pc[b] = "ok" =>
    output # NoFile /\ Verdict(hashes[b], output) = 0

(***************************************************************************)
(* A build that has a hash for the file is told of success only when the   *)
(* file is complete and has that hash, even after a legacy file, or a cp   *)
(* of it that was cut short.                                               *)
(***************************************************************************)
HashedIsRight ==
  [][\A b \in Builds :
       pc[b] # "ok" /\ pc'[b] = "ok" /\ hashes[b].file =>
          \A i \in DOMAIN hashes[b].lines : output' = hashes[b].lines[i].sum]_vars

\* Every run that waits for the lock is told of success or of failure.
EveryRunEnds == \A b \in Builds : pc[b] = "wait" ~> pc[b] \in {"ok", "failed"}
=============================================================================
