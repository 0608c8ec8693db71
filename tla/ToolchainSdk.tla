---------------------------- MODULE ToolchainSdk ----------------------------
(***************************************************************************)
(* How build.sh and external-toolchain-sdk.sh turn a vendor toolchain into *)
(* the host/opt/ext-toolchain of a board: the archives under toolchains/,  *)
(* their copies under dl/toolchain-external-custom/, and what the package  *)
(* toolchain-external-custom leaves in output/<board>.                     *)
(*                                                                         *)
(* A run is one invocation of build.sh.  Every step of it that touches a   *)
(* file is an action of its own, so that runs interleave, and a run may be *)
(* killed or interrupted between any two of them.  The user acts too: the  *)
(* kinds of things he does are the constant Events, and MaxEvents bounds   *)
(* how many of them happen.                                                *)
(***************************************************************************)
EXTENDS Integers, Sequences, FiniteSets

CONSTANTS
    Boards,       \* board/<name>/configs/defconfig
    Toolchains,   \* (BR2_TOOLCHAIN_EXTERNAL_PATH, prefix) pairs of the defconfigs
    ToolchainOf,  \* the pair each board names; two boards may name the same
    Preinstalled, \* boards whose defconfig has EXTERNAL_PREINSTALLED=y
    Runs,         \* invocations of build.sh
    BoardOf,      \* the board argument of each run
    MaxVersion,   \* bound: versions of one vendor toolchain
    RelBin,       \* where the tools are in a user's archive of a version
    Events,       \* which things happen besides the steps of the runs
    UserWaits,    \* the user leaves the files alone while a run is active
    MaxEvents     \* bound: how many such things happen

Versions == 1 .. MaxVersion
EventKinds == {"kill", "interrupt", "drop", "redrop", "replace", "remove",
               "upgrade", "cleanhost", "distclean"}

ASSUME BoardAssumption ==
    /\ ToolchainOf \in [Boards -> Toolchains]
    /\ Preinstalled \subseteq Boards
    /\ BoardOf \in [Runs -> Boards]
ASSUME VersionAssumption ==
    /\ MaxVersion \in Nat \ {0}
    /\ RelBin \in [Versions -> {"bin", "usr/bin"}]
ASSUME EventAssumption ==
    Events \subseteq EventKinds /\ UserWaits \in BOOLEAN /\ MaxEvents \in Nat

(***************************************************************************)
(* File names.  Sdk(b) is <board>-sdk-toolchain.tar.xz (the .tar.gz and    *)
(* .tgz spellings of it behave alike), Tmp(b) the same with .tmp appended, *)
(* Vendor(t) an archive named after the source directory or the prefix.    *)
(***************************************************************************)
Sdk(b) == <<"sdk", b>>
Tmp(b) == <<"tmp", b>>
Vendor(t) == <<"vendor", t>>
Names == ({"sdk", "tmp"} \X Boards) \cup ({"vendor"} \X Toolchains)

(***************************************************************************)
(* Contents.  "short": truncated before the tools; "listed": truncated     *)
(* after them, so that tar -tf shows <prefix>-gcc; "whole": complete.      *)
(* Version 0 marks bytes of two writers mixed in one file.                 *)
(***************************************************************************)
Shapes == {"absent", "short", "listed", "whole"}
Contents == [shape: Shapes, ver: 0 .. MaxVersion]
Absent == [shape |-> "absent", ver |-> 0]
Whole(v) == [shape |-> "whole", ver |-> v]
Shaped(c, s) == [shape |-> s, ver |-> c.ver]
Exists(c) == c.shape # "absent"

NoName == <<"none", "none">>
NoConfig == [url |-> NoName, rel |-> "none", edited |-> FALSE]
BoardConfig(e) == [url |-> NoName, rel |-> "bin", edited |-> e]
Rels == {"none", "bin", "usr/bin"}
Configs == [url: Names \cup {NoName}, rel: Rels, edited: BOOLEAN]

Stamps == {"downloaded", "extracted", "installed"}
Kinds == {"build", "config"}
PCs == {"idle", "glob", "probe", "newer", "source", "copy", "open", "write",
        "publish", "rmcache", "check", "rmbuild", "rmext", "defconfig",
        "edit", "make", "move", "done", "failed"}

VARIABLES
    files,     \* toolchains/: what each archive name holds
    writers,   \* runs with a compressor writing the inode of that name
    newer,     \* archive -nt its copy under dl/
    cache,     \* dl/toolchain-external-custom/
    source,    \* version installed at the vendor path, 0 if none
    config,    \* output/<board>/.config
    stamps,    \* output/<board>/build/toolchain-external-custom/.stamp_*
    ext,       \* output/<board>/host/opt/ext-toolchain
    sysroot,   \* version the wrapper and staging were installed from, 0 if none
    pc, kind, cand, rejected, arch, rel, refreshed, staged, \* of each run
    events     \* how many of Events have happened

shared == <<files, writers, newer, cache, source>>
output == <<config, stamps, ext, sysroot>>
script == <<cand, rejected, arch, rel, refreshed, staged>>
locals == <<kind, script>>
vars == <<shared, output, locals, pc, events>>

Idle == {"idle", "done", "failed"}
Active(r) == pc[r] \notin Idle
OneRunPerBoard == \A r, q \in Runs : BoardOf[r] = BoardOf[q] => r = q

TypeOK ==
    /\ files \in [Names -> Contents] /\ cache \in [Names -> Contents]
    /\ writers \in [Names -> SUBSET Runs] /\ newer \in [Names -> BOOLEAN]
    /\ source \in [Toolchains -> 0 .. MaxVersion]
    /\ config \in [Boards -> Configs] /\ stamps \in [Boards -> SUBSET Stamps]
    /\ ext \in [Boards -> Contents] /\ sysroot \in [Boards -> 0 .. MaxVersion]
    /\ pc \in [Runs -> PCs] /\ kind \in [Runs -> Kinds]
    /\ cand \in [Runs -> SUBSET Names] /\ rejected \in [Runs -> BOOLEAN]
    /\ arch \in [Runs -> Names \cup {NoName}] /\ rel \in [Runs -> Rels]
    /\ refreshed \in [Runs -> BOOLEAN] /\ staged \in [Runs -> 0 .. MaxVersion]
    /\ events \in 0 .. MaxEvents

\* A fresh checkout with the vendor toolchains installed.
Init ==
    /\ files = [n \in Names |-> Absent] /\ cache = [n \in Names |-> Absent]
    /\ writers = [n \in Names |-> {}] /\ newer = [n \in Names |-> FALSE]
    /\ source = [t \in Toolchains |-> 1]
    /\ config = [b \in Boards |-> NoConfig] /\ stamps = [b \in Boards |-> {}]
    /\ ext = [b \in Boards |-> Absent] /\ sysroot = [b \in Boards |-> 0]
    /\ pc = [r \in Runs |-> "idle"] /\ kind = [r \in Runs |-> "build"]
    /\ cand = [r \in Runs |-> {}] /\ rejected = [r \in Runs |-> FALSE]
    /\ arch = [r \in Runs |-> NoName] /\ rel = [r \in Runs |-> "none"]
    /\ refreshed = [r \in Runs |-> FALSE] /\ staged = [r \in Runs |-> 0]
    /\ events = 0

-----------------------------------------------------------------------------
(***************************************************************************)
(* A run starts.  With a configuration target build.sh skips the script    *)
(* and uses the board defconfig; the script itself hands the defconfig     *)
(* back when the board has no preinstalled external toolchain.             *)
(***************************************************************************)
Goto(r, l) == pc' = [pc EXCEPT ![r] = l]

Start(r, k) ==
    /\ ~Active(r)
    /\ kind' = [kind EXCEPT ![r] = k]
    /\ Goto(r, IF k = "build" /\ BoardOf[r] \in Preinstalled THEN "glob" ELSE "defconfig")
    /\ UNCHANGED <<shared, output, script, events>>

\* The shell variables go with the process.
Exit(r, l) ==
    /\ Goto(r, l)
    /\ cand' = [cand EXCEPT ![r] = {}]
    /\ rejected' = [rejected EXCEPT ![r] = FALSE]
    /\ arch' = [arch EXCEPT ![r] = NoName]
    /\ rel' = [rel EXCEPT ![r] = "none"]
    /\ refreshed' = [refreshed EXCEPT ![r] = FALSE]
    /\ staged' = [staged EXCEPT ![r] = 0]
    /\ UNCHANGED kind

-----------------------------------------------------------------------------
(* find_existing_toolchain_archive *)

\* The globs in the order they are tried: *<board>*.tar* matches the .tmp too.
Patterns(b) == <<Sdk(b), Tmp(b), Vendor(ToolchainOf[b])>>

Glob(r) ==
    /\ pc[r] = "glob"
    /\ cand' = [cand EXCEPT ![r] =
                  {n \in Names : Exists(files[n]) /\ \E i \in 1 .. 3 : n = Patterns(BoardOf[r])[i]}]
    /\ Goto(r, "probe")
    /\ UNCHANGED <<shared, output, kind, rejected, arch, rel, refreshed, staged, events>>

\* n is the first candidate of r that has not been looked at.
IsNext(r, n) ==
    LET p == Patterns(BoardOf[r]) IN
    \E i \in 1 .. 3 : p[i] = n /\ n \in cand[r] /\ \A j \in 1 .. i - 1 : p[j] \notin cand[r]

\* tar -tf lists */bin/<prefix>-gcc; archives the script makes have it in bin.
Listed(c) == c.shape \in {"listed", "whole"}
\* Slip: the top directory of the archive is not stripped.
RelOfUnstripped(n) == n[1]
RelOf(n) == IF n[1] = "vendor" /\ files[n].ver # 0 THEN RelBin[files[n].ver] ELSE "bin"

Accept(r, n) ==
    /\ pc[r] = "probe" /\ IsNext(r, n) /\ Listed(files[n])
    /\ arch' = [arch EXCEPT ![r] = n]
    /\ rel' = [rel EXCEPT ![r] = RelOf(n)]
    /\ Goto(r, "newer")
    /\ UNCHANGED <<shared, output, kind, cand, rejected, refreshed, staged, events>>

Reject(r, n) ==
    /\ pc[r] = "probe" /\ IsNext(r, n) /\ ~Listed(files[n])
    /\ cand' = [cand EXCEPT ![r] = @ \ {n}]
    /\ rejected' = [rejected EXCEPT ![r] = TRUE]
    /\ UNCHANGED <<shared, output, pc, kind, arch, rel, refreshed, staged, events>>

\* No candidate left: candidates that were all rejected are an error.
FailProbe(r) ==
    /\ pc[r] = "probe" /\ cand[r] = {} /\ rejected[r]
    /\ Exit(r, "failed")
    /\ UNCHANGED <<shared, output, events>>

NoCandidate(r) ==
    /\ pc[r] = "probe" /\ cand[r] = {} /\ ~rejected[r]
    /\ Goto(r, "source")
    /\ UNCHANGED <<shared, output, locals, events>>

\* resolve_external_toolchain_archive: is the copy under dl/ outdated?
\* Slip: any copy under dl/ is removed, older or not.
CompareCacheAlways(r) ==
    /\ pc[r] = "newer"
    /\ Goto(r, IF Exists(cache[arch[r]]) THEN "rmcache" ELSE "check")
    /\ UNCHANGED <<shared, output, locals, events>>

CompareCache(r) ==
    /\ pc[r] = "newer"
    /\ LET n == arch[r] IN
       Goto(r, IF Exists(cache[n]) /\ Exists(files[n]) /\ newer[n] THEN "rmcache" ELSE "check")
    /\ UNCHANGED <<shared, output, locals, events>>

RemoveCache(r) ==
    /\ pc[r] = "rmcache"
    /\ cache' = [cache EXCEPT ![arch[r]] = Absent]
    /\ Goto(r, "check")
    /\ UNCHANGED <<files, writers, newer, source, output, locals, events>>

-----------------------------------------------------------------------------
(***************************************************************************)
(* create_toolchain_archive_from_source.  A failure of it, as an interrupt *)
(* during it, leaves through the EXIT trap, which removes the .tmp file by *)
(* name.  A compressor that opens a .tmp somebody else is writing mixes    *)
(* its bytes into the same inode; one whose file was unlinked meanwhile    *)
(* goes on writing to an inode without a name.                             *)
(***************************************************************************)
Creating == {"copy", "open", "write", "publish"}
Unlink(n) ==
    /\ files' = [files EXCEPT ![n] = Absent]
    /\ writers' = [writers EXCEPT ![n] = {}]

FailSource(r) ==
    /\ pc[r] = "source" /\ source[ToolchainOf[BoardOf[r]]] = 0
    /\ Exit(r, "failed")
    /\ UNCHANGED <<shared, output, events>>

Prepare(r) ==
    /\ pc[r] = "source" /\ source[ToolchainOf[BoardOf[r]]] # 0
    /\ arch' = [arch EXCEPT ![r] = Sdk(BoardOf[r])]
    /\ rel' = [rel EXCEPT ![r] = "bin"]
    /\ Unlink(Tmp(BoardOf[r]))
    /\ Goto(r, "copy")
    /\ UNCHANGED <<newer, cache, source, output, kind, cand, rejected, refreshed, staged, events>>

Copy(r) ==
    /\ pc[r] = "copy" /\ source[ToolchainOf[BoardOf[r]]] # 0
    /\ staged' = [staged EXCEPT ![r] = source[ToolchainOf[BoardOf[r]]]]
    /\ Goto(r, "open")
    /\ UNCHANGED <<shared, output, kind, cand, rejected, arch, rel, refreshed, events>>

FailCopy(r) ==
    /\ pc[r] = "copy" /\ source[ToolchainOf[BoardOf[r]]] = 0
    /\ Unlink(Tmp(BoardOf[r]))
    /\ Exit(r, "failed")
    /\ UNCHANGED <<newer, cache, source, output, events>>

OpenTmp(r) ==
    LET n == Tmp(BoardOf[r]) IN
    /\ pc[r] = "open"
    /\ files' = [files EXCEPT ![n] =
                   [shape |-> "short", ver |-> IF writers[n] = {} THEN staged[r] ELSE 0]]
    /\ writers' = [writers EXCEPT ![n] = @ \cup {r}]
    /\ newer' = [newer EXCEPT ![n] = TRUE]
    /\ Goto(r, "write")
    /\ UNCHANGED <<cache, source, output, locals, events>>

\* What a compressor may have written when it stops: mixed bytes never extract.
WrittenShapes(c) == {"short", "listed"} \cup (IF c.ver # 0 THEN {"whole"} ELSE {})

\* The tools have been written but not the rest.
WriteTools(r, n) ==
    /\ pc[r] = "write" /\ r \in writers[n] /\ files[n].shape = "short"
    /\ files' = [files EXCEPT ![n] = Shaped(@, "listed")]
    /\ newer' = [newer EXCEPT ![n] = TRUE]
    /\ UNCHANGED <<writers, cache, source, output, locals, pc, events>>

WriteEnd(r) ==
    /\ pc[r] = "write"
    /\ files' = [n \in Names |->
                   IF r \in writers[n] /\ files[n].ver # 0 THEN Whole(files[n].ver) ELSE files[n]]
    /\ newer' = [n \in Names |-> newer[n] \/ r \in writers[n]]
    /\ writers' = [n \in Names |-> writers[n] \ {r}]
    /\ Goto(r, "publish")
    /\ UNCHANGED <<cache, source, output, locals, events>>

\* Slip: the copy under dl/ is left alone.
PublishKeepCopy(r) ==
    LET n == Sdk(BoardOf[r])
        t == Tmp(BoardOf[r]) IN
    /\ pc[r] = "publish" /\ Exists(files[t])
    /\ files' = [files EXCEPT ![n] = files[t], ![t] = Absent]
    /\ writers' = [writers EXCEPT ![n] = writers[t], ![t] = {}]
    /\ newer' = [newer EXCEPT ![n] = TRUE]
    /\ refreshed' = [refreshed EXCEPT ![r] = TRUE]
    /\ Goto(r, "check")
    /\ UNCHANGED <<cache, source, output, kind, cand, rejected, arch, rel, staged, events>>

\* mv carries the inode, and whoever is still writing it, to the final name.
Publish(r) ==
    LET n == Sdk(BoardOf[r])
        t == Tmp(BoardOf[r]) IN
    /\ pc[r] = "publish" /\ Exists(files[t])
    /\ files' = [files EXCEPT ![n] = files[t], ![t] = Absent]
    /\ writers' = [writers EXCEPT ![n] = writers[t], ![t] = {}]
    /\ newer' = [newer EXCEPT ![n] = TRUE]
    /\ refreshed' = [refreshed EXCEPT ![r] = TRUE]
    /\ Goto(r, "rmcache")
    /\ UNCHANGED <<cache, source, output, kind, cand, rejected, arch, rel, staged, events>>

FailPublish(r) ==
    /\ pc[r] = "publish" /\ ~Exists(files[Tmp(BoardOf[r])])
    /\ Exit(r, "failed")
    /\ UNCHANGED <<shared, output, events>>

-----------------------------------------------------------------------------
(* external_toolchain_state_needs_invalidate, invalidate_external_toolchain_state *)

\* Slip: a stamp without its directory is not noticed.
NeedsInvalidateNoProbe(r) ==
    LET b == BoardOf[r] IN
    \/ refreshed[r]
    \/ config[b] # NoConfig /\ (config[b].url # arch[r] \/ config[b].rel # rel[r])

\* Slip: a regenerated archive is not noticed.
NeedsInvalidateNoRefresh(r) ==
    LET b == BoardOf[r] IN
    /\ config[b] # NoConfig
    /\ \/ "extracted" \in stamps[b] /\ ~Exists(ext[b])
       \/ config[b].url # arch[r] \/ config[b].rel # rel[r]

NeedsInvalidate(r) ==
    LET b == BoardOf[r] IN
    \/ refreshed[r]
    \/ /\ config[b] # NoConfig
       /\ \/ "extracted" \in stamps[b] /\ ~Exists(ext[b])
          \/ config[b].url # arch[r] \/ config[b].rel # rel[r]

Check(r) ==
    /\ pc[r] = "check"
    /\ Goto(r, IF NeedsInvalidate(r) THEN "rmbuild" ELSE "defconfig")
    /\ UNCHANGED <<shared, output, locals, events>>

\* rm -rf removes the stamps in no particular order, and may be killed half way.
RemoveBuild(r) ==
    LET b == BoardOf[r] IN
    /\ pc[r] = "rmbuild"
    /\ \E S \in SUBSET stamps[b] :
          /\ S # stamps[b] \/ S = {}
          /\ stamps' = [stamps EXCEPT ![b] = S]
          /\ Goto(r, IF S = {} THEN "rmext" ELSE "rmbuild")
    /\ UNCHANGED <<shared, config, ext, sysroot, locals, events>>

RemoveExt(r) ==
    LET b == BoardOf[r] IN
    /\ pc[r] = "rmext"
    /\ IF ext[b].shape = "whole"
         THEN ext' = [ext EXCEPT ![b] = Shaped(@, "short")] /\ Goto(r, "rmext")
         ELSE ext' = [ext EXCEPT ![b] = Absent] /\ Goto(r, "defconfig")
    /\ UNCHANGED <<shared, config, stamps, sysroot, locals, events>>

-----------------------------------------------------------------------------
(***************************************************************************)
(* make defconfig, then make.  The temporary defconfig carries the chosen  *)
(* archive; a configuration target gets the board's own, and the editor it *)
(* opens may change the result.                                            *)
(***************************************************************************)
Defconfig(r) ==
    /\ pc[r] = "defconfig"
    /\ config' = [config EXCEPT ![BoardOf[r]] =
                    IF arch[r] = NoName THEN BoardConfig(FALSE)
                    ELSE [url |-> arch[r], rel |-> rel[r], edited |-> FALSE]]
    /\ Goto(r, IF kind[r] = "config" THEN "edit" ELSE "make")
    /\ UNCHANGED <<shared, stamps, ext, sysroot, locals, events>>

Edit(r) ==
    /\ pc[r] = "edit"
    /\ \E e \in BOOLEAN : config' = [config EXCEPT ![BoardOf[r]].edited = e]
    /\ Exit(r, "done")
    /\ UNCHANGED <<shared, stamps, ext, sysroot, events>>

External(r) == config[BoardOf[r]].url # NoName

\* A board with a toolchain of its own has none of the steps below.
MakeInternal(r) ==
    /\ pc[r] = "make" /\ ~External(r)
    /\ Exit(r, "done")
    /\ UNCHANGED <<shared, output, events>>

(***************************************************************************)
(* .stamp_downloaded, under the lock of dl/toolchain-external-custom: a    *)
(* copy already there is taken as it is, for the package has no hash file. *)
(* Making a stamp makes the later ones out of date.                        *)
(***************************************************************************)
Download(r) ==
    LET b == BoardOf[r]
        n == config[b].url IN
    /\ pc[r] = "make" /\ External(r) /\ "downloaded" \notin stamps[b]
    /\ \/ Exists(cache[n]) /\ UNCHANGED <<cache, newer>>
       \/ /\ ~Exists(cache[n]) /\ Exists(files[n])
          /\ cache' = [cache EXCEPT ![n] = files[n]]
          /\ newer' = [newer EXCEPT ![n] = FALSE]
    /\ stamps' = [stamps EXCEPT ![b] = {"downloaded"}]
    /\ UNCHANGED <<files, writers, source, config, ext, sysroot, locals, pc, events>>

\* No INFLATE command exists for the suffix .tmp.
Extractable(n) == cache[n].shape = "whole" /\ n[1] # "tmp"

\* Slip: the stamp is touched before the directory is filled.
ExtractStampFirst(r) ==
    LET b == BoardOf[r] IN
    /\ pc[r] = "make" /\ External(r)
    /\ "downloaded" \in stamps[b] /\ "extracted" \notin stamps[b]
    /\ Extractable(config[b].url)
    /\ ext' = [ext EXCEPT ![b] = Shaped(cache[config[b].url], "short")]
    /\ stamps' = [stamps EXCEPT ![b] = {"downloaded", "extracted"}]
    /\ Goto(r, "move")
    /\ UNCHANGED <<shared, config, sysroot, locals, events>>

\* .stamp_extracted: unpack, then TOOLCHAIN_EXTERNAL_MOVE.
Extract(r) ==
    LET b == BoardOf[r] IN
    /\ pc[r] = "make" /\ External(r)
    /\ "downloaded" \in stamps[b] /\ "extracted" \notin stamps[b]
    /\ Extractable(config[b].url)
    /\ ext' = [ext EXCEPT ![b] = Shaped(cache[config[b].url], "short")]
    /\ Goto(r, "move")
    /\ UNCHANGED <<shared, config, stamps, sysroot, locals, events>>

Move(r) ==
    LET b == BoardOf[r] IN
    /\ pc[r] = "move"
    /\ ext' = [ext EXCEPT ![b] = Shaped(@, "whole")]
    /\ stamps' = [stamps EXCEPT ![b] = {"downloaded", "extracted"}]
    /\ Goto(r, "make")
    /\ UNCHANGED <<shared, config, sysroot, locals, events>>

\* .stamp_configured to .stamp_installed: the wrapper, staging and target.
Install(r) ==
    LET b == BoardOf[r] IN
    /\ pc[r] = "make" /\ External(r)
    /\ {"downloaded", "extracted"} \subseteq stamps[b] /\ "installed" \notin stamps[b]
    /\ ext[b].shape = "whole"
    /\ sysroot' = [sysroot EXCEPT ![b] = ext[b].ver]
    /\ stamps' = [stamps EXCEPT ![b] = Stamps]
    /\ UNCHANGED <<shared, config, ext, locals, pc, events>>

FailMake(r) ==
    LET b == BoardOf[r]
        n == config[b].url IN
    /\ pc[r] = "make" /\ External(r)
    /\ \/ "downloaded" \notin stamps[b] /\ ~Exists(cache[n]) /\ ~Exists(files[n])
       \/ "downloaded" \in stamps[b] /\ "extracted" \notin stamps[b] /\ ~Extractable(n)
       \/ /\ {"downloaded", "extracted"} \subseteq stamps[b] /\ "installed" \notin stamps[b]
          /\ ext[b].shape # "whole"
    /\ Exit(r, "failed")
    /\ UNCHANGED <<shared, output, events>>

Finish(r) ==
    /\ pc[r] = "make" /\ External(r) /\ stamps[BoardOf[r]] = Stamps
    /\ Exit(r, "done")
    /\ UNCHANGED <<shared, output, events>>

-----------------------------------------------------------------------------
(***************************************************************************)
(* What else happens.  Kill is SIGKILL or a power failure: no trap runs,   *)
(* and the orphaned compressor stops or finishes.  Interrupt is a signal   *)
(* whose default action lets bash run the trap.                            *)
(***************************************************************************)
Happens(e) == e \in Events /\ events < MaxEvents /\ events' = events + 1

Stopped(r) ==
    Exit(r, "idle") /\ UNCHANGED <<newer, cache, source, output>>

Kill(r) ==
    /\ Happens("kill") /\ Active(r) /\ Stopped(r)
    /\ writers' = [n \in Names |-> writers[n] \ {r}]
    /\ \/ UNCHANGED files
       \/ \E n \in Names : \E s \in WrittenShapes(files[n]) :
            r \in writers[n] /\ files' = [files EXCEPT ![n] = Shaped(@, s)]


Interrupt(r) ==
    /\ Happens("interrupt") /\ Active(r) /\ Stopped(r)
    /\ IF pc[r] \in Creating THEN Unlink(Tmp(BoardOf[r])) ELSE UNCHANGED <<files, writers>>

(***************************************************************************)
(* The user moves a whole archive to a name the script looks for, later    *)
(* modified than the copy under dl/ or, if he kept its time, not: "drop"   *)
(* when no build knows the name, "redrop" when the same archive is there,  *)
(* "replace" otherwise.  He removes an archive or a stray .tmp, upgrades   *)
(* or removes the vendor's directory, or deletes host/ or all the output.  *)
(***************************************************************************)
UserActs(e) == Happens(e) /\ (UserWaits => \A r \in Runs : ~Active(r))
\* No script looks for an archive of a board that has none preinstalled.
UserNames == {n \in Names : n[1] # "tmp" /\ (n[1] = "sdk" => n[2] \in Preinstalled)}
Unknown(n) ==
    ~Exists(files[n]) /\ ~Exists(cache[n]) /\ \A b \in Boards : config[b].url # n

Place(n, v, fresh) ==
    /\ UserActs(IF Unknown(n) THEN "drop"
                ELSE IF files[n] = Whole(v) THEN "redrop" ELSE "replace")
    /\ files' = [files EXCEPT ![n] = Whole(v)]
    /\ writers' = [writers EXCEPT ![n] = {}]
    /\ newer' = [newer EXCEPT ![n] = fresh]
    /\ UNCHANGED <<cache, source, output, locals, pc>>

Remove(n) ==
    /\ UserActs("remove") /\ Exists(files[n]) /\ Unlink(n)
    /\ UNCHANGED <<newer, cache, source, output, locals, pc>>

Upgrade(t, v) ==
    /\ UserActs("upgrade") /\ source[t] # v
    /\ source' = [source EXCEPT ![t] = v]
    /\ UNCHANGED <<files, writers, newer, cache, output, locals, pc>>

BoardIdle(b) == \A r \in Runs : Active(r) => BoardOf[r] # b

CleanHost(b) ==
    /\ UserActs("cleanhost") /\ BoardIdle(b)
    /\ ext' = [ext EXCEPT ![b] = Absent]
    /\ sysroot' = [sysroot EXCEPT ![b] = 0]
    /\ UNCHANGED <<shared, config, stamps, locals, pc>>

DistClean(b) ==
    /\ UserActs("distclean") /\ BoardIdle(b)
    /\ config' = [config EXCEPT ![b] = NoConfig]
    /\ stamps' = [stamps EXCEPT ![b] = {}]
    /\ ext' = [ext EXCEPT ![b] = Absent]
    /\ sysroot' = [sysroot EXCEPT ![b] = 0]
    /\ UNCHANGED <<shared, locals, pc>>

-----------------------------------------------------------------------------
Resolve(r) ==
    \/ Glob(r) \/ FailProbe(r) \/ NoCandidate(r) \/ CompareCache(r) \/ RemoveCache(r)
    \/ \E n \in Names : Accept(r, n) \/ Reject(r, n)
Create(r) ==
    \/ FailSource(r) \/ Prepare(r) \/ Copy(r) \/ FailCopy(r) \/ OpenTmp(r)
    \/ \E n \in Names : WriteTools(r, n)
    \/ WriteEnd(r) \/ Publish(r) \/ FailPublish(r)
Invalidate(r) == Check(r) \/ RemoveBuild(r) \/ RemoveExt(r)
Make(r) ==
    \/ Defconfig(r) \/ Edit(r) \/ MakeInternal(r) \/ Download(r) \/ Extract(r)
    \/ Move(r) \/ Install(r) \/ FailMake(r) \/ Finish(r)
Step(r) == Resolve(r) \/ Create(r) \/ Invalidate(r) \/ Make(r)

Environment ==
    \/ \E r \in Runs : Kill(r) \/ Interrupt(r)
    \/ \E n \in UserNames, v \in Versions, fresh \in BOOLEAN : Place(n, v, fresh)
    \/ \E n \in Names : Remove(n)
    \/ \E t \in Toolchains, v \in 0 .. MaxVersion : Upgrade(t, v)
    \/ \E b \in Boards : CleanHost(b) \/ DistClean(b)

Next ==
    \/ \E r \in Runs : Step(r) \/ \E k \in Kinds : Start(r, k)
    \/ Environment

Spec == Init /\ [][Next]_vars

\* A started run goes on by itself; nothing obliges the user to start one.
FairSpec == Spec /\ \A r \in Runs : WF_vars(Step(r))

-----------------------------------------------------------------------------
(***************************************************************************)
(* <board>-sdk-toolchain.tar.xz is complete whenever it exists, whatever   *)
(* was killed: it is only ever renamed from a finished .tmp.               *)
(***************************************************************************)
PublishedWhole ==
    \A b \in Boards : Exists(files[Sdk(b)]) => files[Sdk(b)].shape = "whole"

(***************************************************************************)
(* While .stamp_extracted stands, host/opt/ext-toolchain is complete or    *)
(* not there at all: an invalidation that is cut short drops the stamps    *)
(* before it touches the directory, and a cut extraction leaves no stamp.  *)
(***************************************************************************)
ExtractedIsWhole ==
    \A b \in Boards : "extracted" \in stamps[b] => ext[b].shape \in {"absent", "whole"}

Succeeds(r) == kind[r] = "build" /\ pc[r] = "make" /\ pc'[r] = "done" /\ External(r)

(***************************************************************************)
(* A build that succeeds leaves a complete opt/ext-toolchain in host/ and  *)
(* a wrapper and sysroot made from that very toolchain, although it ran    *)
(* only the steps whose stamps earlier, possibly broken off, runs or the   *)
(* removal of host/ had not left behind.                                   *)
(***************************************************************************)
SelfContained ==
    [][\A r \in Runs : Succeeds(r) =>
          LET b == BoardOf[r] IN ext'[b].shape = "whole" /\ sysroot'[b] = ext'[b].ver]_vars

(***************************************************************************)
(* A build that succeeds leaves the toolchain of the archive it chose, not *)
(* one that an earlier archive of the same name, its copy under dl/ or an  *)
(* earlier extraction left behind.                                         *)
(***************************************************************************)
Fresh ==
    [][\A r \in Runs : Succeeds(r) /\ Exists(files[arch[r]]) =>
          ext'[BoardOf[r]].ver = files[arch[r]].ver]_vars

Usable(b) ==
    \/ source[ToolchainOf[b]] # 0
    \/ \E n \in {Sdk(b), Vendor(ToolchainOf[b])} : files[n].shape = "whole"

(***************************************************************************)
(* A build fails only when there is neither a usable archive nor a vendor  *)
(* directory to make one from: nothing an earlier run left behind makes a  *)
(* later one fail.                                                         *)
(***************************************************************************)
FailureJustified ==
    [][\A r \in Runs : (Active(r) /\ pc'[r] = "failed") => ~Usable(BoardOf[r])]_vars

=============================================================================
