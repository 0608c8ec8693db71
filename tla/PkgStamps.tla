------------------------------ MODULE PkgStamps ------------------------------
(***************************************************************************)
(* package/pkg-generic.mk: the steps of each package, the stamp file that  *)
(* records each, what a step waits for, and the commands that remove       *)
(* stamps; with support/scripts/apply-patches.sh as the patch step and the *)
(* override directories.  GNU make's own rules are modelled as the         *)
(* makefile relies on them: the goals of one command are made one after    *)
(* the other (.NOTPARALLEL, .WAIT), a target is considered once per        *)
(* command, after what it needs, and its recipe runs when its file is      *)
(* missing or older than a prerequisite that is not order-only.            *)
(***************************************************************************)
EXTENDS Integers, Sequences, FiniteSets

CONSTANTS
  Pkgs,        \* packages
  Deps,        \* FINAL_DEPENDENCIES of each
  RecursiveDeps,  \* FINAL_RECURSIVE_DEPENDENCIES: all that these need in turn
  Override,    \* the packages with an OVERRIDE_SRCDIR
  Installs,    \* where each installs to: a set of the stamps in InstallSteps
  NumPatches,  \* how many patches apply to each: none to those overridden
  Commands,    \* what the user asks make for: sequences of goals
  NoProduct,   \* nothing, or nothing whole
  UserEvents,  \* what else happens: a subset of EventKinds
  MaxRev,      \* bound: revisions of an override directory
  MaxBreaks    \* bound: how many commands are broken off

EventKinds == {"edit", "edit while making", "break", "torn dirclean"}

InstallSteps == {"staging_installed", "target_installed", "images_installed", "host_installed"}

\* Phony targets: they remove stamps, or everything.
Cleans == {"clean-for-reinstall", "clean-for-rebuild", "clean-for-reconfigure", "dircleaned"}

Pipeline(p) ==
  {"configured", "built", "installed"} \cup Installs[p]
    \cup IF p \in Override THEN {"rsynced"} ELSE {"downloaded", "extracted", "patched"}

Steps == {"downloaded", "extracted", "patched", "rsynced", "configured", "built", "installed"}
           \cup InstallSteps

Goals == Pkgs \X (Cleans \cup {"installed"})

Targets == {t \in Pkgs \X (Steps \cup Cleans) : t[2] \in Pipeline(t[1]) \cup Cleans}

ASSUME StampsAssumption ==
  /\ Deps \in [Pkgs -> SUBSET Pkgs]
  /\ RecursiveDeps \in [Pkgs -> SUBSET Pkgs]
  /\ \A p \in Pkgs : /\ p \notin RecursiveDeps[p]
                    /\ RecursiveDeps[p] = Deps[p] \cup UNION {RecursiveDeps[d] : d \in Deps[p]}
  /\ Override \subseteq Pkgs
  /\ Installs \in [Pkgs -> SUBSET InstallSteps]
  /\ NumPatches \in [Pkgs -> Nat]
  /\ \A p \in Override : NumPatches[p] = 0
  /\ Commands \subseteq Seq(Goals) \ {<<>>}
  /\ UserEvents \subseteq EventKinds
  /\ MaxRev \in Nat \ {0} /\ MaxBreaks \in Nat

(***************************************************************************)
(* No goal cleans a package that an earlier one made.  make considers a    *)
(* target once per command, so that in `make app app-rebuild' the steps    *)
(* that app-rebuild clears do not run again.                               *)
(***************************************************************************)
Ordered(gs) ==
  \A i, j \in DOMAIN gs :
    i < j /\ gs[i][2] = "installed" /\ gs[j][2] \in Cleans =>
      gs[j][1] \notin {gs[i][1]} \cup RecursiveDeps[gs[i][1]]

CleansFirst == \A cmd \in Commands : Ordered(cmd)

(***************************************************************************)
(* What a package is made from: the revision of its sources, which is also *)
(* the time of their last change, and how many of its patches they have.   *)
(* An object file also has a time: it is older than the revisions after    *)
(* "at".                                                                   *)
(***************************************************************************)
Sources == [rev : 1 .. MaxRev, applied : Nat]
Objects == [rev : 1 .. MaxRev, applied : Nat, at : 1 .. MaxRev]

ASSUME NoProductAssumption == NoProduct \notin Sources \cup Objects

VARIABLES
  stamps,  \* the .stamp_ files of each build directory
  stale,   \* those older than one they depend on
  tree,    \* sources: all there or not, revision, patches applied, patches listed as
           \* applied; and whether what configure wrote is there
  obj,     \* what the build step made in the build directory
  out,     \* what each install step put in place
  src,     \* the revision in the override directory
  goals,   \* of the command make runs: those not made yet
  done,    \* the targets it has considered
  rms,     \* the stamps that the clean recipe in progress is still to remove
  asked,   \* the revisions there were when the command was given
  torn,    \* packages with a patch step or a dirclean that was broken off
  breaks   \* how many commands were broken off

disk == <<stamps, stale, tree, obj, out>>
command == <<goals, done, rms, asked>>
user == <<src, breaks>>
vars == <<disk, command, user, torn>>

Making == goals # <<>>

Trees(p) ==
  [whole : BOOLEAN, conf : BOOLEAN, rev : 1 .. MaxRev,
   applied : 0 .. NumPatches[p], listed : 0 .. NumPatches[p]]

TypeOK ==
  /\ stamps \in [Pkgs -> SUBSET Steps]
  /\ stale \in [Pkgs -> SUBSET Steps]
  /\ \A p \in Pkgs : stale[p] \subseteq stamps[p] /\ stamps[p] \subseteq Pipeline(p)
  /\ tree \in [Pkgs -> UNION {Trees(p) : p \in Pkgs}]
  /\ \A p \in Pkgs : tree[p] \in Trees(p)
  /\ obj \in [Pkgs -> Objects \cup {NoProduct}]
  /\ out \in [Pkgs -> [InstallSteps -> Sources \cup {NoProduct}]]
  /\ src \in [Pkgs -> 1 .. MaxRev]
  /\ goals \in Seq(Goals)
  /\ done \in SUBSET Targets
  /\ rms \in Seq(Pkgs \X Steps)
  /\ asked \in [Pkgs -> 1 .. MaxRev]
  /\ torn \in SUBSET Pkgs
  /\ breaks \in 0 .. MaxBreaks

EmptyTree == [whole |-> FALSE, conf |-> FALSE, rev |-> 1, applied |-> 0, listed |-> 0]

Init ==
  /\ stamps = [p \in Pkgs |-> {}]
  /\ stale = [p \in Pkgs |-> {}]
  /\ tree = [p \in Pkgs |-> EmptyTree]
  /\ obj = [p \in Pkgs |-> NoProduct]
  /\ out = [p \in Pkgs |-> [k \in InstallSteps |-> NoProduct]]
  /\ src = [p \in Pkgs |-> 1]
  /\ goals = <<>> /\ done = {} /\ rms = <<>>
  /\ asked = src
  /\ torn = {} /\ breaks = 0

-----------------------------------------------------------------------------
(* The rules of inner-generic-package, lines 886 to 1009. *)

\* Slip: .stamp_rsynced is a prerequisite that counts.
NeedsRsync(p, s) ==
  CASE s = "extracted" -> {"downloaded"}
    [] s = "patched" -> {"extracted"}
    [] s = "configured" -> {"patched", "rsynced"} \cap Pipeline(p)
    [] s = "built" -> {"configured"}
    [] s \in InstallSteps -> {"built"}
    [] s = "installed" -> {"built"} \cup Installs[p]
    [] OTHER -> {}

\* Slip: .stamp_installed does not wait for the places to install to.
NeedsBuiltOnly(p, s) ==
  CASE s = "extracted" -> {"downloaded"}
    [] s = "patched" -> {"extracted"}
    [] s = "configured" -> {"patched"} \cap Pipeline(p)
    [] s = "built" -> {"configured"}
    [] s \in InstallSteps \cup {"installed"} -> {"built"}
    [] OTHER -> {}

\* The stamps of p that make the stamp s stale when they are younger.
Needs(p, s) ==
  CASE s = "extracted" -> {"downloaded"}
    [] s = "patched" -> {"extracted"}
    [] s = "configured" -> {"patched"} \cap Pipeline(p)
    [] s = "built" -> {"configured"}
    [] s = "target_installed" -> {"built"} \cup ({"staging_installed"} \cap Installs[p])
    [] s \in InstallSteps \ {"target_installed"} -> {"built"}
    [] s = "installed" -> {"built"} \cup Installs[p]
    [] OTHER -> {}

\* Slip: FINAL_DEPENDENCIES are not waited for.
BeforeNoDeps(p, s) ==
  CASE s = "configured" -> {p} \X ({"rsynced"} \cap Pipeline(p))
    [] s = "clean-for-rebuild" -> {<<p, "clean-for-reinstall">>}
    [] s = "clean-for-reconfigure" -> {<<p, "clean-for-rebuild">>}
    [] OTHER -> {}

\* What is only to be there first.
Before(p, s) ==
  CASE s = "configured" -> (Deps[p] \X {"installed"}) \cup ({p} \X ({"rsynced"} \cap Pipeline(p)))
    [] s = "clean-for-rebuild" -> {<<p, "clean-for-reinstall">>}
    [] s = "clean-for-reconfigure" -> {<<p, "clean-for-rebuild">>}
    [] OTHER -> {}

Prerequisites(t) == ({t[1]} \X Needs(t[1], t[2])) \cup Before(t[1], t[2])

\* Making the goal g comes to the target t, sooner or later.
Wants(g, t) ==
  \/ /\ g[2] = "installed"
     /\ t[1] \in {g[1]} \cup RecursiveDeps[g[1]] /\ t[2] \in Pipeline(t[1])
  \/ /\ t[1] = g[1]
     /\ t[2] \in CASE g[2] = "clean-for-reconfigure" -> Cleans \ {"dircleaned"}
                   [] g[2] = "clean-for-rebuild" -> {"clean-for-reinstall", g[2]}
                   [] OTHER -> {g[2]} \cap Cleans

\* Slip: the override case is forgotten.
RemovesNoRsync(c) ==
  CASE c = "clean-for-reinstall" -> <<"installed", "staging_installed", "target_installed">>
    [] c = "clean-for-rebuild" -> <<"built">>
    [] c = "clean-for-reconfigure" -> <<"configured">>
    [] OTHER -> <<>>

\* Slip: -reconfigure starts from the patch step.
RemovesPatched(c) ==
  CASE c = "clean-for-reinstall" -> <<"installed", "staging_installed", "target_installed">>
    [] c = "clean-for-rebuild" -> <<"built">>
    [] c = "clean-for-reconfigure" -> <<"configured", "patched">>
    [] OTHER -> <<>>

\* The stamps that a clean recipe removes, in its order: lines 1049 to 1069.  A package that
\* is not overridden never has the first.
Removes(c) ==
  CASE c = "clean-for-reinstall" ->
         <<"rsynced", "installed", "staging_installed", "target_installed", "images_installed",
           "host_installed">>
    [] c = "clean-for-rebuild" -> <<"built">>
    [] c = "clean-for-reconfigure" -> <<"configured">>
    [] OTHER -> <<>>

Tree(p, t) == tree' = [tree EXCEPT ![p] = t]

UpToDate(p, s) == s \in stamps[p] /\ s \notin stale[p]

\* make comes to the target t.
Reaches(t) ==
  /\ Making /\ rms = <<>>
  /\ t \notin done /\ Wants(Head(goals), t)
  /\ Prerequisites(t) \subseteq done

Starts(p, s) == Reaches(<<p, s>>) /\ ~UpToDate(p, s)

\* The last line of every step; whatever depends on s is now older than it.
Touch(p, s) ==
  /\ stamps' = [stamps EXCEPT ![p] = @ \cup {s}]
  /\ stale' = [stale EXCEPT ![p] = (@ \ {s}) \cup {u \in stamps[p] : s \in Needs(p, u)}]
  /\ done' = done \cup {<<p, s>>}
  /\ UNCHANGED <<goals, rms, asked, user, torn>>

End ==
  /\ goals' = <<>> /\ done' = {} /\ rms' = <<>>
  /\ asked' = [p \in Pkgs |-> 1]

-----------------------------------------------------------------------------
(* A command. *)

Make(cmd) ==
  /\ ~Making
  /\ goals' = cmd /\ done' = {} /\ rms' = <<>>
  /\ asked' = src
  /\ UNCHANGED <<disk, user, torn>>

NextGoal ==
  /\ Making /\ rms = <<>> /\ Head(goals) \in done
  /\ IF Tail(goals) = <<>> THEN End
     ELSE goals' = Tail(goals) /\ UNCHANGED <<done, rms, asked>>
  /\ UNCHANGED <<disk, user, torn>>

Skip(p, s) ==
  /\ Reaches(<<p, s>>) /\ UpToDate(p, s)
  /\ done' = done \cup {<<p, s>>}
  /\ UNCHANGED <<disk, goals, rms, asked, user, torn>>

\* <pkg>-clean-for-*: one rm -f after the other.
Clean(p, c) ==
  /\ c # "dircleaned" /\ Reaches(<<p, c>>)
  /\ rms' = [i \in DOMAIN Removes(c) |-> <<p, Removes(c)[i]>>]
  /\ done' = done \cup {<<p, c>>}
  /\ UNCHANGED <<disk, goals, asked, user, torn>>

Remove ==
  /\ Making /\ rms # <<>>
  /\ LET p == Head(rms)[1]  s == Head(rms)[2]
     IN /\ stamps' = [stamps EXCEPT ![p] = @ \ {s}]
        /\ stale' = [stale EXCEPT ![p] = @ \ {s}]
  /\ rms' = Tail(rms)
  /\ UNCHANGED <<tree, obj, out, goals, done, asked, user, torn>>

Dirclean(p) ==
  /\ Reaches(<<p, "dircleaned">>)
  /\ stamps' = [stamps EXCEPT ![p] = {}]
  /\ stale' = [stale EXCEPT ![p] = {}]
  /\ Tree(p, EmptyTree)
  /\ obj' = [obj EXCEPT ![p] = NoProduct]
  /\ torn' = torn \ {p}
  /\ done' = done \cup {<<p, "dircleaned">>}
  /\ UNCHANGED <<out, goals, rms, asked, user>>

-----------------------------------------------------------------------------
(* The recipes of the stamps, lines 174 to 402.  What the packages' own    *)
(* commands do is external: they fail when what they read is not whole.    *)

\* The archive itself is the business of dl-wrapper.
Download(p) ==
  /\ Starts(p, "downloaded") /\ Touch(p, "downloaded")
  /\ UNCHANGED <<tree, obj, out>>

\* tar writes every source file anew; .applied_patches_list is not in the archive.
Extract(p) ==
  /\ Starts(p, "extracted") /\ Touch(p, "extracted")
  /\ Tree(p, [tree[p] EXCEPT !.whole = TRUE, !.applied = 0])
  /\ UNCHANGED <<obj, out>>

\* apply-patches.sh: none is listed yet, and patch -N finds none applied.
PatchesApply(p) ==
  NumPatches[p] > 0 => tree[p].whole /\ tree[p].applied = 0 /\ tree[p].listed = 0

\* Slip: the exit code of apply-patches.sh is lost.
PatchAnyway(p) ==
  /\ Starts(p, "patched") /\ Touch(p, "patched")
  /\ Tree(p, [tree[p] EXCEPT !.listed = NumPatches[p],
                             !.applied = IF PatchesApply(p) THEN NumPatches[p] ELSE @])
  /\ UNCHANGED <<obj, out>>

Patch(p) ==
  /\ Starts(p, "patched") /\ PatchesApply(p) /\ Touch(p, "patched")
  /\ Tree(p, [tree[p] EXCEPT !.applied = NumPatches[p], !.listed = NumPatches[p]])
  /\ UNCHANGED <<obj, out>>

\* rsync -au: what is in the build directory stays if it is younger.
Rsync(p) ==
  /\ Starts(p, "rsynced") /\ Touch(p, "rsynced")
  /\ Tree(p, [tree[p] EXCEPT !.whole = TRUE, !.rev = IF src[p] > @ THEN src[p] ELSE @])
  /\ UNCHANGED <<obj, out>>

Configure(p) ==
  /\ Starts(p, "configured") /\ tree[p].whole /\ Touch(p, "configured")
  /\ Tree(p, [tree[p] EXCEPT !.conf = TRUE])
  /\ UNCHANGED <<obj, out>>

\* The package's own make: sources that are not younger than the objects are left alone.
Compiled(p) ==
  IF obj[p] # NoProduct /\ tree[p].rev <= obj[p].at THEN obj[p]
  ELSE [rev |-> tree[p].rev, applied |-> tree[p].applied, at |-> src[p]]

Build(p) ==
  /\ Starts(p, "built") /\ tree[p].whole /\ tree[p].conf /\ Touch(p, "built")
  /\ obj' = [obj EXCEPT ![p] = Compiled(p)]
  /\ UNCHANGED <<tree, out>>

MadeOf(o) == [rev |-> o.rev, applied |-> o.applied]

Install(p, k) ==
  /\ Starts(p, k) /\ k \in InstallSteps /\ obj[p] # NoProduct /\ Touch(p, k)
  /\ out' = [out EXCEPT ![p][k] = MadeOf(obj[p])]
  /\ UNCHANGED <<tree, obj>>

Finish(p) ==
  /\ Starts(p, "installed") /\ Touch(p, "installed")
  /\ UNCHANGED <<tree, obj, out>>

-----------------------------------------------------------------------------
(* A step whose recipe fails by what it finds, and one that is broken off: *)
(* by an error of its own (a full disk, no network) or by a signal.        *)

Fails(p, s) ==
  \/ s = "patched" /\ ~PatchesApply(p)
  \/ s = "configured" /\ ~tree[p].whole
  \/ s = "built" /\ ~(tree[p].whole /\ tree[p].conf)
  \/ s \in InstallSteps /\ obj[p] = NoProduct

\* Slip: a patch is listed without a look at the list.
FailListed(p, s) ==
  /\ Starts(p, s) /\ Fails(p, s)
  /\ Tree(p, IF s = "patched" THEN [tree[p] EXCEPT !.listed = @ + 1] ELSE tree[p])
  /\ End
  /\ UNCHANGED <<stamps, stale, obj, out, user, torn>>

\* A patch is listed before it is applied.
Fail(p, s) ==
  /\ Starts(p, s) /\ Fails(p, s)
  /\ Tree(p, IF s = "patched" /\ tree[p].listed = 0 THEN [tree[p] EXCEPT !.listed = 1]
             ELSE tree[p])
  /\ End
  /\ UNCHANGED <<stamps, stale, obj, out, user, torn>>

MayBreak == "break" \in UserEvents /\ breaks < MaxBreaks

Broken ==
  /\ breaks' = breaks + 1
  /\ End
  /\ UNCHANGED src

\* Between two recipes, or two lines of a clean recipe.
Kill ==
  /\ Making /\ MayBreak /\ Broken
  /\ UNCHANGED <<disk, torn>>

\* After a patch was listed: before, in or after its application.
BreakPatch(p) ==
  /\ Starts(p, "patched") /\ PatchesApply(p) /\ MayBreak /\ Broken
  /\ \E i \in 1 .. NumPatches[p], before, whole \in BOOLEAN :
       Tree(p, [tree[p] EXCEPT !.listed = i, !.whole = whole,
                               !.applied = IF before THEN i - 1 ELSE i])
  /\ torn' = torn \cup {p}
  /\ UNCHANGED <<stamps, stale, obj, out>>

\* Any other step, after some or all of its work and before its touch.
BreakStep(p, s) ==
  /\ Starts(p, s) /\ ~Fails(p, s) /\ MayBreak /\ Broken
  /\ \/ /\ s \in {"extracted", "rsynced"}
        /\ Tree(p, [tree[p] EXCEPT !.whole = FALSE,
                                   !.applied = IF s = "extracted" THEN 0 ELSE @])
        /\ UNCHANGED <<obj, out>>
     \/ /\ s = "configured"
        /\ Tree(p, [tree[p] EXCEPT !.conf = FALSE])
        /\ UNCHANGED <<obj, out>>
     \/ /\ s = "built"
        /\ \E o \in {NoProduct, Compiled(p)} : obj' = [obj EXCEPT ![p] = o]
        /\ UNCHANGED <<tree, out>>
     \/ /\ s \in InstallSteps
        /\ \E o \in {NoProduct, MadeOf(obj[p])} : out' = [out EXCEPT ![p][s] = o]
        /\ UNCHANGED <<tree, obj>>
  /\ UNCHANGED <<stamps, stale, torn>>

\* rm -Rf removes in the order of the directory: any of it may be left.
BreakDirclean(p) ==
  /\ Reaches(<<p, "dircleaned">>) /\ "torn dirclean" \in UserEvents /\ MayBreak /\ Broken
  /\ \E left \in SUBSET stamps[p] :
       /\ stamps' = [stamps EXCEPT ![p] = left]
       /\ stale' = [stale EXCEPT ![p] = @ \cap left]
  /\ \E whole \in {FALSE, tree[p].whole}, conf \in {FALSE, tree[p].conf},
        listed \in {0, tree[p].listed} :
       Tree(p, [tree[p] EXCEPT !.whole = whole, !.conf = conf, !.listed = listed])
  /\ \E o \in {NoProduct, obj[p]} : obj' = [obj EXCEPT ![p] = o]
  /\ torn' = torn \cup {p}
  /\ UNCHANGED out

\* The user works in the override directory.
Edit(p) ==
  /\ p \in Override /\ src[p] < MaxRev
  /\ IF Making THEN "edit while making" \in UserEvents ELSE "edit" \in UserEvents
  /\ src' = [src EXCEPT ![p] = @ + 1]
  /\ UNCHANGED <<disk, command, breaks, torn>>

Next ==
  \/ \E cmd \in Commands : Make(cmd)
  \/ NextGoal \/ Remove \/ Kill
  \/ \E p \in Pkgs :
       \/ Download(p) \/ Extract(p) \/ Patch(p) \/ Rsync(p) \/ Configure(p) \/ Build(p)
       \/ Finish(p) \/ Dirclean(p) \/ BreakPatch(p) \/ BreakDirclean(p) \/ Edit(p)
       \/ \E k \in InstallSteps : Install(p, k)
       \/ \E c \in Cleans : Clean(p, c)
       \/ \E s \in Steps : Skip(p, s) \/ Fail(p, s) \/ BreakStep(p, s)

Spec == Init /\ [][Next]_vars

-----------------------------------------------------------------------------
(* Properties. *)

\* Whatever is installed was made from sources that have each patch exactly once,
\* whichever steps were broken off and run again (apply-patches.sh, lines 110 to 123).
PatchedOnce ==
  \A p \in Pkgs, k \in InstallSteps :
    out[p][k] # NoProduct => out[p][k].applied = NumPatches[p]

Settled(p) == Pipeline(p) \subseteq stamps[p] /\ stale[p] = {}

\* Every place holds what was built last; a broken dirclean may have taken the latter.
InstalledIsBuilt(p) ==
  /\ obj[p] = NoProduct => p \in torn
  /\ obj[p] # NoProduct => \A k \in Installs[p] : out[p][k] = MadeOf(obj[p])

Succeeds == NextGoal /\ goals' = <<>>

\* A make that ends well leaves nothing to do for the packages it went through: the same
\* command runs no step again (lines 937 to 941), and what is installed is what was built.
SuccessIsSettled ==
  [][Succeeds => \A p \in Pkgs : <<p, "installed">> \in done => Settled(p) /\ InstalledIsBuilt(p)]_vars

\* A package is configured, built and installed when all it depends on is installed and
\* up to date (lines 943 and 944).
DependenciesFirst ==
  [][\A t \in done' \ done :
       t[2] \in {"configured", "built"} \cup InstallSteps => \A d \in Deps[t[1]] : Settled(d)]_vars

\* A step only fails by what it finds when a patch step or a dirclean of that package was
\* broken off and no dirclean followed.
FailsOnlyWhenTorn ==
  [][goals' = <<>> => \A p \in Pkgs \ torn, s \in Steps : ~Fail(p, s)]_vars

\* Nothing but a target step that a broken -reinstall left behind is run again unasked: the
\* sources are not patched, nor the package configured, behind the user's back, and
\* -rebuild copies the sources again without configuring (lines 993 and 994).
OnlyInstallsRepeat ==
  \A p \in Pkgs \ torn : stale[p] \subseteq {"target_installed"}

Rebuilt(p) == Succeeds /\ <<p, "clean-for-rebuild">> \in done /\ <<p, "installed">> \in done

\* -rebuild and -reconfigure copy the sources as they were in the override directory when
\* the command was given, whatever was broken off before (using-buildroot-development.adoc,
\* lines 72 to 77).
RebuildCopies ==
  [][\A p \in Override : Rebuilt(p) => tree[p].whole /\ tree[p].rev >= asked[p]]_vars
=============================================================================
