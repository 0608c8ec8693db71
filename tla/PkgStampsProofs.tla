--------------------------- MODULE PkgStampsProofs ---------------------------
(***************************************************************************)
(* Type correctness of PkgStamps, that nothing is installed that was made  *)
(* from sources with a patch missing, and what make's order of the goals   *)
(* and of the steps gives, for any packages and commands.                  *)
(***************************************************************************)
EXTENDS PkgStamps, TLAPS

USE DEF disk, command, user

-----------------------------------------------------------------------------
(* What make comes to. *)

LEMMA PipelineSteps == \A p \in Pkgs : Pipeline(p) \subseteq Steps /\ Pipeline(p) \cap Cleans = {}
  BY StampsAssumption DEF Pipeline, Steps, Cleans, InstallSteps

\* A step that make comes to is one of that package's, a clean is one of the four.
LEMMA ReachedInPipeline ==
  ASSUME NEW p \in Pkgs, NEW s, Reaches(<<p, s>>)
  PROVE  /\ s \in Pipeline(p) \cup Cleans
         /\ <<p, s>> \in Targets
         /\ Prerequisites(<<p, s>>) \subseteq done
  <1>1. s \in Pipeline(p) \cup Cleans
    BY DEF Reaches, Wants, Cleans
  <1>2. <<p, s>> \in Targets
    BY <1>1, PipelineSteps DEF Targets
  <1>. QED
    BY <1>1, <1>2 DEF Reaches

LEMMA StepInPipeline ==
  ASSUME NEW p \in Pkgs, NEW s \in Steps, Reaches(<<p, s>>)
  PROVE  s \in Pipeline(p)
  BY ReachedInPipeline DEF Steps, Cleans, InstallSteps

LEMMA RemovesType == \A c : Removes(c) \in Seq(Steps)
  <1> TAKE c
  <1>1. CASE c = "clean-for-reinstall"
    BY <1>1 DEF Removes, Steps, InstallSteps
  <1>2. CASE c = "clean-for-rebuild"
    BY <1>2 DEF Removes, Steps, InstallSteps
  <1>3. CASE c = "clean-for-reconfigure"
    BY <1>3 DEF Removes, Steps, InstallSteps
  <1>4. CASE c \notin {"clean-for-reinstall", "clean-for-rebuild", "clean-for-reconfigure"}
    BY <1>4 DEF Removes
  <1> QED
    BY <1>1, <1>2, <1>3, <1>4

-----------------------------------------------------------------------------
(* Type correctness. *)

LEMMA InitType == Init => TypeOK
  <1> SUFFICES ASSUME Init PROVE TypeOK
    OBVIOUS
  <1>1. 1 \in 1 .. MaxRev /\ 0 \in 0 .. MaxBreaks
    BY StampsAssumption
  <1>2. \A p \in Pkgs : NumPatches[p] \in Nat
    BY StampsAssumption
  <1>3. \A p \in Pkgs : EmptyTree \in Trees(p)
    BY <1>1, <1>2 DEF EmptyTree, Trees
  <1>4. /\ tree \in [Pkgs -> UNION {Trees(p) : p \in Pkgs}]
        /\ \A p \in Pkgs : tree[p] \in Trees(p)
    BY <1>3 DEF Init
  <1>5. goals \in Seq(Goals) /\ rms \in Seq(Pkgs \X Steps)
    BY DEF Init
  <1> QED
    BY <1>1, <1>4, <1>5 DEF Init, TypeOK

\* The part of the type invariant that the end of a command restores.
LEMMA EndType ==
  ASSUME End
  PROVE  /\ goals' \in Seq(Goals) /\ done' \in SUBSET Targets /\ rms' \in Seq(Pkgs \X Steps)
         /\ asked' \in [Pkgs -> 1 .. MaxRev]
  BY StampsAssumption DEF End

LEMMA BrokenType ==
  ASSUME TypeOK, MayBreak, Broken
  PROVE  breaks' \in 0 .. MaxBreaks
  BY StampsAssumption DEF TypeOK, MayBreak, Broken

\* A step that was carried out leaves well-formed stamps and considered targets.
LEMMA TouchType ==
  ASSUME TypeOK, NEW p \in Pkgs, NEW s \in Steps, Starts(p, s), Touch(p, s)
  PROVE  /\ stamps' \in [Pkgs -> SUBSET Steps] /\ stale' \in [Pkgs -> SUBSET Steps]
         /\ \A q \in Pkgs : stale'[q] \subseteq stamps'[q] /\ stamps'[q] \subseteq Pipeline(q)
         /\ done' \in SUBSET Targets
         /\ UNCHANGED <<goals, rms, asked, src, breaks, torn>>
  <1>1. s \in Pipeline(p) /\ <<p, s>> \in Targets
    BY StepInPipeline, ReachedInPipeline DEF Starts
  <1> QED
    BY <1>1 DEF TypeOK, Touch

\* The updates of a package's sources that occur.
LEMMA TreesUpdate ==
  ASSUME NEW p \in Pkgs, NEW t \in Trees(p), NEW whole \in BOOLEAN, NEW conf \in BOOLEAN,
         NEW applied \in 0 .. NumPatches[p], NEW listed \in 0 .. NumPatches[p]
  PROVE  /\ [t EXCEPT !.whole = whole, !.applied = applied] \in Trees(p)
         /\ [t EXCEPT !.applied = applied, !.listed = listed] \in Trees(p)
         /\ [t EXCEPT !.listed = listed, !.whole = whole, !.applied = applied] \in Trees(p)
         /\ [t EXCEPT !.whole = whole, !.conf = conf, !.listed = listed] \in Trees(p)
         /\ [t EXCEPT !.conf = conf] \in Trees(p)
  <1>1. [t EXCEPT !.whole = whole, !.applied = applied] \in Trees(p)
    BY DEF Trees
  <1>2. [t EXCEPT !.applied = applied, !.listed = listed] \in Trees(p)
    BY DEF Trees
  <1>3. [t EXCEPT !.listed = listed, !.whole = whole, !.applied = applied] \in Trees(p)
    BY DEF Trees
  <1>4. [t EXCEPT !.whole = whole, !.conf = conf, !.listed = listed] \in Trees(p)
    BY DEF Trees
  <1>5. [t EXCEPT !.conf = conf] \in Trees(p)
    BY DEF Trees
  <1> QED
    BY <1>1, <1>2, <1>3, <1>4, <1>5

\* One package's sources change, within their type.
LEMMA TreeType ==
  ASSUME TypeOK, NEW p \in Pkgs, NEW t \in Trees(p), Tree(p, t)
  PROVE  tree' \in [Pkgs -> UNION {Trees(q) : q \in Pkgs}] /\ \A q \in Pkgs : tree'[q] \in Trees(q)
  BY DEF TypeOK, Tree

LEMMA CompiledType ==
  ASSUME TypeOK, NEW p \in Pkgs
  PROVE  Compiled(p) \in Objects \cup {NoProduct}
  <1>1. /\ tree[p] \in Trees(p) /\ NumPatches[p] \in Nat
        /\ src[p] \in 1 .. MaxRev /\ obj[p] \in Objects \cup {NoProduct}
    BY StampsAssumption DEF TypeOK
  <1> QED
    BY <1>1 DEF Compiled, Objects, Trees

LEMMA MadeOfType == \A o \in Objects : MadeOf(o) \in Sources
  BY DEF MadeOf, Objects, Sources

LEMMA NextType == TypeOK /\ [Next]_vars => TypeOK'
  <1> SUFFICES ASSUME TypeOK, [Next]_vars PROVE TypeOK'
    OBVIOUS
  <1>1. ASSUME NEW cmd \in Commands, Make(cmd) PROVE TypeOK'
    <2>1. cmd \in Seq(Goals)
      BY StampsAssumption
    <2> QED
      BY <1>1, <2>1 DEF Make, TypeOK
  <1>2. CASE NextGoal
    <2>1. CASE End
      BY <1>2, <2>1, EndType DEF NextGoal, TypeOK
    <2>2. CASE goals' = Tail(goals) /\ UNCHANGED <<done, rms, asked>>
      BY <1>2, <2>2 DEF NextGoal, TypeOK, Making
    <2> QED
      BY <1>2, <2>1, <2>2 DEF NextGoal
  <1>3. CASE Remove
    <2>1. rms' \in Seq(Pkgs \X Steps)
      BY <1>3 DEF Remove, TypeOK
    <2> QED
      BY <1>3, <2>1 DEF Remove, TypeOK
  <1>4. CASE Kill
    BY <1>4, EndType, BrokenType DEF Kill, Broken, TypeOK
  <1>5. ASSUME NEW p \in Pkgs, NEW s \in Steps, Skip(p, s) PROVE TypeOK'
    BY <1>5, ReachedInPipeline DEF Skip, TypeOK
  <1>6. ASSUME NEW p \in Pkgs, NEW c \in Cleans, Clean(p, c) PROVE TypeOK'
    <2>1. rms' \in Seq(Pkgs \X Steps)
      BY <1>6, RemovesType DEF Clean
    <2> QED
      BY <1>6, <2>1, ReachedInPipeline DEF Clean, TypeOK
  <1>7. ASSUME NEW p \in Pkgs, Dirclean(p) PROVE TypeOK'
    <2>1. EmptyTree \in Trees(p)
      BY StampsAssumption DEF EmptyTree, Trees
    <2>3. done' \in SUBSET Targets
      BY <1>7, ReachedInPipeline DEF Dirclean, TypeOK
    <2> QED
      BY <1>7, <2>1, <2>3, TreeType DEF Dirclean, TypeOK
  <1>8. ASSUME NEW p \in Pkgs, Download(p) \/ Finish(p) PROVE TypeOK'
    <2>1. PICK s \in {"downloaded", "installed"} :
            Starts(p, s) /\ Touch(p, s) /\ UNCHANGED <<tree, obj, out>>
      BY <1>8 DEF Download, Finish
    <2> QED
      BY <2>1, TouchType DEF TypeOK, Steps
  <1>9. ASSUME NEW p \in Pkgs, Extract(p) \/ Patch(p) \/ Rsync(p) \/ Configure(p) PROVE TypeOK'
    <2>1. PICK s \in {"extracted", "patched", "rsynced", "configured"} :
            Starts(p, s) /\ Touch(p, s) /\ UNCHANGED <<obj, out>>
      BY <1>9 DEF Extract, Patch, Rsync, Configure
    <2>2. /\ tree[p] \in Trees(p) /\ src[p] \in 1 .. MaxRev
          /\ NumPatches[p] \in Nat
      BY StampsAssumption DEF TypeOK
    <2>3. PICK t \in Trees(p) : Tree(p, t)
      <3>1. CASE Extract(p)
        <4>1. 0 \in 0 .. NumPatches[p] /\ TRUE \in BOOLEAN
          BY <2>2
        <4>2. [tree[p] EXCEPT !.whole = TRUE, !.applied = 0] \in Trees(p)
          BY <2>2, <4>1, TreesUpdate
        <4> QED
          BY <3>1, <4>2 DEF Extract
      <3>2. CASE Patch(p)
        <4>1. NumPatches[p] \in 0 .. NumPatches[p]
          BY <2>2
        <4>2. [tree[p] EXCEPT !.applied = NumPatches[p], !.listed = NumPatches[p]] \in Trees(p)
          BY <2>2, <4>1, TreesUpdate
        <4> QED
          BY <3>2, <4>2 DEF Patch
      <3>3. CASE Rsync(p)
        BY <2>2, <3>3 DEF Rsync, Trees
      <3>4. CASE Configure(p)
        BY <2>2, <3>4 DEF Configure, Trees
      <3> QED
        BY <1>9, <3>1, <3>2, <3>3, <3>4
    <2> QED
      BY <2>1, <2>3, TouchType, TreeType DEF TypeOK, Steps
  <1>10. ASSUME NEW p \in Pkgs, Build(p) PROVE TypeOK'
    <2>1. Compiled(p) \in Objects \cup {NoProduct}
      BY CompiledType
    <2> QED
      BY <1>10, <2>1, TouchType DEF Build, TypeOK, Steps
  <1>11. ASSUME NEW p \in Pkgs, NEW k \in InstallSteps, Install(p, k) PROVE TypeOK'
    <2>1. MadeOf(obj[p]) \in Sources
      BY <1>11, MadeOfType DEF Install, TypeOK
    <2> QED
      BY <1>11, <2>1, TouchType DEF Install, TypeOK, Steps
  <1>12. ASSUME NEW p \in Pkgs, NEW s \in Steps, Fail(p, s) PROVE TypeOK'
    <2>1. tree[p] \in Trees(p) /\ NumPatches[p] \in Nat
      BY StampsAssumption DEF TypeOK
    <2>2. PICK t \in Trees(p) : Tree(p, t)
      <3>1. CASE s = "patched"
        <4>1. NumPatches[p] > 0
          BY <1>12, <3>1 DEF Fail, Fails, PatchesApply, InstallSteps
        <4> QED
          BY <1>12, <2>1, <3>1, <4>1 DEF Fail, Trees
      <3>2. CASE s # "patched"
        BY <1>12, <2>1, <3>2 DEF Fail
      <3> QED
        BY <3>1, <3>2
    <2> QED
      BY <1>12, <2>2, EndType, TreeType DEF Fail, TypeOK
  <1>13. ASSUME NEW p \in Pkgs, BreakPatch(p) PROVE TypeOK'
    <2>1. tree[p] \in Trees(p) /\ NumPatches[p] \in Nat
      BY StampsAssumption DEF TypeOK
    <2>2. PICK i \in 1 .. NumPatches[p], before \in BOOLEAN, whole \in BOOLEAN :
            Tree(p, [tree[p] EXCEPT !.listed = i, !.whole = whole,
                                    !.applied = IF before THEN i - 1 ELSE i])
      BY <1>13 DEF BreakPatch
    <2>3. PICK t \in Trees(p) : Tree(p, t)
      <3>1. i \in 0 .. NumPatches[p] /\ (IF before THEN i - 1 ELSE i) \in 0 .. NumPatches[p]
        BY <2>1
      <3>2. [tree[p] EXCEPT !.listed = i, !.whole = whole,
                            !.applied = IF before THEN i - 1 ELSE i] \in Trees(p)
        BY <2>1, <3>1, TreesUpdate
      <3> QED
        BY <2>2, <3>2
    <2> QED
      BY <1>13, <2>3, EndType, BrokenType, TreeType DEF BreakPatch, Broken, TypeOK
  <1>14. ASSUME NEW p \in Pkgs, NEW s \in Steps, BreakStep(p, s) PROVE TypeOK'
    <2>1. Compiled(p) \in Objects \cup {NoProduct}
      BY CompiledType
    <2>2. tree[p] \in Trees(p) /\ NumPatches[p] \in Nat
      BY StampsAssumption DEF TypeOK
    <2>3. CASE (\E t \in Trees(p) : Tree(p, t)) /\ UNCHANGED <<obj, out>>
      BY <1>14, <2>3, EndType, BrokenType, TreeType DEF BreakStep, Broken, TypeOK
    <2>4. CASE /\ \E o \in {NoProduct, Compiled(p)} : obj' = [obj EXCEPT ![p] = o]
               /\ UNCHANGED <<tree, out>>
      BY <1>14, <2>1, <2>4, EndType, BrokenType DEF BreakStep, Broken, TypeOK
    <2>5. CASE /\ s \in InstallSteps
               /\ \E o \in {NoProduct, MadeOf(obj[p])} : out' = [out EXCEPT ![p][s] = o]
               /\ UNCHANGED <<tree, obj>>
      <3>1. MadeOf(obj[p]) \in Sources
        BY <1>14, <2>5, MadeOfType DEF BreakStep, Fails, TypeOK
      <3>2. out' \in [Pkgs -> [InstallSteps -> Sources \cup {NoProduct}]]
        <4>1. PICK o \in {NoProduct, MadeOf(obj[p])} : out' = [out EXCEPT ![p][s] = o]
          BY <2>5
        <4>2. o \in Sources \cup {NoProduct}
          BY <3>1
        <4> QED
          BY <2>5, <4>1, <4>2 DEF TypeOK
      <3> QED
        BY <1>14, <2>5, <3>2, EndType, BrokenType DEF BreakStep, Broken, TypeOK
    <2> QED
      <3>1. /\ 0 \in 0 .. NumPatches[p] /\ tree[p].applied \in 0 .. NumPatches[p]
            /\ FALSE \in BOOLEAN
        BY <2>2 DEF Trees
      <3>2. [tree[p] EXCEPT !.whole = FALSE, !.applied = IF s = "extracted" THEN 0 ELSE @]
              \in Trees(p)
        BY <2>2, <3>1, TreesUpdate
      <3>3. [tree[p] EXCEPT !.conf = FALSE] \in Trees(p)
        BY <2>2, <3>1, TreesUpdate
      <3> QED
        BY <1>14, <2>3, <2>4, <2>5, <3>2, <3>3 DEF BreakStep
  <1>15. ASSUME NEW p \in Pkgs, BreakDirclean(p) PROVE TypeOK'
    <2>1. PICK t \in Trees(p) : Tree(p, t)
      <3>1. tree[p] \in Trees(p) /\ NumPatches[p] \in Nat
        BY StampsAssumption DEF TypeOK
      <3> QED
        <4>1. PICK whole \in {FALSE, tree[p].whole}, conf \in {FALSE, tree[p].conf},
                   listed \in {0, tree[p].listed} :
                Tree(p, [tree[p] EXCEPT !.whole = whole, !.conf = conf, !.listed = listed])
          BY <1>15 DEF BreakDirclean
        <4>2. whole \in BOOLEAN /\ conf \in BOOLEAN
          BY <3>1 DEF Trees
        <4>3. listed \in 0 .. NumPatches[p]
          BY <3>1 DEF Trees
        <4>4. [tree[p] EXCEPT !.whole = whole, !.conf = conf, !.listed = listed] \in Trees(p)
          BY <3>1, <4>2, <4>3, TreesUpdate
        <4> QED
          BY <4>1, <4>4
    <2>2. /\ stamps' \in [Pkgs -> SUBSET Steps] /\ stale' \in [Pkgs -> SUBSET Steps]
          /\ \A q \in Pkgs : stale'[q] \subseteq stamps'[q] /\ stamps'[q] \subseteq Pipeline(q)
      <3>1. PICK left \in SUBSET stamps[p] :
              /\ stamps' = [stamps EXCEPT ![p] = left]
              /\ stale' = [stale EXCEPT ![p] = @ \cap left]
        BY <1>15 DEF BreakDirclean
      <3> QED
        BY <3>1 DEF TypeOK
    <2>3. obj' \in [Pkgs -> Objects \cup {NoProduct}]
      BY <1>15 DEF BreakDirclean, TypeOK
    <2> QED
      BY <1>15, <2>1, <2>2, <2>3, EndType, BrokenType, TreeType DEF BreakDirclean, Broken, TypeOK
  <1>16. ASSUME NEW p \in Pkgs, Edit(p) PROVE TypeOK'
    <2>1. MaxRev \in Nat /\ src[p] \in 1 .. MaxRev /\ src[p] < MaxRev
      BY <1>16, StampsAssumption DEF Edit, TypeOK
    <2>2. src' \in [Pkgs -> 1 .. MaxRev]
      <3>1. src[p] + 1 \in 1 .. MaxRev
        BY <2>1
      <3>2. src' = [src EXCEPT ![p] = src[p] + 1]
        BY <1>16 DEF Edit
      <3> QED
        BY <3>1, <3>2 DEF TypeOK
    <2> QED
      BY <1>16, <2>2 DEF Edit, TypeOK
  <1>17. CASE UNCHANGED vars
    BY <1>17 DEF vars, TypeOK
  <1> QED
    BY <1>1, <1>2, <1>3, <1>4, <1>5, <1>6, <1>7, <1>8, <1>9, <1>10, <1>11, <1>12, <1>13, <1>14,
       <1>15, <1>16, <1>17 DEF Next

\* Every variable of the packages and of the command keeps its type, for any packages,
\* dependencies, commands and bounds.
THEOREM TypeCorrect == Spec => []TypeOK
  <1>1. Init => TypeOK
    BY InitType
  <1>2. TypeOK /\ [Next]_vars => TypeOK'
    BY NextType
  <1> QED
    BY <1>1, <1>2, PTL DEF Spec

-----------------------------------------------------------------------------
(* Each patch exactly once. *)

Patched(p) == tree[p].whole => tree[p].applied = NumPatches[p]

\* make considers what a target needs before the target.
DoneClosed == \A t \in done : Prerequisites(t) \subseteq done

\* An override directory is never patched; the sources of any other package are patched
\* while a valid .stamp_patched stands, and from the moment make has considered that step.
SourcesArePatched ==
  \A p \in Pkgs :
    /\ p \in Override => tree[p].applied = 0
    /\ p \notin Override /\ UpToDate(p, "patched") => Patched(p)
    /\ p \notin Override /\ <<p, "patched">> \in done => Patched(p)

ObjectsArePatched == \A p \in Pkgs : obj[p] # NoProduct => obj[p].applied = NumPatches[p]

PatchInv == TypeOK /\ DoneClosed /\ SourcesArePatched /\ ObjectsArePatched /\ PatchedOnce

LEMMA InitPatched == Init => PatchInv
  <1> SUFFICES ASSUME Init PROVE PatchInv
    OBVIOUS
  <1>1. DoneClosed
    BY DEF Init, DoneClosed
  <1>2. SourcesArePatched
    BY DEF Init, SourcesArePatched, UpToDate, EmptyTree
  <1>3. ObjectsArePatched /\ PatchedOnce
    BY DEF Init, ObjectsArePatched, PatchedOnce
  <1> QED
    BY <1>1, <1>2, <1>3, InitType DEF PatchInv

\* A step adds at most one target to those considered, after what it needs.
LEMMA DoneStep ==
  ASSUME [Next]_vars
  PROVE  \/ done' = done \/ done' = {}
         \/ \E t : done' = done \cup {t} /\ Prerequisites(t) \subseteq done
  <1>1. ASSUME NEW p \in Pkgs, NEW s, Starts(p, s), Touch(p, s)
        PROVE  \E t : done' = done \cup {t} /\ Prerequisites(t) \subseteq done
    BY <1>1 DEF Starts, Reaches, Touch
  <1>2. CASE \E p \in Pkgs : \/ Download(p) \/ Extract(p) \/ Patch(p) \/ Rsync(p) \/ Configure(p)
                            \/ Build(p) \/ Finish(p) \/ (\E k \in InstallSteps : Install(p, k))
    BY <1>1, <1>2 DEF Download, Extract, Patch, Rsync, Configure, Build, Finish, Install
  <1>3. CASE \E p \in Pkgs : \/ Dirclean(p) \/ (\E c \in Cleans : Clean(p, c))
                            \/ (\E s \in Steps : Skip(p, s))
    BY <1>3 DEF Dirclean, Clean, Skip, Reaches
  <1>4. CASE \/ NextGoal \/ Remove \/ Kill \/ (\E cmd \in Commands : Make(cmd)) \/ UNCHANGED vars
    BY <1>4 DEF NextGoal, Remove, Kill, Broken, End, Make, vars
  <1>5. CASE \E p \in Pkgs : \/ BreakPatch(p) \/ BreakDirclean(p) \/ Edit(p)
                            \/ (\E s \in Steps : Fail(p, s) \/ BreakStep(p, s))
    BY <1>5 DEF BreakPatch, BreakDirclean, Edit, Fail, BreakStep, Broken, End
  <1> QED
    BY <1>2, <1>3, <1>4, <1>5 DEF Next

LEMMA ClosedStep == DoneClosed /\ [Next]_vars => DoneClosed'
  BY DoneStep DEF DoneClosed

\* A step other than the patch step makes no .stamp_patched valid, and is not that step.
LEMMA TouchOther ==
  ASSUME NEW p \in Pkgs, NEW s, Touch(p, s), s # "patched", NEW q \in Pkgs, TypeOK
  PROVE  /\ UpToDate(q, "patched")' => UpToDate(q, "patched")
         /\ <<q, "patched">> \in done' => <<q, "patched">> \in done
  BY DEF Touch, UpToDate, TypeOK

\* The stamp of an extraction outdates that of the patch step.
LEMMA ExtractOutdates ==
  ASSUME NEW p \in Pkgs, Touch(p, "extracted"), TypeOK
  PROVE  ~UpToDate(p, "patched")'
  <1>1. "extracted" \in Needs(p, "patched")
    BY DEF Needs, InstallSteps
  <1> QED
    BY <1>1 DEF Touch, UpToDate, TypeOK

\* What is compiled has its patches: the patch step was considered before.
LEMMA CompiledIsPatched ==
  ASSUME PatchInv, NEW p \in Pkgs, Starts(p, "built"), tree[p].whole, Compiled(p) # NoProduct
  PROVE  Compiled(p).applied = NumPatches[p]
  <1>1. tree[p].applied = NumPatches[p]
    <2>1. CASE p \in Override
      BY <2>1, StampsAssumption DEF PatchInv, SourcesArePatched
    <2>2. CASE p \notin Override
      <3>1. <<p, "configured">> \in done
        BY DEF Starts, Reaches, Prerequisites, Needs, InstallSteps
      <3>2. "patched" \in Needs(p, "configured")
        <4>1. Needs(p, "configured") = {"patched"} \cap Pipeline(p)
          BY DEF Needs, InstallSteps
        <4> QED
          BY <2>2, <4>1 DEF Pipeline
      <3>3. <<p, "patched">> \in done
        BY <3>1, <3>2 DEF PatchInv, DoneClosed, Prerequisites
      <3> QED
        BY <2>2, <3>3 DEF PatchInv, SourcesArePatched, Patched
    <2> QED
      BY <2>1, <2>2
  <1> QED
    BY <1>1 DEF Compiled, PatchInv, ObjectsArePatched

LEMMA SourcesStep == PatchInv /\ [Next]_vars => SourcesArePatched'
  <1> SUFFICES ASSUME PatchInv, [Next]_vars, NEW q \in Pkgs
               PROVE  /\ q \in Override => tree[q].applied' = 0
                      /\ q \notin Override /\ UpToDate(q, "patched")' => Patched(q)'
                      /\ q \notin Override /\ <<q, "patched">> \in done' => Patched(q)'
    BY DEF SourcesArePatched
  <1> DEFINE Goal == /\ q \in Override => tree[q].applied' = 0
                     /\ q \notin Override /\ UpToDate(q, "patched")' => Patched(q)'
                     /\ q \notin Override /\ <<q, "patched">> \in done' => Patched(q)'
  <1>0. /\ TypeOK
        /\ tree[q] \in Trees(q) /\ NumPatches[q] \in Nat
        /\ q \in Override => tree[q].applied = 0
        /\ q \notin Override /\ UpToDate(q, "patched") => Patched(q)
        /\ q \notin Override /\ <<q, "patched">> \in done => Patched(q)
    BY StampsAssumption DEF PatchInv, SourcesArePatched, TypeOK
  \* Nothing becomes valid or considered, and the sources keep their patches.
  <1>a. ASSUME /\ tree'[q].applied = tree[q].applied /\ (tree'[q].whole => tree[q].whole)
               /\ UpToDate(q, "patched")' => UpToDate(q, "patched")
               /\ <<q, "patched">> \in done' => <<q, "patched">> \in done
        PROVE  Goal
    BY <1>0, <1>a DEF Patched
  <1>b. ASSUME UNCHANGED <<stamps, stale>> PROVE UpToDate(q, "patched")' = UpToDate(q, "patched")
    BY <1>b DEF UpToDate
  <1>c. ASSUME NEW p \in Pkgs, p # q, NEW t, Tree(p, t) PROVE tree'[q] = tree[q]
    BY <1>0, <1>c DEF Tree, TypeOK
  <1>d. ASSUME NEW t, Tree(q, t) PROVE tree'[q] = t
    BY <1>0, <1>d DEF Tree, TypeOK
  <1>1. CASE \/ NextGoal \/ Kill \/ (\E cmd \in Commands : Make(cmd)) \/ UNCHANGED vars
             \/ (\E p \in Pkgs : Edit(p) \/ \E c \in Cleans : Clean(p, c))
    <2>1. UNCHANGED <<stamps, stale, tree>>
      BY <1>1 DEF NextGoal, Kill, Make, vars, Edit, Clean
    <2>2. <<q, "patched">> \in done' => <<q, "patched">> \in done
      <3>1. CASE NextGoal \/ Kill
        BY <3>1 DEF NextGoal, Kill, Broken, End
      <3>2. CASE \/ (\E cmd \in Commands : Make(cmd)) \/ UNCHANGED vars
                 \/ (\E p \in Pkgs : Edit(p))
        BY <3>2 DEF Make, vars, Edit
      <3>3. ASSUME NEW p \in Pkgs, NEW c \in Cleans, Clean(p, c)
            PROVE  <<q, "patched">> \in done' => <<q, "patched">> \in done
        BY <3>3 DEF Clean, Cleans
      <3> QED
        BY <1>1, <3>1, <3>2, <3>3
    <2> QED
      BY <1>a, <1>b, <2>1, <2>2
  <1>2. CASE Remove
    <2>1. UpToDate(q, "patched")' => UpToDate(q, "patched")
      BY <1>0, <1>2 DEF Remove, UpToDate, TypeOK
    <2> QED
      BY <1>a, <1>2, <2>1 DEF Remove
  <1>3. ASSUME NEW p \in Pkgs, NEW s \in Steps, Skip(p, s) PROVE Goal
    <2>1. UNCHANGED <<stamps, stale, tree>>
      BY <1>3 DEF Skip
    <2>2. CASE p = q /\ s = "patched"
      BY <1>0, <1>3, <1>b, <2>1, <2>2 DEF Skip, Patched
    <2>3. CASE ~(p = q /\ s = "patched")
      <3>1. <<q, "patched">> \in done' => <<q, "patched">> \in done
        BY <1>3, <2>3 DEF Skip
      <3> QED
        BY <1>a, <1>b, <2>1, <3>1
    <2> QED
      BY <2>2, <2>3
  <1>4. ASSUME NEW p \in Pkgs, Dirclean(p) PROVE Goal
    <2>1. CASE p = q
      <3>1. tree'[q] = EmptyTree
        BY <1>4, <1>d, <2>1 DEF Dirclean
      <3> QED
        BY <3>1 DEF EmptyTree, Patched
    <2>2. CASE p # q
      <3>1. tree'[q] = tree[q]
        BY <1>4, <1>c, <2>2 DEF Dirclean
      <3>2. UpToDate(q, "patched")' => UpToDate(q, "patched")
        BY <1>0, <1>4, <2>2 DEF Dirclean, UpToDate, TypeOK
      <3>3. <<q, "patched">> \in done' => <<q, "patched">> \in done
        BY <1>4 DEF Dirclean
      <3> QED
        BY <1>a, <3>1, <3>2, <3>3
    <2> QED
      BY <2>1, <2>2
  <1>5. ASSUME NEW p \in Pkgs,
               Download(p) \/ Build(p) \/ Finish(p) \/ (\E k \in InstallSteps : Install(p, k))
        PROVE  Goal
    <2>1. PICK s : s # "patched" /\ Touch(p, s) /\ UNCHANGED tree
      BY <1>5 DEF Download, Build, Finish, Install, InstallSteps
    <2> QED
      BY <1>0, <1>a, <2>1, TouchOther
  <1>6. ASSUME NEW p \in Pkgs, Extract(p) PROVE Goal
    <2>1. /\ UpToDate(q, "patched")' => UpToDate(q, "patched")
          /\ <<q, "patched">> \in done' => <<q, "patched">> \in done
      BY <1>0, <1>6, TouchOther DEF Extract
    <2>2. CASE p = q
      <3>1. tree'[q] = [tree[q] EXCEPT !.whole = TRUE, !.applied = 0]
        BY <1>6, <1>d, <2>2 DEF Extract
      <3>2. tree'[q].applied = 0
        BY <1>0, <3>1 DEF Trees
      <3>3. ~UpToDate(q, "patched")'
        BY <1>0, <1>6, <2>2, ExtractOutdates DEF Extract
      <3>4. <<q, "patched">> \notin done
        <4>1. "extracted" \in Needs(q, "patched")
          BY DEF Needs, InstallSteps
        <4>2. <<q, "extracted">> \in Prerequisites(<<q, "patched">>)
          BY <4>1 DEF Prerequisites
        <4>3. <<q, "extracted">> \notin done
          BY <1>6, <2>2 DEF Extract, Starts, Reaches
        <4> QED
          BY <4>2, <4>3 DEF PatchInv, DoneClosed
      <3> QED
        BY <2>1, <3>2, <3>3, <3>4
    <2>3. CASE p # q
      <3>1. tree'[q] = tree[q]
        BY <1>6, <1>c, <2>3 DEF Extract
      <3> QED
        BY <1>a, <2>1, <3>1
    <2> QED
      BY <2>2, <2>3
  <1>7. ASSUME NEW p \in Pkgs, Patch(p) PROVE Goal
    <2>1. CASE p = q
      <3>1. tree'[q] = [tree[q] EXCEPT !.applied = NumPatches[q], !.listed = NumPatches[q]]
        BY <1>7, <1>d, <2>1 DEF Patch
      <3>2. tree'[q].applied = NumPatches[q]
        BY <1>0, <3>1 DEF Trees
      <3> QED
        BY <3>2, StampsAssumption DEF Patched
    <2>2. CASE p # q
      <3>1. tree'[q] = tree[q]
        BY <1>7, <1>c, <2>2 DEF Patch
      <3>2. UpToDate(q, "patched")' => UpToDate(q, "patched")
        BY <1>0, <1>7, <2>2 DEF Patch, Touch, UpToDate, TypeOK
      <3>3. <<q, "patched">> \in done' => <<q, "patched">> \in done
        BY <1>7, <2>2 DEF Patch, Touch
      <3> QED
        BY <1>a, <3>1, <3>2, <3>3
    <2> QED
      BY <2>1, <2>2
  <1>8. ASSUME NEW p \in Pkgs, Rsync(p) PROVE Goal
    <2>1. /\ UpToDate(q, "patched")' => UpToDate(q, "patched")
          /\ <<q, "patched">> \in done' => <<q, "patched">> \in done
      BY <1>0, <1>8, TouchOther DEF Rsync
    <2>2. CASE p = q
      <3>1. q \in Override
        <4>1. "rsynced" \in Pipeline(q)
          BY <1>8, <2>2, StepInPipeline DEF Rsync, Starts, Steps
        <4> QED
          BY <4>1, StampsAssumption DEF Pipeline, InstallSteps
      <3>2. tree'[q].applied = tree[q].applied
        BY <1>0, <1>8, <1>d, <2>2 DEF Rsync, Trees
      <3> QED
        BY <1>0, <3>1, <3>2
    <2>3. CASE p # q
      <3>1. tree'[q] = tree[q]
        BY <1>8, <1>c, <2>3 DEF Rsync
      <3> QED
        BY <1>a, <2>1, <3>1
    <2> QED
      BY <2>2, <2>3
  <1>9. ASSUME NEW p \in Pkgs, Configure(p) PROVE Goal
    <2>1. /\ UpToDate(q, "patched")' => UpToDate(q, "patched")
          /\ <<q, "patched">> \in done' => <<q, "patched">> \in done
      BY <1>0, <1>9, TouchOther DEF Configure
    <2>2. tree'[q].applied = tree[q].applied /\ tree'[q].whole = tree[q].whole
      BY <1>0, <1>9, <1>c, <1>d DEF Configure, Trees
    <2> QED
      BY <1>a, <2>1, <2>2
  \* The end of a command forgets what it considered.
  <1>e. ASSUME End PROVE <<q, "patched">> \notin done'
    BY <1>e DEF End
  <1>10. ASSUME NEW p \in Pkgs, NEW s \in Steps, Fail(p, s) PROVE Goal
    <2>1. tree'[q].applied = tree[q].applied /\ tree'[q].whole = tree[q].whole
      BY <1>0, <1>10, <1>c, <1>d DEF Fail, Trees
    <2>2. UNCHANGED <<stamps, stale>> /\ End
      BY <1>10 DEF Fail
    <2> QED
      BY <1>a, <1>b, <1>e, <2>1, <2>2
  <1>11. ASSUME NEW p \in Pkgs, BreakPatch(p) PROVE Goal
    <2>1. UNCHANGED <<stamps, stale>> /\ End /\ ~UpToDate(p, "patched")
      BY <1>11 DEF BreakPatch, Broken, Starts
    <2>2. CASE p = q
      <3>1. q \notin Override
        BY <1>11, <2>2, StampsAssumption DEF BreakPatch
      <3> QED
        BY <1>b, <1>e, <2>1, <2>2, <3>1
    <2>3. CASE p # q
      <3>1. tree'[q] = tree[q]
        BY <1>11, <1>c, <2>3 DEF BreakPatch
      <3> QED
        BY <1>a, <1>b, <1>e, <2>1, <3>1
    <2> QED
      BY <2>2, <2>3
  <1>12. ASSUME NEW p \in Pkgs, NEW s \in Steps, BreakStep(p, s) PROVE Goal
    <2>1. UNCHANGED <<stamps, stale>> /\ End
      BY <1>12 DEF BreakStep, Broken
    <2>2. CASE UNCHANGED tree
      BY <1>a, <1>b, <1>e, <2>1, <2>2
    <2>3. CASE Tree(p, [tree[p] EXCEPT !.conf = FALSE])
      <3>1. tree'[q].applied = tree[q].applied /\ tree'[q].whole = tree[q].whole
        BY <1>0, <1>c, <1>d, <2>3 DEF Trees
      <3> QED
        BY <1>a, <1>b, <1>e, <2>1, <3>1
    <2>4. CASE Tree(p, [tree[p] EXCEPT !.whole = FALSE,
                                       !.applied = IF s = "extracted" THEN 0 ELSE @])
      <3>1. CASE p = q
        <4>1. tree'[q].whole = FALSE /\ tree'[q].applied \in {0, tree[q].applied}
          BY <1>0, <1>d, <2>4, <3>1 DEF Trees
        <4> QED
          BY <1>0, <4>1 DEF Patched
      <3>2. CASE p # q
        BY <1>a, <1>b, <1>c, <1>e, <2>1, <2>4, <3>2
      <3> QED
        BY <3>1, <3>2
    <2> QED
      BY <1>12, <2>2, <2>3, <2>4 DEF BreakStep
  <1>13. ASSUME NEW p \in Pkgs, BreakDirclean(p) PROVE Goal
    <2>1. End
      BY <1>13 DEF BreakDirclean, Broken
    <2>2. UpToDate(q, "patched")' => UpToDate(q, "patched")
      <3>1. PICK left \in SUBSET stamps[p] :
              /\ stamps' = [stamps EXCEPT ![p] = left]
              /\ stale' = [stale EXCEPT ![p] = @ \cap left]
        BY <1>13 DEF BreakDirclean
      <3> QED
        BY <1>0, <3>1 DEF UpToDate, TypeOK
    <2>3. tree'[q].applied = tree[q].applied /\ (tree'[q].whole => tree[q].whole)
      <3>1. PICK whole \in {FALSE, tree[p].whole}, conf \in {FALSE, tree[p].conf},
                 listed \in {0, tree[p].listed} :
              Tree(p, [tree[p] EXCEPT !.whole = whole, !.conf = conf, !.listed = listed])
        BY <1>13 DEF BreakDirclean
      <3>2. CASE p = q
        <4>1. tree'[q] = [tree[q] EXCEPT !.whole = whole, !.conf = conf, !.listed = listed]
          BY <1>d, <3>1, <3>2
        <4> QED
          BY <1>0, <3>1, <3>2, <4>1 DEF Trees
      <3>3. CASE p # q
        BY <1>c, <3>1, <3>3
      <3> QED
        BY <3>2, <3>3
    <2> QED
      BY <1>a, <1>e, <2>1, <2>2, <2>3
  <1> QED
    BY <1>1, <1>2, <1>3, <1>4, <1>5, <1>6, <1>7, <1>8, <1>9, <1>10, <1>11, <1>12, <1>13 DEF Next


LEMMA ProductsStep == PatchInv /\ [Next]_vars => ObjectsArePatched' /\ PatchedOnce'
  <1> SUFFICES ASSUME PatchInv, [Next]_vars PROVE ObjectsArePatched' /\ PatchedOnce'
    OBVIOUS
  <1>0. TypeOK /\ ObjectsArePatched /\ PatchedOnce
    BY DEF PatchInv
  <1>1. CASE UNCHANGED <<obj, out>>
    BY <1>0, <1>1 DEF ObjectsArePatched, PatchedOnce
  <1>2. ASSUME NEW p \in Pkgs, UNCHANGED out,
               NEW o, obj' = [obj EXCEPT ![p] = o], o # NoProduct => o.applied = NumPatches[p]
        PROVE  ObjectsArePatched' /\ PatchedOnce'
    BY <1>0, <1>2 DEF ObjectsArePatched, PatchedOnce, TypeOK
  <1>3. ASSUME NEW p \in Pkgs, NEW k \in InstallSteps, obj[p] # NoProduct, UNCHANGED obj,
               NEW o \in {NoProduct, MadeOf(obj[p])}, out' = [out EXCEPT ![p][k] = o]
        PROVE  ObjectsArePatched' /\ PatchedOnce'
    <2>1. o # NoProduct => o.applied = NumPatches[p]
      BY <1>0, <1>3 DEF ObjectsArePatched, MadeOf
    <2>2. PatchedOnce'
      BY <1>0, <1>3, <2>1 DEF PatchedOnce, TypeOK
    <2> QED
      BY <1>0, <1>3, <2>2 DEF ObjectsArePatched
  <1>4. ASSUME NEW p \in Pkgs, Build(p) PROVE ObjectsArePatched' /\ PatchedOnce'
    BY <1>2, <1>4, CompiledIsPatched DEF Build
  <1>5. ASSUME NEW p \in Pkgs, NEW k \in InstallSteps, Install(p, k)
        PROVE  ObjectsArePatched' /\ PatchedOnce'
    BY <1>3, <1>5 DEF Install
  <1>6. ASSUME NEW p \in Pkgs, NEW s \in Steps, BreakStep(p, s)
        PROVE  ObjectsArePatched' /\ PatchedOnce'
    <2>1. CASE /\ s = "built"
               /\ \E o \in {NoProduct, Compiled(p)} : obj' = [obj EXCEPT ![p] = o]
               /\ UNCHANGED <<tree, out>>
      <3>1. Starts(p, "built") /\ tree[p].whole
        BY <1>6, <2>1 DEF BreakStep, Fails
      <3> QED
        BY <1>2, <2>1, <3>1, CompiledIsPatched
    <2>2. CASE /\ s \in InstallSteps
               /\ \E o \in {NoProduct, MadeOf(obj[p])} : out' = [out EXCEPT ![p][s] = o]
               /\ UNCHANGED <<tree, obj>>
      <3>1. obj[p] # NoProduct
        BY <1>6, <2>2 DEF BreakStep, Fails
      <3> QED
        BY <1>3, <2>2, <3>1
    <2> QED
      BY <1>1, <1>6, <2>1, <2>2 DEF BreakStep
  <1>7. ASSUME NEW p \in Pkgs, Dirclean(p) PROVE ObjectsArePatched' /\ PatchedOnce'
    BY <1>2, <1>7 DEF Dirclean
  <1>8. ASSUME NEW p \in Pkgs, BreakDirclean(p) PROVE ObjectsArePatched' /\ PatchedOnce'
    <2>1. PICK o \in {NoProduct, obj[p]} : obj' = [obj EXCEPT ![p] = o]
      BY <1>8 DEF BreakDirclean
    <2>2. o # NoProduct => o.applied = NumPatches[p]
      BY <1>0, <2>1 DEF ObjectsArePatched
    <2> QED
      BY <1>2, <1>8, <2>1, <2>2 DEF BreakDirclean
  <1>9. CASE \/ NextGoal \/ Remove \/ Kill \/ (\E cmd \in Commands : Make(cmd)) \/ UNCHANGED vars
             \/ \E p \in Pkgs :
                  \/ Download(p) \/ Extract(p) \/ Patch(p) \/ Rsync(p) \/ Configure(p) \/ Finish(p)
                  \/ BreakPatch(p) \/ Edit(p) \/ (\E c \in Cleans : Clean(p, c))
                  \/ (\E s \in Steps : Skip(p, s) \/ Fail(p, s))
    BY <1>1, <1>9 DEF NextGoal, Remove, Kill, Make, vars, Download, Extract, Patch, Rsync, Configure,
       Finish, BreakPatch, Edit, Clean, Skip, Fail
  <1> QED
    BY <1>4, <1>5, <1>6, <1>7, <1>8, <1>9 DEF Next

\* Nothing is ever installed that was made from sources with a patch missing, however often
\* commands are broken off, recipes fail and directories are removed in part.
THEOREM InstalledIsPatched == Spec => []PatchedOnce
  <1>1. Init => PatchInv
    BY InitPatched
  <1>2. PatchInv /\ [Next]_vars => PatchInv'
    BY NextType, ClosedStep, SourcesStep, ProductsStep DEF PatchInv
  <1>3. PatchInv => PatchedOnce
    BY DEF PatchInv
  <1> QED
    BY <1>1, <1>2, <1>3, PTL DEF Spec

-----------------------------------------------------------------------------
(***************************************************************************)
(* What make's order of the goals and of the steps gives: the properties   *)
(* of PkgStamps that hold of a command in which no package is cleaned      *)
(* after something made it.  make considers a target once per command, so  *)
(* in `make app app-rebuild' the steps that app-rebuild clears would not   *)
(* run again.                                                              *)
(***************************************************************************)

Untouched(p) == \A s \in Steps : <<p, s>> \notin done

RemovedBy(c) == {Removes(c)[i] : i \in DOMAIN Removes(c)}

(***************************************************************************)
(* A package is not touched before its cleans are over, so what make has   *)
(* considered stays up to date until the end of the command.               *)
(***************************************************************************)
CleansAhead ==
  /\ Ordered(goals)
  /\ \A j \in DOMAIN goals : goals[j][2] \in Cleans => Untouched(goals[j][1])
RemovesRunning ==
  rms # <<>> =>
    /\ Making /\ Head(goals)[2] \in Cleans
    /\ \E c \in Cleans :
         /\ <<Head(goals)[1], c>> \in done
         /\ \A i \in DOMAIN rms : rms[i][1] = Head(goals)[1] /\ rms[i][2] \in RemovedBy(c)
DoneIsUpToDate == \A p \in Pkgs, s \in Steps : <<p, s>> \in done => UpToDate(p, s)
OrderInv == CleansAhead /\ RemovesRunning /\ DoneIsUpToDate

(***************************************************************************)
(* Stamps go from the last step to the first.                              *)
(***************************************************************************)
InstalledGoesFirst ==
  \A i \in DOMAIN rms : rms[i][2] = "installed" => \A j \in 1 .. i - 1 : rms[j][2] = "rsynced"
CleanedAreGone ==
  \A p \in Pkgs, c \in Cleans : <<p, c>> \in done /\ Untouched(p) =>
    \A s \in RemovedBy(c) \cap stamps[p] : \E i \in DOMAIN rms : rms[i] = <<p, s>>
CleanInv == InstalledGoesFirst /\ CleanedAreGone

(***************************************************************************)
(* The build directory of a package none of whose steps was torn.          *)
(***************************************************************************)
StampsClosed(p) ==
  \A s \in stamps[p] :
    Needs(p, s) \subseteq
      stamps[p] \cup (IF s = "target_installed" THEN {"staging_installed"} ELSE {})
OnlyTargetStale(p) ==
  /\ stale[p] \subseteq {"target_installed"}
  /\ "target_installed" \in stale[p] => "installed" \notin stamps[p]
StampsAreTrue(p) ==
  /\ {"extracted", "rsynced"} \cap stamps[p] # {} => tree[p].whole
  /\ "configured" \in stamps[p] => tree[p].conf
  /\ "patched" \notin stamps[p] => tree[p].applied = 0 /\ tree[p].listed = 0
  /\ "built" \in stamps[p] => obj[p] # NoProduct
Sound(p) == StampsClosed(p) /\ OnlyTargetStale(p) /\ StampsAreTrue(p)
SoundInv == \A p \in Pkgs \ torn : Sound(p)

\* Install stamps younger than the build's say where its result is.
InstalledInv ==
  \A p \in Pkgs : UpToDate(p, "built") /\ obj[p] # NoProduct =>
    \A k \in Installs[p] : UpToDate(p, k) => out[p][k] = MadeOf(obj[p])

\* After -rebuild has begun, .stamp_rsynced means that the sources were copied since.
CopyInv ==
  /\ \A p \in Pkgs : Making => asked[p] <= src[p]
  /\ \A p \in Pkgs : <<p, "clean-for-reinstall">> \in done /\ "rsynced" \in stamps[p] =>
       \/ rms # <<>> /\ Head(rms) = <<p, "rsynced">>
       \/ tree[p].whole /\ tree[p].rev >= asked[p]

-----------------------------------------------------------------------------
(* What make wants, and what a clean removes. *)

LEMMA RemovedSets ==
  /\ RemovedBy("clean-for-reinstall") = {"rsynced", "installed"} \cup InstallSteps
  /\ RemovedBy("clean-for-rebuild") = {"built"}
  /\ RemovedBy("clean-for-reconfigure") = {"configured"}
  /\ RemovedBy("dircleaned") = {}
  BY DEF RemovedBy, Removes, InstallSteps

LEMMA StepsAndCleans == Steps \cap Cleans = {}
  BY DEF Steps, Cleans, InstallSteps

\* A step is made for a goal that installs, and no clean of its package is to follow.
LEMMA StepsWanted ==
  ASSUME TypeOK, CleansAhead, NEW p \in Pkgs, NEW s \in Steps, Reaches(<<p, s>>)
  PROVE  /\ rms = <<>> /\ Head(goals)[2] = "installed"
         /\ \A j \in DOMAIN goals : goals[j][2] \in Cleans => goals[j][1] # p
  <1>1. /\ Making /\ rms = <<>> /\ Head(goals) = goals[1] /\ 1 \in DOMAIN goals
        /\ DOMAIN goals = 1 .. Len(goals) /\ Len(goals) \in Nat
    BY DEF TypeOK, Reaches, Making
  <1>2. /\ goals[1][2] = "installed"
        /\ p \in {goals[1][1]} \cup RecursiveDeps[goals[1][1]]
    BY <1>1, StepsAndCleans DEF Reaches, Wants, Cleans
  <1>3. "installed" \notin Cleans
    BY DEF Cleans
  <1> QED
    BY <1>1, <1>2, <1>3 DEF CleansAhead, Ordered

\* A clean is made for a goal that cleans the same package, which is not touched yet.
LEMMA CleansWanted ==
  ASSUME TypeOK, CleansAhead, NEW p \in Pkgs, NEW c \in Cleans, Reaches(<<p, c>>)
  PROVE  /\ Making /\ rms = <<>>
         /\ Head(goals)[1] = p /\ Head(goals)[2] \in Cleans /\ Untouched(p)
  <1>1. Making /\ rms = <<>> /\ Head(goals) = goals[1] /\ 1 \in DOMAIN goals
    BY DEF TypeOK, Reaches, Making
  <1>2. c \notin Pipeline(p)
    BY PipelineSteps
  <1>3. goals[1][1] = p /\ goals[1][2] \in Cleans
    <2>1. Wants(goals[1], <<p, c>>)
      BY <1>1 DEF Reaches
    <2> QED
      BY <1>2, <2>1 DEF Wants, Cleans
  <1> QED
    BY <1>1, <1>3 DEF CleansAhead

\* The steps that end with the touch of a stamp.
LEMMA TouchingSteps ==
  ASSUME NEW p \in Pkgs,
         \/ Download(p) \/ Extract(p) \/ Patch(p) \/ Rsync(p) \/ Configure(p) \/ Build(p)
         \/ Finish(p) \/ \E k \in InstallSteps : Install(p, k)
  PROVE  \E s \in Steps : Starts(p, s) /\ Touch(p, s)
  BY DEF Download, Extract, Patch, Rsync, Configure, Build, Finish, Install, Steps

\* The steps after which no command runs any more.
LEMMA EndingSteps ==
  ASSUME \/ Kill
         \/ \E p \in Pkgs : \/ BreakPatch(p) \/ BreakDirclean(p)
                            \/ \E s \in Steps : Fail(p, s) \/ BreakStep(p, s)
  PROVE  End
  BY DEF Kill, BreakPatch, BreakDirclean, Fail, BreakStep, Broken

LEMMA EndedInv == ASSUME End PROVE OrderInv' /\ CleanInv' /\ CopyInv'
  BY DEF End, OrderInv, CleansAhead, Ordered, RemovesRunning, DoneIsUpToDate, CleanInv,
         InstalledGoesFirst, CleanedAreGone, CopyInv, Making

\* What a stamp that stands waits for stands too.
LEMMA NeedsStand ==
  ASSUME DoneIsUpToDate, NEW p \in Pkgs, NEW s \in Steps, Reaches(<<p, s>>)
  PROVE  \A n \in Needs(p, s) : <<p, n>> \in done /\ UpToDate(p, n)
  <1>1. Needs(p, s) \subseteq Steps
    BY StampsAssumption DEF Needs, Steps, InstallSteps
  <1>2. \A n \in Needs(p, s) : <<p, n>> \in done
    BY DEF Reaches, Prerequisites
  <1> QED
    BY <1>1, <1>2 DEF DoneIsUpToDate

\* No step waits for itself.
LEMMA NeedsNotItself == \A p \in Pkgs, s \in Steps : s \notin Needs(p, s)
  <1> SUFFICES ASSUME NEW p \in Pkgs, NEW s \in Steps PROVE s \notin Needs(p, s)
    OBVIOUS
  <1>1. CASE s = "installed"
    BY <1>1, StampsAssumption DEF Needs, InstallSteps
  <1>2. CASE s \in InstallSteps
    BY <1>2 DEF Needs, InstallSteps
  <1>3. CASE s \in Steps \ ({"installed"} \cup InstallSteps)
    BY <1>3 DEF Needs, Steps, InstallSteps
  <1> QED
    BY <1>1, <1>2, <1>3

-----------------------------------------------------------------------------
(* The order of the goals. *)

LEMMA ConsiderStep ==
  ASSUME TypeOK, OrderInv, NEW p \in Pkgs, NEW s \in Steps, Reaches(<<p, s>>),
         done' = done \cup {<<p, s>>}, UNCHANGED <<goals, rms>>,
         \A t \in done' : t[1] \in Pkgs /\ t[2] \in Steps => UpToDate(t[1], t[2])'
  PROVE  OrderInv'
  <1>1. CleansAhead'
    BY StepsWanted DEF OrderInv, CleansAhead, Untouched
  <1>2. RemovesRunning'
    BY StepsWanted DEF OrderInv, RemovesRunning, Making
  <1>3. DoneIsUpToDate'
    BY DEF DoneIsUpToDate
  <1> QED
    BY <1>1, <1>2, <1>3 DEF OrderInv

LEMMA OrderStep ==
  ASSUME CleansFirst, TypeOK, DoneClosed, OrderInv, [Next]_vars
  PROVE  OrderInv'
  <1>1. ASSUME NEW cmd \in Commands, Make(cmd) PROVE OrderInv'
    BY <1>1 DEF Make, CleansFirst, OrderInv, CleansAhead, Untouched, RemovesRunning, DoneIsUpToDate
  <1>2. CASE NextGoal
    <2>1. CASE End
      BY <2>1, EndedInv
    <2>2. CASE goals' = Tail(goals) /\ UNCHANGED <<done, rms>>
      <3>1. rms' = <<>> /\ UNCHANGED <<stamps, stale>>
        BY <1>2, <2>2 DEF NextGoal
      <3>2. /\ \A j \in DOMAIN goals' : j + 1 \in DOMAIN goals /\ goals'[j] = goals[j + 1]
            /\ \A j \in DOMAIN goals' : j \in Nat
        BY <1>2, <2>2 DEF NextGoal, Making, TypeOK
      <3>3. Ordered(goals')
        <4> SUFFICES ASSUME NEW i \in DOMAIN goals', NEW j \in DOMAIN goals', i < j,
                            goals'[i][2] = "installed", goals'[j][2] \in Cleans
                     PROVE  goals'[j][1] \notin {goals'[i][1]} \cup RecursiveDeps[goals'[i][1]]
          BY DEF Ordered
        <4>1. i + 1 < j + 1
          BY <3>2
        <4> QED
          BY <3>2, <4>1 DEF OrderInv, CleansAhead, Ordered
      <3>4. \A j \in DOMAIN goals' : goals'[j][2] \in Cleans => Untouched(goals'[j][1])
        BY <3>2 DEF OrderInv, CleansAhead
      <3>5. DoneIsUpToDate'
        BY <2>2, <3>1 DEF OrderInv, DoneIsUpToDate, UpToDate
      <3> QED
        BY <2>2, <3>1, <3>3, <3>4, <3>5 DEF OrderInv, CleansAhead, RemovesRunning, Untouched
    <2> QED
      BY <1>2, <2>1, <2>2 DEF NextGoal
  <1>3. CASE Remove
    <2> DEFINE p == Head(rms)[1]
               s == Head(rms)[2]
    <2>1. /\ UNCHANGED <<goals, done>> /\ rms' = Tail(rms)
          /\ stamps' = [stamps EXCEPT ![p] = @ \ {s}]
          /\ stale' = [stale EXCEPT ![p] = @ \ {s}]
          /\ Making /\ rms # <<>>
      BY <1>3 DEF Remove
    <2>2. /\ Head(rms) = rms[1] /\ 1 \in DOMAIN rms
          /\ \A i \in DOMAIN rms' : i + 1 \in DOMAIN rms /\ rms'[i] = rms[i + 1]
      <3>1. rms \in Seq(Pkgs \X Steps)
        BY DEF TypeOK
      <3> QED BY <2>1, <3>1
    <2>3. CleansAhead'
      BY <2>1 DEF OrderInv, CleansAhead, Untouched
    <2>4. RemovesRunning'
      BY <2>1, <2>2 DEF OrderInv, RemovesRunning, Making
    <2>5. Untouched(p)
      <3>1. goals[1] = Head(goals) /\ 1 \in DOMAIN goals
        BY <2>1 DEF Making, TypeOK
      <3> QED
        BY <2>1, <2>2, <3>1 DEF OrderInv, RemovesRunning, CleansAhead
    <2>6. DoneIsUpToDate'
      <3> SUFFICES ASSUME NEW q \in Pkgs, NEW t \in Steps, <<q, t>> \in done
                   PROVE  UpToDate(q, t)'
        BY <2>1 DEF DoneIsUpToDate
      <3>1. q # p
        BY <2>5 DEF Untouched
      <3>2. stamps'[q] = stamps[q] /\ stale'[q] = stale[q]
        BY <2>1, <3>1 DEF TypeOK
      <3> QED
        BY <3>2 DEF OrderInv, DoneIsUpToDate, UpToDate
    <2> QED
      BY <2>3, <2>4, <2>6 DEF OrderInv
  <1>4. CASE Kill \/ \E p \in Pkgs : \/ BreakPatch(p) \/ BreakDirclean(p)
                                     \/ \E s \in Steps : Fail(p, s) \/ BreakStep(p, s)
    BY <1>4, EndingSteps, EndedInv
  <1>5. ASSUME NEW p \in Pkgs, NEW s \in Steps, Skip(p, s) PROVE OrderInv'
    <2>1. \A t \in done' : t[1] \in Pkgs /\ t[2] \in Steps => UpToDate(t[1], t[2])'
      <3> SUFFICES ASSUME NEW t \in done', t[1] \in Pkgs, t[2] \in Steps
                   PROVE  UpToDate(t[1], t[2])
        BY <1>5 DEF Skip, UpToDate
      <3>1. t \in Targets \/ t = <<p, s>>
        BY <1>5 DEF Skip, TypeOK
      <3>2. t = <<t[1], t[2]>>
        BY <3>1 DEF Targets
      <3> QED
        BY <1>5, <3>2 DEF Skip, OrderInv, DoneIsUpToDate
    <2> QED
      BY <1>5, <2>1, ConsiderStep DEF Skip
  <1>6. ASSUME NEW p \in Pkgs, NEW s \in Steps, Starts(p, s), Touch(p, s) PROVE OrderInv'
    <2>1. \A t \in done' : t[1] \in Pkgs /\ t[2] \in Steps => UpToDate(t[1], t[2])'
      <3> SUFFICES ASSUME NEW t \in done', t[1] \in Pkgs, t[2] \in Steps
                   PROVE  UpToDate(t[1], t[2])'
        OBVIOUS
      <3>1. t \in Targets \/ t = <<p, s>>
        BY <1>6 DEF Touch, TypeOK
      <3>2. t = <<t[1], t[2]>>
        BY <3>1 DEF Targets
      <3>3. CASE t = <<p, s>>
        BY <1>6, <3>3, NeedsNotItself DEF Touch, UpToDate, TypeOK
      <3>4. CASE t # <<p, s>>
        <4>1. <<t[1], t[2]>> \in done
          BY <1>6, <3>2, <3>4 DEF Touch
        <4>2. UpToDate(t[1], t[2])
          BY <4>1 DEF OrderInv, DoneIsUpToDate
        <4>3. CASE t[1] # p
          BY <1>6, <4>2, <4>3 DEF Touch, UpToDate, TypeOK
        <4>4. CASE t[1] = p
          <5>1. s \notin Needs(p, t[2])
            BY <1>6, <4>1, <4>4 DEF DoneClosed, Prerequisites, Starts, Reaches
          <5>2. t[2] # s
            BY <3>2, <3>4, <4>4
          <5> QED
            BY <1>6, <4>2, <4>4, <5>1, <5>2 DEF Touch, UpToDate, TypeOK
        <4> QED
          BY <4>3, <4>4
      <3> QED
        BY <3>3, <3>4
    <2> QED
      BY <1>6, <2>1, ConsiderStep DEF Touch, Starts
  <1>7. ASSUME NEW p \in Pkgs, NEW c \in Cleans, Clean(p, c) PROVE OrderInv'
    <2>1. /\ done' = done \cup {<<p, c>>} /\ UNCHANGED <<stamps, stale, goals>>
          /\ rms' = [i \in DOMAIN Removes(c) |-> <<p, Removes(c)[i]>>]
          /\ Making /\ Head(goals)[1] = p /\ Head(goals)[2] \in Cleans
      BY <1>7, CleansWanted DEF Clean, OrderInv
    <2>2. \A q : Untouched(q)' = Untouched(q)
      BY <2>1, StepsAndCleans DEF Untouched
    <2>3. CleansAhead'
      BY <2>1, <2>2 DEF OrderInv, CleansAhead
    <2>4. RemovesRunning'
      BY <2>1 DEF RemovesRunning, RemovedBy, Making
    <2>5. DoneIsUpToDate'
      BY <2>1, StepsAndCleans DEF OrderInv, DoneIsUpToDate, UpToDate
    <2> QED
      BY <2>3, <2>4, <2>5 DEF OrderInv
  <1>8. ASSUME NEW p \in Pkgs, Dirclean(p) PROVE OrderInv'
    <2>1. /\ done' = done \cup {<<p, "dircleaned">>} /\ UNCHANGED <<goals, rms>>
          /\ rms = <<>> /\ Untouched(p)
      BY <1>8, CleansWanted DEF Dirclean, OrderInv, Cleans
    <2>2. \A q : Untouched(q)' = Untouched(q)
      BY <2>1, StepsAndCleans DEF Untouched, Cleans
    <2>3. CleansAhead' /\ RemovesRunning'
      BY <2>1, <2>2 DEF OrderInv, CleansAhead, RemovesRunning
    <2>4. DoneIsUpToDate'
      <3> SUFFICES ASSUME NEW q \in Pkgs, NEW t \in Steps, <<q, t>> \in done'
                   PROVE  UpToDate(q, t)'
        BY DEF DoneIsUpToDate
      <3>1. <<q, t>> \in done /\ q # p
        BY <2>1, StepsAndCleans DEF Untouched, Cleans
      <3>2. stamps'[q] = stamps[q] /\ stale'[q] = stale[q]
        BY <1>8, <3>1 DEF Dirclean, TypeOK
      <3> QED
        BY <3>1, <3>2 DEF OrderInv, DoneIsUpToDate, UpToDate
    <2> QED
      BY <2>3, <2>4 DEF OrderInv
  <1>9. CASE UNCHANGED <<stamps, stale, goals, done, rms>>
    BY <1>9 DEF OrderInv, CleansAhead, Untouched, RemovesRunning, DoneIsUpToDate, UpToDate, Making
  <1>10. ASSUME UNCHANGED vars \/ \E p \in Pkgs : Edit(p)
         PROVE  UNCHANGED <<stamps, stale, goals, done, rms>>
    BY <1>10 DEF vars, Edit
  <1> QED
    BY <1>1, <1>2, <1>3, <1>4, <1>5, <1>6, <1>7, <1>8, <1>9, <1>10, TouchingSteps DEF Next

-----------------------------------------------------------------------------
(* What the clean recipes have removed. *)

LEMMA CleanKeeps ==
  ASSUME CleanInv, NEW p \in Pkgs, TypeOK,
         \A q \in Pkgs \ {p} : stamps'[q] = stamps[q],
         \A q : Untouched(q)' => Untouched(q),
         UNCHANGED rms,
         stamps'[p] = {} \/ (~Untouched(p))',
         \A q \in Pkgs \ {p}, c \in Cleans : <<q, c>> \in done' => <<q, c>> \in done
  PROVE  CleanInv'
  BY DEF CleanInv, InstalledGoesFirst, CleanedAreGone

LEMMA CleanStep ==
  ASSUME TypeOK, OrderInv, CleanInv, [Next]_vars
  PROVE  CleanInv'
  <1>1. ASSUME NEW cmd \in Commands, Make(cmd) PROVE CleanInv'
    BY <1>1 DEF Make, CleanInv, InstalledGoesFirst, CleanedAreGone
  <1>2. CASE Kill \/ (NextGoal /\ End)
             \/ \E p \in Pkgs : \/ BreakPatch(p) \/ BreakDirclean(p)
                                \/ \E s \in Steps : Fail(p, s) \/ BreakStep(p, s)
    BY <1>2, EndingSteps, EndedInv
  <1>3. CASE UNCHANGED <<stamps, done, rms>>
    BY <1>3 DEF CleanInv, InstalledGoesFirst, CleanedAreGone, Untouched
  <1>4. CASE Remove
    <2> DEFINE p == Head(rms)[1]
               s == Head(rms)[2]
    <2>1. /\ UNCHANGED <<goals, done>> /\ rms' = Tail(rms) /\ rms # <<>>
          /\ stamps' = [stamps EXCEPT ![p] = @ \ {s}]
      BY <1>4 DEF Remove
    <2>2. /\ Head(rms) = rms[1] /\ rms[1] = <<p, s>> /\ p \in Pkgs
          /\ \A i \in DOMAIN rms' : i \in Nat /\ i + 1 \in DOMAIN rms /\ rms'[i] = rms[i + 1]
          /\ \A i \in DOMAIN rms \ {1} : i - 1 \in DOMAIN rms' /\ rms'[i - 1] = rms[i]
      <3>1. rms \in Seq(Pkgs \X Steps)
        BY DEF TypeOK
      <3> QED BY <2>1, <3>1
    <2>3. InstalledGoesFirst'
      <3> SUFFICES ASSUME NEW i \in DOMAIN rms', rms'[i][2] = "installed", NEW j \in 1 .. i - 1
                   PROVE  rms'[j][2] = "rsynced"
        BY DEF InstalledGoesFirst
      <3>1. j + 1 \in 1 .. (i + 1) - 1 /\ rms[i + 1][2] = "installed"
        BY <2>2
      <3>2. j \in DOMAIN rms'
        <4>1. rms' \in Seq(Pkgs \X Steps)
          BY <2>1 DEF TypeOK
        <4> QED BY <4>1
      <3> QED BY <2>2, <3>1, <3>2 DEF CleanInv, InstalledGoesFirst
    <2>4. CleanedAreGone'
      <3> SUFFICES ASSUME NEW q \in Pkgs, NEW c \in Cleans, <<q, c>> \in done, Untouched(q),
                          NEW t \in RemovedBy(c) \cap stamps'[q]
                   PROVE  \E i \in DOMAIN rms' : rms'[i] = <<q, t>>
        BY <2>1 DEF CleanedAreGone, Untouched
      <3>1. t \in stamps[q] /\ <<q, t>> # <<p, s>>
        BY <2>1, <2>2 DEF TypeOK
      <3>2. PICK i \in DOMAIN rms : rms[i] = <<q, t>>
        BY <3>1 DEF CleanInv, CleanedAreGone
      <3>3. i # 1
        BY <2>2, <3>1, <3>2
      <3> QED BY <2>2, <3>2, <3>3
    <2> QED
      BY <2>3, <2>4 DEF CleanInv
  <1>5. ASSUME NEW p \in Pkgs, NEW s \in Steps, Skip(p, s) \/ (Starts(p, s) /\ Touch(p, s))
        PROVE  CleanInv'
    <2>1. /\ done' = done \cup {<<p, s>>} /\ UNCHANGED rms
          /\ \A q \in Pkgs \ {p} : stamps'[q] = stamps[q]
      BY <1>5 DEF Skip, Touch, TypeOK
    <2> QED
      BY <2>1, StepsAndCleans, CleanKeeps DEF Untouched
  <1>6. ASSUME NEW p \in Pkgs, NEW c \in Cleans, Clean(p, c) PROVE CleanInv'
    <2>1. /\ done' = done \cup {<<p, c>>} /\ UNCHANGED stamps /\ rms = <<>>
          /\ rms' = [i \in DOMAIN Removes(c) |-> <<p, Removes(c)[i]>>]
      BY <1>6 DEF Clean, Reaches
    <2>2. InstalledGoesFirst'
      BY <2>1 DEF InstalledGoesFirst, Removes, Cleans
    <2>3. CleanedAreGone'
      <3> SUFFICES ASSUME NEW q \in Pkgs, NEW d \in Cleans, <<q, d>> \in done', Untouched(q)',
                          NEW t \in RemovedBy(d) \cap stamps[q]
                   PROVE  \E i \in DOMAIN rms' : rms'[i] = <<q, t>>
        BY <2>1 DEF CleanedAreGone
      <3>1. <<q, d>> = <<p, c>>
        BY <2>1 DEF CleanInv, CleanedAreGone, Untouched
      <3> QED BY <2>1, <3>1 DEF RemovedBy
    <2> QED
      BY <2>2, <2>3 DEF CleanInv
  <1>7. ASSUME NEW p \in Pkgs, Dirclean(p) PROVE CleanInv'
    <2>1. /\ done' = done \cup {<<p, "dircleaned">>} /\ UNCHANGED rms /\ stamps'[p] = {}
          /\ \A q \in Pkgs \ {p} : stamps'[q] = stamps[q]
      BY <1>7 DEF Dirclean, TypeOK
    <2> QED
      BY <2>1, CleanKeeps DEF Untouched
  <1>8. ASSUME UNCHANGED vars \/ (NextGoal /\ ~End) \/ \E p \in Pkgs : Edit(p)
         PROVE  UNCHANGED <<stamps, done, rms>>
    BY <1>8 DEF vars, Edit, NextGoal
  <1> QED
    BY <1>1, <1>2, <1>3, <1>4, <1>5, <1>6, <1>7, <1>8, TouchingSteps DEF Next

-----------------------------------------------------------------------------
(* What a build directory is worth that was not torn. *)

\* A stamp goes before those it waits for.
LEMMA RemovedLast ==
  ASSUME TypeOK, DoneClosed, OrderInv, CleanInv, rms # <<>>,
         NEW p, NEW s, Head(rms) = <<p, s>>
  PROVE  /\ p \in Pkgs /\ s \in {"rsynced", "installed", "built", "configured"} \cup InstallSteps
         /\ \A u \in stamps[p] :
              s \in Needs(p, u) => s = "staging_installed" /\ u = "target_installed"
  <1>1. /\ Head(rms) = rms[1] /\ 1 \in DOMAIN rms /\ p \in Pkgs
        /\ \A i \in DOMAIN rms : i \in Nat /\ (i # 1 => 1 \in 1 .. i - 1)
    <2>1. rms \in Seq(Pkgs \X Steps)
      BY DEF TypeOK
    <2> QED BY <2>1
  <1>2. PICK c \in Cleans : /\ Head(goals)[1] = p /\ <<p, c>> \in done
                            /\ \A i \in DOMAIN rms : rms[i][1] = p /\ rms[i][2] \in RemovedBy(c)
    <2>1. PICK d \in Cleans :
            /\ <<Head(goals)[1], d>> \in done
            /\ \A i \in DOMAIN rms : rms[i][1] = Head(goals)[1] /\ rms[i][2] \in RemovedBy(d)
      BY DEF OrderInv, RemovesRunning
    <2>2. Head(goals)[1] = p
      BY <1>1, <2>1
    <2> QED BY <2>1, <2>2
  <1>3. Untouched(p)
    <2>1. Making /\ Head(goals)[2] \in Cleans
      BY DEF OrderInv, RemovesRunning
    <2>2. Head(goals)[1] = p
      BY <1>2
    <2>3. goals[1] = Head(goals) /\ 1 \in DOMAIN goals
      BY <2>1 DEF Making, TypeOK
    <2> QED BY <2>1, <2>2, <2>3 DEF OrderInv, CleansAhead
  <1>4. s \in RemovedBy(c)
    BY <1>1, <1>2
  <1>5. \A d \in Cleans, u \in Steps :
          <<p, d>> \in done /\ u \in RemovedBy(d) \cap stamps[p] =>
            \E i \in DOMAIN rms : rms[i] = <<p, u>>
    BY <1>1, <1>3 DEF CleanInv, CleanedAreGone
  <1>6. stamps[p] \subseteq Steps
    BY <1>1 DEF TypeOK
  <1>7. CASE c = "clean-for-reinstall"
    <2>1. s \in InstallSteps => "installed" \notin stamps[p]
      <3> SUFFICES ASSUME s \in InstallSteps, "installed" \in stamps[p] PROVE FALSE
        OBVIOUS
      <3>1. PICK i \in DOMAIN rms : rms[i] = <<p, "installed">>
        BY <1>2, <1>5, <1>6, <1>7, RemovedSets
      <3>2. i # 1
        BY <1>1, <3>1 DEF InstallSteps
      <3>3. rms[1][2] = "rsynced"
        BY <1>1, <3>1, <3>2 DEF CleanInv, InstalledGoesFirst
      <3> QED BY <1>1, <3>3 DEF InstallSteps
    <2>2. CASE s \in {"rsynced", "installed"}
      BY <1>1, <1>4, <1>7, <2>2, RemovedSets, StampsAssumption DEF Needs, InstallSteps
    <2>3. CASE s \in InstallSteps
      BY <1>1, <2>1, <2>3 DEF Needs, InstallSteps
    <2> QED BY <1>4, <1>7, <2>2, <2>3, RemovedSets
  <1>8. CASE c = "clean-for-rebuild"
    <2>1. s = "built" /\ \A i \in DOMAIN rms : rms[i][2] = "built"
      BY <1>2, <1>4, <1>8, RemovedSets
    <2>2. <<p, "clean-for-reinstall">> \in done
      BY <1>2, <1>8 DEF DoneClosed, Prerequisites, Before
    <2>3. stamps[p] \cap ({"installed"} \cup InstallSteps) = {}
      BY <1>5, <1>6, <2>1, <2>2, RemovedSets DEF Cleans, InstallSteps
    <2> QED BY <1>1, <2>1, <2>3 DEF Needs, InstallSteps
  <1>9. CASE c = "clean-for-reconfigure"
    <2>1. s = "configured" /\ \A i \in DOMAIN rms : rms[i][2] = "configured"
      BY <1>2, <1>4, <1>9, RemovedSets
    <2>2. <<p, "clean-for-rebuild">> \in done
      BY <1>2, <1>9 DEF DoneClosed, Prerequisites, Before
    <2>3. "built" \notin stamps[p]
      BY <1>5, <1>6, <2>1, <2>2, RemovedSets DEF Cleans
    <2>4. \A u : "configured" \in Needs(p, u) => u = "built"
      BY <1>1, StampsAssumption DEF Needs, InstallSteps
    <2> QED BY <1>1, <2>1, <2>3, <2>4
  <1>10. c # "dircleaned"
    BY <1>4, RemovedSets
  <1> QED
    BY <1>7, <1>8, <1>9, <1>10 DEF Cleans

\* A step of a package that was not torn finds what it needs.
LEMMA SoundDoesNotFail ==
  ASSUME TypeOK, DoneClosed, OrderInv, NEW p \in Pkgs, NEW s \in Steps, Sound(p), Starts(p, s)
  PROVE  ~Fails(p, s)
  <1>1. Reaches(<<p, s>>) /\ Prerequisites(<<p, s>>) \subseteq done
    BY DEF Starts, Reaches
  <1>2. \A t \in Steps : <<p, t>> \in done => UpToDate(p, t)
    BY DEF OrderInv, DoneIsUpToDate
  <1>3. p \notin Override /\ <<p, "patched">> \in done => tree[p].whole
    <2>1. <<p, "patched">> \in done => <<p, "extracted">> \in done
      BY DEF DoneClosed, Prerequisites, Needs, InstallSteps
    <2> QED BY <1>2, <2>1 DEF Sound, StampsAreTrue, UpToDate, Steps
  <1>4. /\ p \in Override => <<p, "rsynced">> \in Prerequisites(<<p, "configured">>)
        /\ p \notin Override => <<p, "patched">> \in Prerequisites(<<p, "configured">>)
    BY DEF Prerequisites, Before, Needs, Pipeline, InstallSteps
  <1>5. Prerequisites(<<p, "configured">>) \subseteq done => tree[p].whole
    <2>1. CASE p \in Override
      BY <1>2, <1>4, <2>1 DEF Sound, StampsAreTrue, UpToDate, Steps
    <2>2. CASE p \notin Override
      BY <1>3, <1>4, <2>2
    <2> QED BY <2>1, <2>2
  <1>6. CASE s = "patched"
    <2>1. <<p, "extracted">> \in done
      BY <1>1, <1>6 DEF Prerequisites, Needs, InstallSteps
    <2>2. tree[p].whole
      BY <1>2, <2>1 DEF Sound, StampsAreTrue, UpToDate, Steps
    <2>3. "patched" \notin stamps[p]
      BY <1>6 DEF Starts, UpToDate, Sound, OnlyTargetStale
    <2> QED BY <1>6, <2>2, <2>3 DEF Fails, PatchesApply, Sound, StampsAreTrue, InstallSteps
  <1>7. CASE s = "configured"
    BY <1>1, <1>5, <1>7 DEF Fails, InstallSteps
  <1>8. CASE s = "built"
    <2>1. <<p, "configured">> \in done
      BY <1>1, <1>8 DEF Prerequisites, Needs, InstallSteps
    <2>2. tree[p].whole
      BY <1>5, <2>1 DEF DoneClosed
    <2>3. tree[p].conf
      BY <1>2, <2>1 DEF Sound, StampsAreTrue, UpToDate, Steps
    <2> QED BY <1>8, <2>2, <2>3 DEF Fails, InstallSteps
  <1>9. CASE s \in InstallSteps
    <2>1. <<p, "built">> \in done
      BY <1>1, <1>9 DEF Prerequisites, Needs, InstallSteps
    <2>2. obj[p] # NoProduct
      BY <1>2, <2>1 DEF Sound, StampsAreTrue, UpToDate, Steps
    <2> QED BY <1>9, <2>2 DEF Fails, InstallSteps
  <1> QED
    BY <1>6, <1>7, <1>8, <1>9 DEF Fails

\* The touch of a stamp outdates at most the target's.
LEMMA TouchSound ==
  ASSUME TypeOK, OrderInv, NEW p \in Pkgs, NEW s \in Steps, Sound(p), Starts(p, s), Touch(p, s)
  PROVE  StampsClosed(p)' /\ OnlyTargetStale(p)'
  <1>1. /\ stamps'[p] = stamps[p] \cup {s}
        /\ stale'[p] = (stale[p] \ {s}) \cup {u \in stamps[p] : s \in Needs(p, u)}
    BY DEF Touch, TypeOK
  <1>2. \A n \in Needs(p, s) : n \in stamps[p] /\ n \notin stale[p]
    BY NeedsStand DEF OrderInv, Starts, UpToDate
  <1>3. StampsClosed(p)'
    BY <1>1, <1>2 DEF Sound, StampsClosed
  <1>4. \/ s \notin stamps[p]
        \/ s = "target_installed" /\ s \in stale[p] /\ "installed" \notin stamps[p]
    BY DEF Starts, UpToDate, Sound, OnlyTargetStale
  <1>5. \A u \in stamps[p] : s \in Needs(p, u) => s = "staging_installed" /\ u = "target_installed"
    <2>1. CASE s \notin stamps[p]
      BY <2>1 DEF Sound, StampsClosed
    <2>2. CASE s = "target_installed" /\ "installed" \notin stamps[p]
      BY <2>2 DEF Needs, InstallSteps
    <2> QED BY <1>4, <2>1, <2>2
  <1>6. \A k \in InstallSteps \cap Pipeline(p) : k \in Needs(p, "installed")
    BY StampsAssumption DEF Pipeline, Needs, InstallSteps
  <1>7. "target_installed" \in stale'[p] => "installed" \notin stamps'[p]
    <2> SUFFICES ASSUME "target_installed" \in stale'[p] PROVE "installed" \notin stamps'[p]
      OBVIOUS
    <2>1. CASE "target_installed" \in stale[p]
      <3>1. "installed" \notin stamps[p]
        BY <2>1 DEF Sound, OnlyTargetStale
      <3>2. "target_installed" \in Needs(p, "installed")
        BY <1>6, <2>1 DEF TypeOK, InstallSteps
      <3> QED BY <1>1, <1>2, <2>1, <3>1, <3>2
    <2>2. CASE "target_installed" \notin stale[p]
      <3>1. s = "staging_installed" /\ s \notin stamps[p]
        BY <1>1, <1>4, <1>5, <2>2
      <3>2. s \in Needs(p, "installed")
        BY <1>6, <3>1, StepInPipeline DEF Starts, InstallSteps
      <3>3. "installed" \notin stamps[p]
        BY <3>1, <3>2 DEF Sound, StampsClosed
      <3> QED BY <1>1, <3>1, <3>3
    <2> QED BY <2>1, <2>2
  <1> QED
    BY <1>1, <1>3, <1>5, <1>7 DEF Sound, OnlyTargetStale

LEMMA SoundUnchanged ==
  ASSUME NEW q, Sound(q), stamps'[q] = stamps[q], stale'[q] = stale[q], tree'[q] = tree[q],
         obj'[q] = obj[q]
  PROVE  Sound(q)'
  BY DEF Sound, StampsClosed, OnlyTargetStale, StampsAreTrue

\* The same for a step that ends with its touch: what it made is what its stamp says.
LEMMA TouchingIsSound ==
  ASSUME TypeOK, OrderInv, NEW p \in Pkgs, Sound(p),
         \/ Download(p) \/ Extract(p) \/ Patch(p) \/ Rsync(p) \/ Configure(p) \/ Build(p)
         \/ Finish(p) \/ \E k \in InstallSteps : Install(p, k)
  PROVE  Sound(p)'
  <1>1. PICK s \in Steps : Starts(p, s) /\ Touch(p, s)
    BY TouchingSteps
  <1>2. StampsClosed(p)' /\ OnlyTargetStale(p)'
    BY <1>1, TouchSound
  <1>3. tree[p] \in Trees(p) /\ p \in DOMAIN tree /\ p \in DOMAIN obj /\ p \in DOMAIN stamps
    BY DEF TypeOK
  <1>4. CASE Download(p) \/ Finish(p) \/ (\E k \in InstallSteps : Install(p, k))
    <2>1. /\ UNCHANGED <<tree, obj>>
          /\ \E t \in {"downloaded", "installed"} \cup InstallSteps : stamps'[p] = stamps[p] \cup {t}
      BY <1>3, <1>4 DEF Download, Finish, Install, Touch
    <2> QED BY <1>2, <2>1 DEF Sound, StampsAreTrue, InstallSteps
  <1>5. CASE Extract(p)
    <2>1. stamps'[p] = stamps[p] \cup {"extracted"} /\ UNCHANGED obj
      BY <1>3, <1>5 DEF Extract, Touch
    <2>2. tree'[p] = [tree[p] EXCEPT !.whole = TRUE, !.applied = 0]
      BY <1>3, <1>5 DEF Extract, Tree
    <2>3. /\ tree'[p].whole /\ tree'[p].applied = 0
          /\ tree'[p].conf = tree[p].conf /\ tree'[p].listed = tree[p].listed
      BY <1>3, <2>2 DEF Trees
    <2> QED BY <1>2, <2>1, <2>3 DEF Sound, StampsAreTrue
  <1>6. CASE Patch(p)
    <2>1. stamps'[p] = stamps[p] \cup {"patched"} /\ UNCHANGED obj
      BY <1>3, <1>6 DEF Patch, Touch
    <2>2. tree'[p] = [tree[p] EXCEPT !.applied = NumPatches[p], !.listed = NumPatches[p]]
      BY <1>3, <1>6 DEF Patch, Tree
    <2>3. tree'[p].whole = tree[p].whole /\ tree'[p].conf = tree[p].conf
      BY <1>3, <2>2 DEF Trees
    <2> QED BY <1>2, <2>1, <2>3 DEF Sound, StampsAreTrue
  <1>7. CASE Rsync(p)
    <2>1. stamps'[p] = stamps[p] \cup {"rsynced"} /\ UNCHANGED obj
      BY <1>3, <1>7 DEF Rsync, Touch
    <2>2. /\ tree'[p].whole /\ tree'[p].applied = tree[p].applied
          /\ tree'[p].conf = tree[p].conf /\ tree'[p].listed = tree[p].listed
      BY <1>3, <1>7 DEF Rsync, Tree, Trees
    <2> QED BY <1>2, <2>1, <2>2 DEF Sound, StampsAreTrue
  <1>8. CASE Configure(p)
    <2>1. stamps'[p] = stamps[p] \cup {"configured"} /\ UNCHANGED obj
      BY <1>3, <1>8 DEF Configure, Touch
    <2>2. /\ tree'[p].whole = tree[p].whole /\ tree'[p].applied = tree[p].applied
          /\ tree'[p].conf /\ tree'[p].listed = tree[p].listed
      BY <1>3, <1>8 DEF Configure, Tree, Trees
    <2> QED BY <1>2, <2>1, <2>2 DEF Sound, StampsAreTrue
  <1>9. CASE Build(p)
    <2>1. stamps'[p] = stamps[p] \cup {"built"} /\ UNCHANGED tree /\ obj'[p] = Compiled(p)
      BY <1>3, <1>9 DEF Build, Touch
    <2>2. Compiled(p) # NoProduct
      <3>1. src[p] \in 1 .. MaxRev /\ NumPatches[p] \in Nat
        BY StampsAssumption DEF TypeOK
      <3> QED BY <1>3, <3>1, NoProductAssumption DEF Compiled, Objects, Trees
    <2> QED BY <1>2, <2>1, <2>2 DEF Sound, StampsAreTrue
  <1> QED
    BY <1>4, <1>5, <1>6, <1>7, <1>8, <1>9

\* A step that was broken off spoils what its missing stamp does not say.
LEMMA BreakingIsSound ==
  ASSUME TypeOK, NEW p \in Pkgs, NEW s \in Steps, Sound(p), BreakStep(p, s)
  PROVE  Sound(p)'
  <1>1. /\ UNCHANGED <<stamps, stale>> /\ Starts(p, s)
        /\ s # "target_installed" => s \notin stamps[p]
    BY DEF BreakStep, Starts, UpToDate, Sound, OnlyTargetStale
  <1>2. tree[p] \in Trees(p) /\ p \in DOMAIN tree /\ p \in DOMAIN obj
    BY DEF TypeOK
  <1>3. StampsClosed(p)' /\ OnlyTargetStale(p)'
    BY <1>1 DEF Sound, StampsClosed, OnlyTargetStale
  <1>4. CASE s \in {"extracted", "rsynced"}
    <2>1. {"extracted", "rsynced"} \cap stamps[p] = {}
      <3>1. s \in Pipeline(p) /\ stamps[p] \subseteq Pipeline(p)
        BY <1>1, StepInPipeline DEF Starts, TypeOK
      <3>2. ~({"extracted", "rsynced"} \subseteq Pipeline(p))
        BY StampsAssumption DEF Pipeline, InstallSteps
      <3> QED BY <1>1, <1>4, <3>1, <3>2
    <2>2. UNCHANGED obj /\ Tree(p, [tree[p] EXCEPT !.whole = FALSE,
                                              !.applied = IF s = "extracted" THEN 0 ELSE @])
      BY <1>4 DEF BreakStep, InstallSteps
    <2>3. /\ tree'[p].conf = tree[p].conf /\ tree'[p].listed = tree[p].listed
          /\ tree'[p].applied \in {0, tree[p].applied}
      BY <1>2, <2>2 DEF Tree, Trees
    <2> QED BY <1>1, <1>3, <2>1, <2>2, <2>3 DEF Sound, StampsAreTrue
  <1>5. CASE s = "configured"
    <2>1. UNCHANGED obj /\ Tree(p, [tree[p] EXCEPT !.conf = FALSE])
      BY <1>5 DEF BreakStep, InstallSteps
    <2>2. /\ tree'[p].whole = tree[p].whole /\ tree'[p].listed = tree[p].listed
          /\ tree'[p].applied = tree[p].applied
      BY <1>2, <2>1 DEF Tree, Trees
    <2> QED BY <1>1, <1>3, <1>5, <2>1, <2>2 DEF Sound, StampsAreTrue
  <1>6. CASE s = "built" \/ s \in InstallSteps
    <2>1. UNCHANGED tree /\ (s # "built" => UNCHANGED obj)
      BY <1>6 DEF BreakStep, InstallSteps
    <2> QED BY <1>1, <1>3, <1>6, <2>1 DEF Sound, StampsAreTrue
  <1> QED
    BY <1>4, <1>5, <1>6 DEF BreakStep

LEMMA SoundStep ==
  ASSUME TypeOK, DoneClosed, OrderInv, CleanInv, SoundInv, [Next]_vars
  PROVE  SoundInv'
  <1>1. CASE UNCHANGED <<stamps, stale, tree, obj, torn>>
    BY <1>1, SoundUnchanged DEF SoundInv
  \* What happens to one package is no matter to another.
  <1>2. ASSUME NEW p \in Pkgs, torn \subseteq torn',
               p \notin torn' => Sound(p)',
               \A q \in Pkgs \ {p} : /\ stamps'[q] = stamps[q] /\ stale'[q] = stale[q]
                                     /\ tree'[q] = tree[q] /\ obj'[q] = obj[q]
        PROVE  SoundInv'
    BY <1>2, SoundUnchanged DEF SoundInv
  <1>3. ASSUME NEW p \in Pkgs,
               \/ Download(p) \/ Extract(p) \/ Patch(p) \/ Rsync(p) \/ Configure(p) \/ Build(p)
               \/ Finish(p) \/ \E k \in InstallSteps : Install(p, k)
        PROVE  SoundInv'
    <2>1. p \notin torn => Sound(p)'
      BY <1>3, TouchingIsSound DEF SoundInv
    <2>2. UNCHANGED torn /\ \A q \in Pkgs \ {p} : stamps'[q] = stamps[q] /\ stale'[q] = stale[q]
      BY <1>3, TouchingSteps DEF Touch, TypeOK
    <2>3. \A q \in Pkgs \ {p} : tree'[q] = tree[q] /\ obj'[q] = obj[q]
      BY <1>3 DEF Download, Extract, Patch, Rsync, Configure, Build, Finish, Install, Tree, TypeOK
    <2> QED BY <1>2, <2>1, <2>2, <2>3
  <1>4. CASE Remove
    <2>1. PICK p \in Pkgs, s \in Steps : rms # <<>> /\ Head(rms) = <<p, s>>
      <3>1. rms \in Seq(Pkgs \X Steps) /\ rms # <<>>
        BY <1>4 DEF TypeOK, Remove
      <3> QED BY <3>1
    <2>2. /\ stamps' = [stamps EXCEPT ![p] = @ \ {s}]
          /\ stale' = [stale EXCEPT ![p] = @ \ {s}]
          /\ UNCHANGED <<tree, obj, torn>>
      <3>1. Head(rms)[1] = p /\ Head(rms)[2] = s
        BY <2>1
      <3> QED BY <1>4, <3>1 DEF Remove
    <2>3. /\ s \in {"rsynced", "installed", "built", "configured"} \cup InstallSteps
          /\ \A u \in stamps[p] :
               s \in Needs(p, u) => s = "staging_installed" /\ u = "target_installed"
      BY <2>1, RemovedLast
    <2>4. stamps'[p] = stamps[p] \ {s} /\ stale'[p] = stale[p] \ {s}
      BY <2>2 DEF TypeOK
    <2>5. Sound(p) => Sound(p)'
      <3> SUFFICES ASSUME Sound(p) PROVE Sound(p)'
        OBVIOUS
      <3>1. StampsClosed(p)'
        BY <2>3, <2>4 DEF Sound, StampsClosed
      <3>2. OnlyTargetStale(p)'
        BY <2>4 DEF Sound, OnlyTargetStale
      <3>3. StampsAreTrue(p)'
        BY <2>2, <2>3, <2>4 DEF Sound, StampsAreTrue, InstallSteps
      <3> QED BY <3>1, <3>2, <3>3 DEF Sound
    <2>6. \A q \in Pkgs \ {p} : stamps'[q] = stamps[q] /\ stale'[q] = stale[q]
      BY <2>2 DEF TypeOK
    <2> QED BY <1>2, <2>2, <2>5, <2>6 DEF SoundInv
  <1>5. ASSUME NEW p \in Pkgs, Dirclean(p) PROVE SoundInv'
    <2>1. /\ stamps'[p] = {} /\ stale'[p] = {} /\ tree'[p] = EmptyTree /\ torn' = torn \ {p}
          /\ \A q \in Pkgs \ {p} : /\ stamps'[q] = stamps[q] /\ stale'[q] = stale[q]
                                   /\ tree'[q] = tree[q] /\ obj'[q] = obj[q]
      BY <1>5 DEF Dirclean, Tree, TypeOK
    <2>2. Sound(p)'
      BY <2>1 DEF Sound, StampsClosed, OnlyTargetStale, StampsAreTrue, EmptyTree
    <2> QED BY <2>1, <2>2, SoundUnchanged DEF SoundInv
  <1>6. ASSUME NEW p \in Pkgs, NEW s \in Steps, Fail(p, s) PROVE SoundInv'
    <2>1. p \in torn
      BY <1>6, SoundDoesNotFail DEF Fail, SoundInv
    <2>2. /\ UNCHANGED <<stamps, stale, obj, torn>>
          /\ \A q \in Pkgs \ {p} : tree'[q] = tree[q]
      BY <1>6 DEF Fail, Tree, TypeOK
    <2> QED BY <1>2, <2>1, <2>2
  <1>7. ASSUME NEW p \in Pkgs, BreakPatch(p) \/ BreakDirclean(p) PROVE SoundInv'
    <2>1. torn' = torn \cup {p}
      BY <1>7 DEF BreakPatch, BreakDirclean
    <2>2. \A q \in Pkgs \ {p} : /\ stamps'[q] = stamps[q] /\ stale'[q] = stale[q]
                                /\ tree'[q] = tree[q] /\ obj'[q] = obj[q]
      BY <1>7 DEF BreakPatch, BreakDirclean, Tree, TypeOK
    <2> QED BY <1>2, <2>1, <2>2
  <1>8. ASSUME NEW p \in Pkgs, NEW s \in Steps, BreakStep(p, s) PROVE SoundInv'
    <2>1. p \notin torn => Sound(p)'
      BY <1>8, BreakingIsSound DEF SoundInv
    <2>2. /\ UNCHANGED <<stamps, stale, torn>>
          /\ \A q \in Pkgs \ {p} : tree'[q] = tree[q] /\ obj'[q] = obj[q]
      BY <1>8 DEF BreakStep, Tree, TypeOK
    <2> QED BY <1>2, <2>1, <2>2
  <1>9. CASE \/ (\E cmd \in Commands : Make(cmd)) \/ NextGoal \/ Kill \/ UNCHANGED vars
             \/ \E p \in Pkgs : \/ Edit(p) \/ (\E c \in Cleans : Clean(p, c))
                                \/ \E s \in Steps : Skip(p, s)
    BY <1>1, <1>9 DEF Make, NextGoal, Kill, Edit, Clean, Skip, vars
  <1> QED
    BY <1>3, <1>4, <1>5, <1>6, <1>7, <1>8, <1>9 DEF Next

-----------------------------------------------------------------------------
(* What is installed, and what was copied. *)

\* No step makes a stamp valid but its own.
LEMMA TouchOnly ==
  ASSUME TypeOK, NEW p \in Pkgs, NEW s \in Steps, Touch(p, s),
         NEW q \in Pkgs, NEW t, <<q, t>> # <<p, s>>
  PROVE  UpToDate(q, t)' => UpToDate(q, t)
  BY DEF TypeOK, Touch, UpToDate

\* Stamps, objects and installed files change for one package at a time.
InstalledWell(p) ==
  UpToDate(p, "built") /\ obj[p] # NoProduct =>
    \A k \in Installs[p] : UpToDate(p, k) => out[p][k] = MadeOf(obj[p])

LEMMA InstalledStep ==
  ASSUME TypeOK, InstalledInv, [Next]_vars
  PROVE  InstalledInv'
  <1>0. \A p \in Pkgs : InstalledWell(p) /\ Installs[p] \subseteq InstallSteps
    BY StampsAssumption DEF InstalledInv, InstalledWell
  \* Where nothing is made, no stamp that becomes valid says anything false.
  <1>1. ASSUME NEW p \in Pkgs, obj'[p] \in {obj[p], NoProduct}, out'[p] = out[p],
               \A k \in {"built"} \cup InstallSteps : UpToDate(p, k)' => UpToDate(p, k)
        PROVE  InstalledWell(p)'
    BY <1>0, <1>1 DEF InstalledWell
  <1>2. CASE UNCHANGED <<stamps, stale, obj, out>>
    BY <1>2 DEF InstalledInv, UpToDate
  <1>3. CASE Remove
    <2>1. UNCHANGED <<obj, out>> /\ \A p \in Pkgs : \A k : UpToDate(p, k)' => UpToDate(p, k)
      BY <1>3 DEF Remove, UpToDate, TypeOK
    <2>2. \A p \in Pkgs : InstalledWell(p)'
      BY <1>1, <2>1
    <2> QED BY <2>2 DEF InstalledInv, InstalledWell
  <1>4. ASSUME NEW p \in Pkgs, Dirclean(p) \/ BreakDirclean(p) PROVE InstalledInv'
    <2>1. UNCHANGED out /\ \A q \in Pkgs : obj'[q] \in {obj[q], NoProduct}
      BY <1>4 DEF Dirclean, BreakDirclean, TypeOK
    <2>2. \A q \in Pkgs : \A k : UpToDate(q, k)' => UpToDate(q, k)
      <3>1. PICK left \in SUBSET stamps[p], old \in SUBSET stale[p] :
              /\ stamps' = [stamps EXCEPT ![p] = left]
              /\ stale' = [stale EXCEPT ![p] = old]
              /\ left \cap stale[p] \subseteq old
        <4>1. CASE Dirclean(p)
          BY <4>1 DEF Dirclean
        <4>2. CASE BreakDirclean(p)
          <5>1. PICK left \in SUBSET stamps[p] : /\ stamps' = [stamps EXCEPT ![p] = left]
                                                 /\ stale' = [stale EXCEPT ![p] = @ \cap left]
            BY <4>2 DEF BreakDirclean
          <5>2. stale' = [stale EXCEPT ![p] = stale[p] \cap left]
            BY <5>1
          <5> QED BY <5>1, <5>2
        <4> QED BY <1>4, <4>1, <4>2
      <3> QED BY <3>1 DEF UpToDate, TypeOK
    <2>3. \A q \in Pkgs : InstalledWell(q)'
      BY <1>1, <2>1, <2>2
    <2> QED BY <2>3 DEF InstalledInv, InstalledWell
  <1>5. ASSUME NEW p \in Pkgs,
               Download(p) \/ Extract(p) \/ Patch(p) \/ Rsync(p) \/ Configure(p) \/ Finish(p)
        PROVE  InstalledInv'
    <2>1. PICK s \in Steps \ ({"built"} \cup InstallSteps) : Touch(p, s) /\ UNCHANGED <<obj, out>>
      BY <1>5 DEF Download, Extract, Patch, Rsync, Configure, Finish, Steps, InstallSteps
    <2>2. \A q \in Pkgs, k \in {"built"} \cup InstallSteps : UpToDate(q, k)' => UpToDate(q, k)
      BY <2>1, TouchOnly
    <2>3. \A q \in Pkgs : InstalledWell(q)'
      BY <1>1, <2>1, <2>2
    <2> QED BY <2>3 DEF InstalledInv, InstalledWell
  <1>6. ASSUME NEW p \in Pkgs, Build(p) PROVE InstalledInv'
    <2>1. /\ Touch(p, "built") /\ UNCHANGED out /\ "built" \in Steps
          /\ \A q \in Pkgs \ {p} : obj'[q] = obj[q]
      BY <1>6 DEF Build, TypeOK, Steps
    <2>2. \A k \in InstallSteps : ~UpToDate(p, k)'
      <3>1. \A k \in InstallSteps : "built" \in Needs(p, k) /\ k # "built"
        BY DEF Needs, InstallSteps
      <3> QED BY <2>1, <3>1 DEF Touch, UpToDate, TypeOK
    <2>3. InstalledWell(p)'
      BY <1>0, <2>2 DEF InstalledWell
    <2>4. \A q \in Pkgs \ {p} : InstalledWell(q)'
      BY <1>1, <2>1, TouchOnly
    <2> QED BY <2>3, <2>4 DEF InstalledInv, InstalledWell
  <1>7. ASSUME NEW p \in Pkgs, NEW k \in InstallSteps, Install(p, k) PROVE InstalledInv'
    <2>1. /\ Touch(p, k) /\ UNCHANGED obj /\ k \in Steps /\ k # "built"
          /\ out'[p] = [out[p] EXCEPT ![k] = MadeOf(obj[p])]
          /\ \A q \in Pkgs \ {p} : out'[q] = out[q]
      BY <1>7 DEF Install, TypeOK, Steps, InstallSteps
    <2>2. out[p] \in [InstallSteps -> Sources \cup {NoProduct}]
      BY DEF TypeOK
    <2>3. InstalledWell(p)'
      <3> SUFFICES ASSUME UpToDate(p, "built")', obj[p] # NoProduct, NEW j \in Installs[p],
                          UpToDate(p, j)'
                   PROVE  out'[p][j] = MadeOf(obj[p])
        BY <2>1 DEF InstalledWell, MadeOf
      <3>1. CASE j = k
        BY <2>1, <2>2, <3>1
      <3>2. CASE j # k
        <4>1. UpToDate(p, "built") /\ UpToDate(p, j)
          BY <2>1, <3>2, TouchOnly
        <4> QED BY <1>0, <2>1, <2>2, <3>2, <4>1 DEF InstalledWell
      <3> QED BY <3>1, <3>2
    <2>4. \A q \in Pkgs \ {p} : InstalledWell(q)'
      BY <1>1, <2>1, TouchOnly
    <2> QED BY <2>3, <2>4 DEF InstalledInv, InstalledWell
  <1>8. ASSUME NEW p \in Pkgs, NEW s \in Steps, BreakStep(p, s) PROVE InstalledInv'
    <2>1. UNCHANGED <<stamps, stale>> /\ ~UpToDate(p, s) /\ \A q, t : UpToDate(q, t)' = UpToDate(q, t)
      BY <1>8 DEF BreakStep, Starts, UpToDate
    <2>2. \A q \in Pkgs \ {p} : obj'[q] = obj[q] /\ out'[q] = out[q]
      BY <1>8 DEF BreakStep, TypeOK
    <2>3. CASE UNCHANGED <<obj, out>>
      BY <1>2, <2>1, <2>3
    <2>4. CASE s = "built"
      <3>1. InstalledWell(p)'
        BY <2>1, <2>4 DEF InstalledWell
      <3> QED BY <1>1, <2>1, <2>2, <3>1 DEF InstalledInv, InstalledWell
    <2>5. CASE s \in InstallSteps /\ UNCHANGED obj
               /\ \E o \in {NoProduct, MadeOf(obj[p])} : out' = [out EXCEPT ![p][s] = o]
      <3>1. \A k \in Installs[p] \ {s} : out'[p][k] = out[p][k]
        BY <2>5 DEF TypeOK
      <3>2. InstalledWell(p)'
        BY <1>0, <2>1, <2>5, <3>1 DEF InstalledWell, MadeOf
      <3> QED BY <1>1, <2>1, <2>2, <3>2 DEF InstalledInv, InstalledWell
    <2> QED BY <1>8, <2>3, <2>4, <2>5 DEF BreakStep
  <1>9. CASE \/ (\E cmd \in Commands : Make(cmd)) \/ NextGoal \/ Kill \/ UNCHANGED vars
             \/ \E p \in Pkgs : \/ Edit(p) \/ BreakPatch(p) \/ (\E c \in Cleans : Clean(p, c))
                                \/ \E s \in Steps : Skip(p, s) \/ Fail(p, s)
    BY <1>2, <1>9 DEF Make, NextGoal, Kill, Edit, BreakPatch, Clean, Skip, Fail, vars
  <1> QED
    BY <1>3, <1>4, <1>5, <1>6, <1>7, <1>8, <1>9 DEF Next

LEMMA RevisionType ==
  ASSUME TypeOK
  PROVE  \A p \in Pkgs : src[p] \in Nat /\ asked[p] \in Nat /\ tree[p].rev \in Nat
  <1>1. MaxRev \in Nat
    BY StampsAssumption
  <1>2. /\ src \in [Pkgs -> 1 .. MaxRev] /\ asked \in [Pkgs -> 1 .. MaxRev]
        /\ \A p \in Pkgs : tree[p] \in Trees(p)
    BY DEF TypeOK
  <1>3. \A p \in Pkgs : tree[p].rev \in 1 .. MaxRev
    BY <1>2 DEF Trees
  <1> QED
    BY <1>1, <1>2, <1>3

LEMMA CopyKeeps ==
  ASSUME TypeOK, CopyInv,
         Making' => Making /\ UNCHANGED asked /\ \A p \in Pkgs : src'[p] >= src[p],
         \A p \in Pkgs : <<p, "clean-for-reinstall">> \in done' => <<p, "clean-for-reinstall">> \in done,
         \A p \in Pkgs :
           "rsynced" \in stamps'[p] =>
             \/ /\ "rsynced" \in stamps[p] /\ UNCHANGED <<rms, asked>>
                /\ tree'[p].whole = tree[p].whole /\ tree'[p].rev = tree[p].rev
             \/ tree'[p].whole /\ tree'[p].rev >= asked'[p],
         \A p \in Pkgs : src'[p] \in Nat
  PROVE  CopyInv'
  <1>1. \A p \in Pkgs : src[p] \in Nat /\ asked[p] \in Nat
    BY RevisionType
  <1>2. \A p \in Pkgs : Making' => asked'[p] <= src'[p]
    BY <1>1 DEF CopyInv
  <1> QED
    BY <1>2 DEF CopyInv

LEMMA CopyStep ==
  ASSUME TypeOK, TypeOK', OrderInv, CopyInv, [Next]_vars
  PROVE  CopyInv'
  <1>0. \A p \in Pkgs : src[p] \in Nat /\ src'[p] \in Nat /\ asked[p] \in Nat /\ tree[p].rev \in Nat
    <2>1. MaxRev \in Nat /\ src' \in [Pkgs -> 1 .. MaxRev]
      BY StampsAssumption DEF TypeOK
    <2> QED BY <2>1, RevisionType
  <1>1. ASSUME NEW cmd \in Commands, Make(cmd) PROVE CopyInv'
    BY <1>0, <1>1 DEF Make, CopyInv
  <1>2. CASE Kill \/ (NextGoal /\ End)
             \/ \E p \in Pkgs : \/ BreakPatch(p) \/ BreakDirclean(p)
                                \/ \E s \in Steps : Fail(p, s) \/ BreakStep(p, s)
    BY <1>2, EndingSteps, EndedInv
  <1>3. CASE NextGoal /\ ~End
    BY <1>3 DEF NextGoal, CopyInv, Making
  <1>4. CASE UNCHANGED vars
    BY <1>4 DEF vars, CopyInv, Making
  <1>5. ASSUME NEW p \in Pkgs, Edit(p) PROVE CopyInv'
    <2>1. \A q \in Pkgs : src'[q] >= src[q]
      <3>1. src' = [src EXCEPT ![p] = src[p] + 1] /\ DOMAIN src = Pkgs
        BY <1>5 DEF Edit, TypeOK
      <3>2. \A q \in Pkgs : src'[q] = IF q = p THEN src[q] + 1 ELSE src[q]
        BY <3>1
      <3> QED BY <1>0, <3>2
    <2> QED BY <1>0, <1>5, <2>1, CopyKeeps DEF Edit, Making
  <1>6. CASE Remove
    <2>1. PICK p \in Pkgs, s \in Steps : rms # <<>> /\ Head(rms) = <<p, s>>
      <3>1. rms \in Seq(Pkgs \X Steps) /\ rms # <<>>
        BY <1>6 DEF TypeOK, Remove
      <3> QED BY <3>1
    <2>2. /\ stamps' = [stamps EXCEPT ![p] = @ \ {s}]
          /\ UNCHANGED <<tree, done, goals, asked, src>>
      <3>1. Head(rms)[1] = p /\ Head(rms)[2] = s
        BY <2>1
      <3> QED BY <1>6, <3>1 DEF Remove
    <2>3. \A q \in Pkgs : "rsynced" \in stamps'[q] =>
            "rsynced" \in stamps[q] /\ <<q, "rsynced">> # Head(rms)
      <3>1. DOMAIN stamps = Pkgs
        BY DEF TypeOK
      <3>2. \A q \in Pkgs : stamps'[q] = IF q = p THEN stamps[q] \ {s} ELSE stamps[q]
        BY <2>2, <3>1
      <3> SUFFICES ASSUME NEW q \in Pkgs, "rsynced" \in stamps'[q]
                   PROVE  "rsynced" \in stamps[q] /\ <<q, "rsynced">> # Head(rms)
        OBVIOUS
      <3>3. "rsynced" \in stamps[q] /\ ~(q = p /\ s = "rsynced")
        BY <3>2
      <3> QED BY <2>1, <3>3
    <2> QED BY <2>2, <2>3 DEF CopyInv, Making
  <1>7. ASSUME NEW p \in Pkgs, NEW c \in Cleans, Clean(p, c) PROVE CopyInv'
    <2>1. /\ rms = <<>> /\ done' = done \cup {<<p, c>>}
          /\ rms' = [i \in DOMAIN Removes(c) |-> <<p, Removes(c)[i]>>]
          /\ UNCHANGED <<stamps, tree, goals, asked, src>>
      BY <1>7 DEF Clean, Reaches
    <2>2. c = "clean-for-reinstall" => rms' # <<>> /\ Head(rms') = <<p, "rsynced">>
      BY <2>1 DEF Removes
    <2> QED BY <2>1, <2>2 DEF CopyInv, Making
  <1>8. ASSUME NEW p \in Pkgs, Dirclean(p) PROVE CopyInv'
    <2>1. /\ stamps'[p] = {} /\ UNCHANGED <<goals, rms, asked, src>>
          /\ done' = done \cup {<<p, "dircleaned">>}
          /\ \A q \in Pkgs \ {p} : stamps'[q] = stamps[q] /\ tree'[q] = tree[q]
      BY <1>8 DEF Dirclean, Tree, TypeOK
    <2>2. \A q \in Pkgs : <<q, "clean-for-reinstall">> \in done' => <<q, "clean-for-reinstall">> \in done
      BY <2>1
    <2> QED BY <1>0, <2>1, <2>2, CopyKeeps DEF Making
  <1>9. ASSUME NEW p \in Pkgs, NEW s \in Steps, Skip(p, s) PROVE CopyInv'
    <2>1. \A q \in Pkgs : <<q, "clean-for-reinstall">> \in done' => <<q, "clean-for-reinstall">> \in done
      BY <1>9 DEF Skip, Steps, InstallSteps
    <2> QED BY <1>9, <2>1 DEF Skip, CopyInv, Making
  <1>10. ASSUME NEW p \in Pkgs,
                \/ Download(p) \/ Extract(p) \/ Patch(p) \/ Rsync(p) \/ Configure(p) \/ Build(p)
                \/ Finish(p) \/ \E k \in InstallSteps : Install(p, k)
         PROVE  CopyInv'
    <2>1. PICK s \in Steps : Starts(p, s) /\ Touch(p, s)
      BY <1>10, TouchingSteps
    <2>2. /\ \A q \in Pkgs : <<q, "clean-for-reinstall">> \in done' => <<q, "clean-for-reinstall">> \in done
          /\ UNCHANGED <<goals, rms, asked, src>>
      BY <2>1 DEF Touch, Steps, InstallSteps
    <2>3. tree[p] \in Trees(p) /\ DOMAIN tree = Pkgs
      BY DEF TypeOK
    <2>4. ASSUME NEW q \in Pkgs, "rsynced" \in stamps'[q]
          PROVE  \/ /\ "rsynced" \in stamps[q] /\ UNCHANGED <<rms, asked>>
                    /\ tree'[q].whole = tree[q].whole /\ tree'[q].rev = tree[q].rev
                 \/ (tree'[q].whole /\ tree'[q].rev >= asked'[q]) \/ ~Making
      <3>1. CASE q # p
        <4>1. tree'[q] = tree[q]
          BY <1>10, <3>1 DEF Download, Extract, Patch, Rsync, Configure, Build, Finish, Install, Tree,
                             TypeOK
        <4>2. stamps'[q] = stamps[q]
          BY <2>1, <3>1 DEF Touch, TypeOK
        <4> QED BY <2>2, <2>4, <4>1, <4>2
      <3>2. CASE q = p /\ Rsync(p)
        <4>1. /\ tree' = [tree EXCEPT ![p] = [tree[p] EXCEPT !.whole = TRUE,
                                  !.rev = IF src[p] > tree[p].rev THEN src[p] ELSE tree[p].rev]]
              /\ Making => asked[p] <= src[p]
          BY <3>2 DEF Rsync, Tree, CopyInv
        <4>2. /\ tree'[p].whole
              /\ tree'[p].rev = IF src[p] > tree[p].rev THEN src[p] ELSE tree[p].rev
          BY <2>3, <4>1 DEF Trees
        <4>3. Making => tree'[p].rev >= asked[p]
          BY <1>0, <4>1, <4>2
        <4> QED BY <2>2, <3>2, <4>2, <4>3
      <3>3. CASE q = p /\ Extract(p)
        <4>1. "extracted" \in Pipeline(p)
          BY <3>3, StepInPipeline DEF Extract, Starts, Steps
        <4>2. "rsynced" \notin Pipeline(p)
          BY <4>1, StampsAssumption DEF Pipeline, InstallSteps
        <4>3. stamps'[p] \subseteq Pipeline(p)
          BY DEF TypeOK
        <4> QED BY <2>4, <3>3, <4>2, <4>3
      <3>4. CASE q = p /\ ~Rsync(p) /\ ~Extract(p)
        <4>1. tree'[p].whole = tree[p].whole /\ tree'[p].rev = tree[p].rev
          <5>1. CASE Patch(p)
            BY <2>3, <5>1 DEF Patch, Tree, Trees
          <5>2. CASE Configure(p)
            BY <2>3, <5>2 DEF Configure, Tree, Trees
          <5> QED BY <1>10, <3>4, <5>1, <5>2 DEF Download, Build, Finish, Install
        <4>2. PICK t \in Steps \ {"rsynced"} : Touch(p, t)
          BY <1>10, <3>4 DEF Download, Patch, Configure, Build, Finish, Install, Steps, InstallSteps
        <4>3. "rsynced" \in stamps[p]
          BY <2>4, <3>4, <4>2 DEF Touch, TypeOK
        <4> QED BY <2>2, <3>4, <4>1, <4>3
      <3> QED BY <3>1, <3>2, <3>3, <3>4
    <2>5. Making
      BY <2>1 DEF Starts, Reaches
    <2> QED BY <1>0, <2>2, <2>4, <2>5, CopyKeeps DEF Making
  <1> QED
    BY <1>1, <1>2, <1>3, <1>4, <1>5, <1>6, <1>7, <1>8, <1>9, <1>10 DEF Next

-----------------------------------------------------------------------------
(* The theorems. *)

StampsInv ==
  TypeOK /\ DoneClosed /\ OrderInv /\ CleanInv /\ SoundInv /\ InstalledInv /\ CopyInv

LEMMA StampsInvariant ==
  ASSUME CleansFirst
  PROVE  (Init => StampsInv) /\ (StampsInv /\ [Next]_vars => StampsInv')
  <1>1. ASSUME Init PROVE StampsInv
    <2>1. OrderInv /\ CleanInv /\ CopyInv
      BY <1>1 DEF Init, OrderInv, CleansAhead, Ordered, RemovesRunning, DoneIsUpToDate, CleanInv,
                  InstalledGoesFirst, CleanedAreGone, CopyInv, Making
    <2>2. SoundInv
      BY <1>1 DEF Init, SoundInv, Sound, StampsClosed, OnlyTargetStale, StampsAreTrue, EmptyTree
    <2>3. DoneClosed /\ InstalledInv
      BY <1>1 DEF Init, DoneClosed, InstalledInv
    <2> QED BY <1>1, <2>1, <2>2, <2>3, InitType DEF StampsInv
  <1>2. StampsInv /\ [Next]_vars => StampsInv'
    BY NextType, ClosedStep, OrderStep, CleanStep, SoundStep, InstalledStep, CopyStep DEF StampsInv
  <1> QED
    BY <1>1, <1>2

\* Where make has considered .stamp_installed, every step of the package is up to date.
LEMMA InstalledIsSettled ==
  ASSUME StampsInv, NEW p \in Pkgs, <<p, "installed">> \in done
  PROVE  Settled(p) /\ \A s \in Pipeline(p) : <<p, s>> \in done /\ UpToDate(p, s)
  <1>1. \A t \in done : Prerequisites(t) \subseteq done
    BY DEF StampsInv, DoneClosed
  <1>2. \A s : <<p, s>> \in done => \A n \in Needs(p, s) : <<p, n>> \in done
    BY <1>1 DEF Prerequisites
  <1>3. <<p, "built">> \in done /\ \A k \in Installs[p] : <<p, k>> \in done
    BY <1>2 DEF Needs, InstallSteps
  <1>4. <<p, "configured">> \in done
    BY <1>2, <1>3 DEF Needs, InstallSteps
  <1>5. p \in Override => <<p, "rsynced">> \in done
    BY <1>1, <1>4 DEF Prerequisites, Before, Pipeline
  <1>6. p \notin Override => {<<p, "patched">>, <<p, "extracted">>, <<p, "downloaded">>} \subseteq done
    <2> SUFFICES ASSUME p \notin Override
                 PROVE  {<<p, "patched">>, <<p, "extracted">>, <<p, "downloaded">>} \subseteq done
      OBVIOUS
    <2>1. <<p, "patched">> \in done
      BY <1>2, <1>4 DEF Needs, Pipeline, InstallSteps
    <2>2. <<p, "extracted">> \in done
      BY <1>2, <2>1 DEF Needs, InstallSteps
    <2>3. <<p, "downloaded">> \in done
      BY <1>2, <2>2 DEF Needs, InstallSteps
    <2> QED BY <2>1, <2>2, <2>3
  <1>7. \A s \in Pipeline(p) : <<p, s>> \in done
    BY <1>3, <1>4, <1>5, <1>6 DEF Pipeline
  <1>8. \A s \in Pipeline(p) : UpToDate(p, s)
    BY <1>7, PipelineSteps DEF StampsInv, OrderInv, DoneIsUpToDate
  <1>9. stale[p] \subseteq stamps[p] /\ stamps[p] \subseteq Pipeline(p)
    BY DEF StampsInv, TypeOK
  <1> QED
    BY <1>7, <1>8, <1>9 DEF Settled, UpToDate

(***************************************************************************)
(* For any packages, dependencies and installation places, and any         *)
(* commands with the cleans first: only a target step is ever run again    *)
(* unasked, however often commands are broken off between two steps or in  *)
(* the middle of one, unless that tore a patch step or a dirclean.         *)
(***************************************************************************)
THEOREM OnlyInstallsAreRepeated ==
  ASSUME CleansFirst PROVE Spec => []OnlyInstallsRepeat
  <1>1. StampsInv => OnlyInstallsRepeat
    BY DEF StampsInv, SoundInv, Sound, OnlyTargetStale, OnlyInstallsRepeat
  <1> QED
    BY <1>1, StampsInvariant, PTL DEF Spec

(***************************************************************************)
(* A make that succeeds leaves nothing to do for what it installed, and    *)
(* what is installed is what was built last.                               *)
(***************************************************************************)
THEOREM SuccessLeavesNothingToDo ==
  ASSUME CleansFirst PROVE Spec => SuccessIsSettled
  <1> DEFINE A == Succeeds => \A p \in Pkgs :
                    <<p, "installed">> \in done => Settled(p) /\ InstalledIsBuilt(p)
  <1>1. StampsInv /\ [Next]_vars => [A]_vars
    <2> SUFFICES ASSUME StampsInv, NEW p \in Pkgs, <<p, "installed">> \in done
                 PROVE  Settled(p) /\ InstalledIsBuilt(p)
      OBVIOUS
    <2>1. Settled(p) /\ \A s \in Pipeline(p) : UpToDate(p, s)
      BY InstalledIsSettled
    <2>2. UpToDate(p, "built") /\ \A k \in Installs[p] : UpToDate(p, k)
      BY <2>1 DEF Pipeline
    <2>3. obj[p] = NoProduct => p \in torn
      BY <2>2 DEF StampsInv, SoundInv, Sound, StampsAreTrue, UpToDate
    <2>4. obj[p] # NoProduct => \A k \in Installs[p] : out[p][k] = MadeOf(obj[p])
      BY <2>2 DEF StampsInv, InstalledInv
    <2> QED BY <2>1, <2>3, <2>4 DEF InstalledIsBuilt
  <1> QED
    BY <1>1, StampsInvariant, PTL DEF Spec, SuccessIsSettled

(***************************************************************************)
(* A package is configured, built and installed only when everything it    *)
(* depends on is installed and up to date.                                 *)
(***************************************************************************)
THEOREM DependenciesComeFirst ==
  ASSUME CleansFirst PROVE Spec => DependenciesFirst
  <1> DEFINE A == \A t \in done' \ done :
                    t[2] \in {"configured", "built"} \cup InstallSteps =>
                      \A d \in Deps[t[1]] : Settled(d)
  <1>1. StampsInv /\ TypeOK' /\ [Next]_vars => [A]_vars
    <2> SUFFICES ASSUME StampsInv, TypeOK', [Next]_vars, NEW t \in done' \ done,
                        t[2] \in {"configured", "built"} \cup InstallSteps, NEW d \in Deps[t[1]]
                 PROVE  Settled(d)
      OBVIOUS
    <2>1. Prerequisites(t) \subseteq done
      BY DoneStep
    <2>2. t[1] \in Pkgs
      BY DEF TypeOK, Targets
    <2>3. d \in Pkgs
      BY <2>2, StampsAssumption
    <2>4. \A s : <<t[1], s>> \in done => Prerequisites(<<t[1], s>>) \subseteq done
      BY DEF StampsInv, DoneClosed
    <2>5. Prerequisites(<<t[1], "configured">>) \subseteq done
      <3>1. CASE t[2] = "configured"
        BY <2>1, <3>1 DEF Prerequisites
      <3>2. CASE t[2] = "built"
        <4>1. <<t[1], "configured">> \in done
          BY <2>1, <3>2 DEF Prerequisites, Needs, InstallSteps
        <4> QED BY <2>4, <4>1
      <3>3. CASE t[2] \in InstallSteps
        <4>1. <<t[1], "built">> \in done
          BY <2>1, <3>3 DEF Prerequisites, Needs, InstallSteps
        <4>2. <<t[1], "configured">> \in done
          BY <2>4, <4>1 DEF Prerequisites, Needs, InstallSteps
        <4> QED BY <2>4, <4>2
      <3> QED BY <3>1, <3>2, <3>3
    <2>6. <<d, "installed">> \in done
      BY <2>5 DEF Prerequisites, Before
    <2> QED BY <2>3, <2>6, InstalledIsSettled
  <1>2. StampsInv => TypeOK
    BY DEF StampsInv
  <1> QED
    BY <1>1, <1>2, StampsInvariant, PTL DEF Spec, DependenciesFirst

(***************************************************************************)
(* No step ever finds its input missing, except in a build directory whose *)
(* patch step or dirclean was broken off.                                  *)
(***************************************************************************)
THEOREM OnlyTornPackagesFail ==
  ASSUME CleansFirst PROVE Spec => FailsOnlyWhenTorn
  <1> DEFINE A == goals' = <<>> => \A p \in Pkgs \ torn, s \in Steps : ~Fail(p, s)
  <1>1. StampsInv => [A]_vars
    <2> SUFFICES ASSUME StampsInv, NEW p \in Pkgs \ torn, NEW s \in Steps, Fail(p, s)
                 PROVE  FALSE
      OBVIOUS
    <2> QED BY SoundDoesNotFail DEF Fail, StampsInv, SoundInv
  <1> QED
    BY <1>1, StampsInvariant, PTL DEF Spec, FailsOnlyWhenTorn

(***************************************************************************)
(* A -rebuild or -reconfigure that succeeds has copied the sources as they *)
(* were in the override directory when it was given, or younger, and all   *)
(* of them, whatever earlier commands left.                                *)
(***************************************************************************)
THEOREM RebuildsCopy ==
  ASSUME CleansFirst PROVE Spec => RebuildCopies
  <1> DEFINE A == \A p \in Override : Rebuilt(p) => tree[p].whole /\ tree[p].rev >= asked[p]
  <1>1. StampsInv => [A]_vars
    <2> SUFFICES ASSUME StampsInv, NEW p \in Override, Rebuilt(p)
                 PROVE  tree[p].whole /\ tree[p].rev >= asked[p]
      OBVIOUS
    <2>1. p \in Pkgs /\ rms = <<>>
      BY StampsAssumption DEF Rebuilt, Succeeds, NextGoal
    <2>2. "rsynced" \in stamps[p]
      BY <2>1, InstalledIsSettled DEF Rebuilt, Pipeline, UpToDate
    <2>3. <<p, "clean-for-reinstall">> \in done
      BY DEF Rebuilt, StampsInv, DoneClosed, Prerequisites, Before
    <2> QED BY <2>1, <2>2, <2>3 DEF StampsInv, CopyInv
  <1> QED
    BY <1>1, StampsInvariant, PTL DEF Spec, RebuildCopies
=============================================================================
