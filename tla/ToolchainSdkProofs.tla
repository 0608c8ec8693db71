------------------------- MODULE ToolchainSdkProofs -------------------------
EXTENDS ToolchainSdk, TLAPS

USE DEF shared, output, script, locals

LEMMA AbsentType == Absent \in Contents
  BY VersionAssumption DEF Absent, Contents, Shapes

LEMMA WholeType == \A v \in 0 .. MaxVersion : Whole(v) \in Contents
  BY DEF Whole, Contents, Shapes

LEMMA ShapedType == \A c \in Contents, s \in Shapes : Shaped(c, s) \in Contents
  BY DEF Shaped, Contents

LEMMA NameType ==
  /\ \A b \in Boards : Sdk(b) \in Names /\ Tmp(b) \in Names
  /\ \A t \in Toolchains : Vendor(t) \in Names
  BY DEF Names, Sdk, Tmp, Vendor

LEMMA ContextType ==
  \A r \in Runs : BoardOf[r] \in Boards /\ ToolchainOf[BoardOf[r]] \in Toolchains
  BY BoardAssumption

LEMMA InitType == Init => TypeOK
  <1> SUFFICES ASSUME Init PROVE TypeOK
    OBVIOUS
  <1> USE DEF Init
  <1>1. files \in [Names -> Contents] /\ cache \in [Names -> Contents]
    BY AbsentType
  <1>2. source \in [Toolchains -> 0 .. MaxVersion]
    BY VersionAssumption
  <1>3. config \in [Boards -> Configs]
    BY DEF NoConfig, Configs, Rels
  <1>4. ext \in [Boards -> Contents]
    BY AbsentType
  <1>5. events \in 0 .. MaxEvents
    BY EventAssumption
  <1>6. sysroot \in [Boards -> 0 .. MaxVersion] /\ staged \in [Runs -> 0 .. MaxVersion]
    BY VersionAssumption
  <1> QED
    BY <1>1, <1>2, <1>3, <1>4, <1>5, <1>6 DEF TypeOK, PCs, Kinds, Rels

LEMMA GotoType ==
  ASSUME TypeOK, NEW r \in Runs, NEW l \in PCs, Goto(r, l)
  PROVE  pc' \in [Runs -> PCs]
  BY DEF TypeOK, Goto

LEMMA ExitType ==
  ASSUME TypeOK, NEW r \in Runs, NEW l \in PCs, Exit(r, l)
  PROVE  /\ pc' \in [Runs -> PCs] /\ kind' \in [Runs -> Kinds]
         /\ cand' \in [Runs -> SUBSET Names] /\ rejected' \in [Runs -> BOOLEAN]
         /\ arch' \in [Runs -> Names \cup {NoName}] /\ rel' \in [Runs -> Rels]
         /\ refreshed' \in [Runs -> BOOLEAN] /\ staged' \in [Runs -> 0 .. MaxVersion]
  BY VersionAssumption DEF TypeOK, Exit, Goto, Rels

LEMMA UnlinkType ==
  ASSUME TypeOK, NEW n \in Names, Unlink(n)
  PROVE  files' \in [Names -> Contents] /\ writers' \in [Names -> SUBSET Runs]
  BY AbsentType DEF TypeOK, Unlink

LEMMA StartType ==
  ASSUME TypeOK, NEW r \in Runs, NEW k \in Kinds, Start(r, k) PROVE TypeOK'
  BY DEF TypeOK, Start, Goto, PCs, Kinds

LEMMA RelOfType ==
  ASSUME TypeOK, NEW n \in Names PROVE RelOf(n) \in Rels
  <1>1. files[n].ver \in 0 .. MaxVersion
    BY DEF TypeOK, Contents
  <1>2. CASE files[n].ver # 0
    BY <1>1, <1>2, VersionAssumption DEF RelOf, Rels, Versions
  <1>3. CASE files[n].ver = 0
    BY <1>3 DEF RelOf, Rels
  <1> QED
    BY <1>2, <1>3

LEMMA ResolveType ==
  ASSUME TypeOK, NEW r \in Runs, Resolve(r) PROVE TypeOK'
  <1>1. CASE Glob(r)
    BY <1>1 DEF TypeOK, Glob, Goto, PCs
  <1>2. CASE FailProbe(r)
    <2>1. Exit(r, "failed") BY <1>2 DEF FailProbe
    <2> QED BY <1>2, <2>1, ExitType DEF FailProbe, TypeOK, PCs
  <1>3. CASE NoCandidate(r)
    BY <1>3 DEF TypeOK, NoCandidate, Goto, PCs
  <1>4. CASE CompareCache(r)
    BY <1>4 DEF TypeOK, CompareCache, Goto, PCs
  <1>5. CASE RemoveCache(r)
    BY <1>5, AbsentType DEF TypeOK, RemoveCache, Goto, PCs
  <1>6. ASSUME NEW n \in Names, Accept(r, n) PROVE TypeOK'
    BY <1>6, RelOfType DEF TypeOK, Accept, Goto, PCs
  <1>7. ASSUME NEW n \in Names, Reject(r, n) PROVE TypeOK'
    BY <1>7 DEF TypeOK, Reject
  <1> QED
    BY <1>1, <1>2, <1>3, <1>4, <1>5, <1>6, <1>7 DEF Resolve

LEMMA CreateType ==
  ASSUME TypeOK, NEW r \in Runs, Create(r) PROVE TypeOK'
  <1> USE ContextType, NameType
  <1>1. CASE FailSource(r)
    <2>1. Exit(r, "failed") BY <1>1 DEF FailSource
    <2> QED BY <1>1, <2>1, ExitType DEF FailSource, TypeOK, PCs
  <1>2. CASE Prepare(r)
    <2>1. Unlink(Tmp(BoardOf[r])) BY <1>2 DEF Prepare
    <2> QED BY <1>2, <2>1, UnlinkType DEF Prepare, TypeOK, Goto, PCs, Rels
  <1>3. CASE Copy(r)
    BY <1>3 DEF Copy, TypeOK, Goto, PCs
  <1>4. CASE FailCopy(r)
    <2>1. Unlink(Tmp(BoardOf[r])) /\ Exit(r, "failed") BY <1>4 DEF FailCopy
    <2> QED BY <1>4, <2>1, UnlinkType, ExitType DEF FailCopy, TypeOK, PCs
  <1>5. CASE OpenTmp(r)
    <2> DEFINE c == [shape |-> "short",
                     ver |-> IF writers[Tmp(BoardOf[r])] = {} THEN staged[r] ELSE 0]
    <2>1. c \in Contents
      BY VersionAssumption DEF TypeOK, Contents, Shapes
    <2>2. files' = [files EXCEPT ![Tmp(BoardOf[r])] = c]
      BY <1>5 DEF OpenTmp
    <2> HIDE DEF c
    <2> QED BY <1>5, <2>1, <2>2 DEF OpenTmp, TypeOK, Goto, PCs
  <1>6. ASSUME NEW n \in Names, WriteTools(r, n) PROVE TypeOK'
    <2>1. files[n] \in Contents /\ "listed" \in Shapes
      BY DEF TypeOK, Shapes
    <2> QED BY <1>6, <2>1, ShapedType DEF WriteTools, TypeOK
  <1>7. CASE WriteEnd(r)
    <2>1. \A n \in Names : files[n].ver \in 0 .. MaxVersion
      BY DEF TypeOK, Contents
    <2>2. files' \in [Names -> Contents]
      BY <1>7, <2>1, WholeType DEF WriteEnd, TypeOK
    <2> QED BY <1>7, <2>2 DEF WriteEnd, TypeOK, Goto, PCs
  <1>8. CASE Publish(r)
    BY <1>8, AbsentType DEF Publish, TypeOK, Goto, PCs
  <1>9. CASE FailPublish(r)
    <2>1. Exit(r, "failed") BY <1>9 DEF FailPublish
    <2> QED BY <1>9, <2>1, ExitType DEF FailPublish, TypeOK, PCs
  <1> QED
    BY <1>1, <1>2, <1>3, <1>4, <1>5, <1>6, <1>7, <1>8, <1>9 DEF Create

LEMMA InvalidateType ==
  ASSUME TypeOK, NEW r \in Runs, Invalidate(r) PROVE TypeOK'
  <1> USE ContextType
  <1>1. CASE Check(r)
    BY <1>1 DEF Check, TypeOK, Goto, PCs
  <1>2. CASE RemoveBuild(r)
    BY <1>2 DEF RemoveBuild, TypeOK, Goto, PCs
  <1>3. CASE RemoveExt(r)
    <2>1. ext' \in [Boards -> Contents]
      <3>1. ext[BoardOf[r]] \in Contents /\ "short" \in Shapes
        BY DEF TypeOK, Shapes
      <3> QED BY <1>3, <3>1, AbsentType, ShapedType DEF RemoveExt, TypeOK
    <2>2. pc' \in [Runs -> PCs]
      BY <1>3 DEF RemoveExt, TypeOK, Goto, PCs
    <2> QED BY <1>3, <2>1, <2>2 DEF RemoveExt, TypeOK
  <1> QED
    BY <1>1, <1>2, <1>3 DEF Invalidate

LEMMA MakeType ==
  ASSUME TypeOK, NEW r \in Runs, Make(r) PROVE TypeOK'
  <1> DEFINE b == BoardOf[r]
  <1> USE ContextType
  <1>1. CASE Defconfig(r)
    <2> DEFINE c == IF arch[r] = NoName THEN BoardConfig(FALSE)
                    ELSE [url |-> arch[r], rel |-> rel[r], edited |-> FALSE]
    <2>1. c \in Configs
      BY DEF TypeOK, BoardConfig, Configs, Rels
    <2>2. config' = [config EXCEPT ![b] = c]
      BY <1>1 DEF Defconfig
    <2> HIDE DEF c
    <2>3. config' \in [Boards -> Configs]
      BY <2>1, <2>2 DEF TypeOK
    <2>4. pc' \in [Runs -> PCs]
      BY <1>1 DEF Defconfig, TypeOK, Goto, PCs
    <2> QED BY <1>1, <2>3, <2>4 DEF Defconfig, TypeOK
  <1>2. CASE Edit(r)
    <2>1. Exit(r, "done") BY <1>2 DEF Edit
    <2>2. config' \in [Boards -> Configs]
      <3>1. PICK e \in BOOLEAN : config' = [config EXCEPT ![BoardOf[r]].edited = e]
        BY <1>2 DEF Edit
      <3> DEFINE c == [config[BoardOf[r]] EXCEPT !.edited = e]
      <3>2. BoardOf[r] \in Boards /\ config[BoardOf[r]] \in Configs
        BY DEF TypeOK
      <3>3. c \in Configs
        BY <3>2 DEF Configs
      <3>4. config' = [config EXCEPT ![BoardOf[r]] = c]
        BY <3>1
      <3> HIDE DEF c
      <3> QED BY <3>3, <3>4 DEF TypeOK
    <2> QED BY <1>2, <2>1, <2>2, ExitType DEF Edit, TypeOK, PCs
  <1>3. CASE MakeInternal(r)
    <2>1. Exit(r, "done") BY <1>3 DEF MakeInternal
    <2> QED BY <1>3, <2>1, ExitType DEF MakeInternal, TypeOK, PCs
  <1>4. CASE Download(r)
    <2>1. config[b].url \in Names
      BY <1>4 DEF Download, External, TypeOK, Configs
    <2>2. files[config[b].url] \in Contents
      BY <2>1 DEF TypeOK
    <2>3. cache' \in [Names -> Contents] /\ newer' \in [Names -> BOOLEAN]
      BY <1>4, <2>2 DEF Download, TypeOK
    <2>4. stamps' \in [Boards -> SUBSET Stamps]
      BY <1>4 DEF Download, TypeOK, Stamps
    <2> QED BY <1>4, <2>3, <2>4 DEF Download, TypeOK
  <1>5. CASE Extract(r)
    <2>1. config[b].url \in Names
      BY <1>5 DEF Extract, External, TypeOK, Configs
    <2> DEFINE c == Shaped(cache[config[b].url], "short")
    <2>2. c \in Contents
      BY <2>1, ShapedType DEF TypeOK, Shapes
    <2>3. ext' = [ext EXCEPT ![b] = c]
      BY <1>5 DEF Extract
    <2> HIDE DEF c
    <2> QED BY <1>5, <2>2, <2>3 DEF Extract, TypeOK, Goto, PCs
  <1>6. CASE Move(r)
    <2>0. ext[b] \in Contents /\ "whole" \in Shapes
      BY DEF TypeOK, Shapes
    <2>1. ext' \in [Boards -> Contents]
      BY <1>6, <2>0, ShapedType DEF Move, TypeOK
    <2>2. stamps' \in [Boards -> SUBSET Stamps]
      BY <1>6 DEF Move, TypeOK, Stamps
    <2>3. pc' \in [Runs -> PCs]
      BY <1>6 DEF Move, TypeOK, Goto, PCs
    <2> QED BY <1>6, <2>1, <2>2, <2>3 DEF Move, TypeOK
  <1>7. CASE Install(r)
    <2>1. ext[b].ver \in 0 .. MaxVersion
      BY DEF TypeOK, Contents
    <2> QED BY <1>7, <2>1 DEF Install, TypeOK
  <1>8. CASE FailMake(r)
    <2>1. Exit(r, "failed") BY <1>8 DEF FailMake
    <2> QED BY <1>8, <2>1, ExitType DEF FailMake, TypeOK, PCs
  <1>9. CASE Finish(r)
    <2>1. Exit(r, "done") BY <1>9 DEF Finish
    <2> QED BY <1>9, <2>1, ExitType DEF Finish, TypeOK, PCs
  <1> QED
    BY <1>1, <1>2, <1>3, <1>4, <1>5, <1>6, <1>7, <1>8, <1>9 DEF Make

LEMMA EnvironmentType ==
  ASSUME TypeOK, Environment PROVE TypeOK'
  <1>0. ASSUME NEW e, Happens(e) PROVE events' \in 0 .. MaxEvents
    BY <1>0, EventAssumption DEF Happens, TypeOK
  <1>1. ASSUME NEW r \in Runs, Kill(r) PROVE TypeOK'
    <2>1. Exit(r, "idle") /\ events' \in 0 .. MaxEvents
      BY <1>1, <1>0 DEF Kill, Stopped
    <2>2. files' \in [Names -> Contents]
      <3>1. ASSUME NEW n \in Names, NEW s \in WrittenShapes(files[n])
            PROVE  Shaped(files[n], s) \in Contents
        BY ShapedType DEF WrittenShapes, TypeOK, Shapes
      <3> QED BY <1>1, <3>1 DEF Kill, TypeOK
    <2> QED BY <1>1, <2>1, <2>2, ExitType DEF Kill, Stopped, TypeOK, PCs
  <1>2. ASSUME NEW r \in Runs, Interrupt(r) PROVE TypeOK'
    <2>1. Exit(r, "idle") /\ events' \in 0 .. MaxEvents
      BY <1>2, <1>0 DEF Interrupt, Stopped
    <2>2. files' \in [Names -> Contents] /\ writers' \in [Names -> SUBSET Runs]
      BY <1>2, UnlinkType, ContextType, NameType DEF Interrupt, TypeOK
    <2> QED BY <1>2, <2>1, <2>2, ExitType DEF Interrupt, Stopped, TypeOK, PCs
  <1>3. ASSUME NEW n \in UserNames, NEW v \in Versions, NEW fresh \in BOOLEAN, Place(n, v, fresh)
        PROVE  TypeOK'
    <2>1. events' \in 0 .. MaxEvents
      BY <1>3, <1>0 DEF Place, UserActs
    <2>2. Whole(v) \in Contents
      BY WholeType, VersionAssumption DEF Versions
    <2>3. /\ files' = [files EXCEPT ![n] = Whole(v)]
          /\ writers' = [writers EXCEPT ![n] = {}]
          /\ newer' = [newer EXCEPT ![n] = fresh]
      BY <1>3 DEF Place
    <2>4. files' \in [Names -> Contents] /\ newer' \in [Names -> BOOLEAN]
      BY <2>2, <2>3 DEF TypeOK
    <2>5. writers' \in [Names -> SUBSET Runs]
      BY <2>3 DEF TypeOK
    <2> QED BY <1>3, <2>1, <2>4, <2>5 DEF Place, TypeOK
  <1>4. ASSUME NEW n \in Names, Remove(n) PROVE TypeOK'
    <2>1. events' \in 0 .. MaxEvents /\ Unlink(n)
      BY <1>4, <1>0 DEF Remove, UserActs
    <2> QED BY <1>4, <2>1, UnlinkType DEF Remove, TypeOK
  <1>5. ASSUME NEW t \in Toolchains, NEW v \in 0 .. MaxVersion, Upgrade(t, v) PROVE TypeOK'
    <2>1. events' \in 0 .. MaxEvents
      BY <1>5, <1>0 DEF Upgrade, UserActs
    <2> QED BY <1>5, <2>1 DEF Upgrade, TypeOK
  <1>6. ASSUME NEW b \in Boards, CleanHost(b) PROVE TypeOK'
    <2>1. events' \in 0 .. MaxEvents
      BY <1>6, <1>0 DEF CleanHost, UserActs
    <2> QED BY <1>6, <2>1, AbsentType, VersionAssumption DEF CleanHost, TypeOK
  <1>7. ASSUME NEW b \in Boards, DistClean(b) PROVE TypeOK'
    <2>1. events' \in 0 .. MaxEvents
      BY <1>7, <1>0 DEF DistClean, UserActs
    <2>2. NoConfig \in Configs
      BY DEF NoConfig, Configs, Rels
    <2> QED BY <1>7, <2>1, <2>2, AbsentType, VersionAssumption DEF DistClean, TypeOK
  <1> QED
    BY <1>1, <1>2, <1>3, <1>4, <1>5, <1>6, <1>7 DEF Environment

LEMMA NextType == TypeOK /\ [Next]_vars => TypeOK'
  <1> SUFFICES ASSUME TypeOK, [Next]_vars PROVE TypeOK'
    OBVIOUS
  <1>1. ASSUME NEW r \in Runs, Step(r) PROVE TypeOK'
    BY <1>1, ResolveType, CreateType, InvalidateType, MakeType DEF Step
  <1>2. ASSUME NEW r \in Runs, NEW k \in Kinds, Start(r, k) PROVE TypeOK'
    BY <1>2, StartType
  <1>3. CASE Environment
    BY <1>3, EnvironmentType
  <1>4. CASE UNCHANGED vars
    BY <1>4 DEF vars, TypeOK
  <1> QED
    BY <1>1, <1>2, <1>3, <1>4 DEF Next

(***************************************************************************)
(* The state of the archives, the output directories and the runs stays    *)
(* within its declared values whatever the boards, runs, versions and      *)
(* events are.                                                             *)
(***************************************************************************)
THEOREM TypeCorrect == Spec => []TypeOK
  BY InitType, NextType, PTL DEF Spec

-----------------------------------------------------------------------------
(***************************************************************************)
(* The discipline of the .tmp name behind PublishedWhole.  A run writes to *)
(* its own board's .tmp and only between opening it and the end of the     *)
(* compressor; what it writes is one version; and when it renames the file *)
(* nobody writes to it any more.                                           *)
(***************************************************************************)
OwnTmp(r) == Tmp(BoardOf[r])

ArchiveInv ==
  \A b \in Boards : files[Sdk(b)].shape \in {"absent", "whole"} /\ writers[Sdk(b)] = {}
WritersInv ==
  \A r \in Runs, n \in Names : r \in writers[n] => n = OwnTmp(r) /\ pc[r] = "write"
TmpOK(r) ==
  /\ pc[r] \in {"open", "write"} => staged[r] # 0
  /\ r \in writers[OwnTmp(r)] => files[OwnTmp(r)].ver # 0
  /\ pc[r] = "write" /\ Exists(files[OwnTmp(r)]) => r \in writers[OwnTmp(r)]
  /\ pc[r] = "publish" => files[OwnTmp(r)].shape \in {"absent", "whole"}
PublishInv == TypeOK /\ ArchiveInv /\ WritersInv /\ \A r \in Runs : TmpOK(r)

LEMMA NamesApart ==
  /\ \A b, c \in Boards : Sdk(b) # Tmp(c) /\ (Tmp(b) = Tmp(c) => b = c)
  /\ \A n \in UserNames, b \in Boards : n # Tmp(b)
  BY DEF Sdk, Tmp, UserNames

\* A run that leaves the archives alone and does not stand between open and publish.
LEMMA QuietPublish ==
  ASSUME PublishInv, TypeOK', NEW r \in Runs, UNCHANGED <<files, writers>>,
         pc[r] # "write", pc'[r] \notin {"open", "write", "publish"},
         \A q \in Runs \ {r} : pc'[q] = pc[q] /\ staged'[q] = staged[q]
  PROVE  PublishInv'
  BY DEF PublishInv, ArchiveInv, WritersInv, TmpOK, OwnTmp

(***************************************************************************)
(* Nobody but a run of the board touches the board's .tmp: such a run may  *)
(* change it as it likes if TmpOK still holds of the run itself.           *)
(***************************************************************************)
LEMMA OwnPublish ==
  ASSUME PublishInv, TypeOK', OneRunPerBoard, NEW r \in Runs,
         \A n \in Names \ {OwnTmp(r)} : files'[n] = files[n] /\ writers'[n] = writers[n],
         \A q \in Runs \ {r} : pc'[q] = pc[q] /\ staged'[q] = staged[q],
         writers'[OwnTmp(r)] \subseteq {r},
         r \in writers'[OwnTmp(r)] => pc'[r] = "write",
         TmpOK(r)'
  PROVE  PublishInv'
  <1> USE DEF PublishInv
  <1>1. OwnTmp(r) \in Names /\ \A q \in Runs \ {r} : OwnTmp(q) \in Names \ {OwnTmp(r)}
    BY ContextType, NameType, NamesApart DEF OneRunPerBoard, OwnTmp
  <1>2. \A b \in Boards : Sdk(b) \in Names \ {OwnTmp(r)}
    BY NameType, NamesApart, ContextType DEF OwnTmp
  <1>3. ArchiveInv'
    BY <1>2 DEF ArchiveInv
  <1>4. WritersInv'
    <2> SUFFICES ASSUME NEW q \in Runs, NEW n \in Names, q \in writers'[n]
                 PROVE  n = OwnTmp(q) /\ pc'[q] = "write"
      BY DEF WritersInv, OwnTmp
    <2>1. CASE n = OwnTmp(r)
      BY <2>1
    <2>2. CASE n # OwnTmp(r)
      BY <2>2, <1>1 DEF WritersInv
    <2> QED BY <2>1, <2>2
  <1>5. ASSUME NEW q \in Runs \ {r} PROVE TmpOK(q)'
    BY <1>1, <1>5 DEF TmpOK, OwnTmp, Exists
  <1> QED
    BY <1>3, <1>4, <1>5

\* Whoever writes to the .tmp of r is r, and only while it compresses.
LEMMA OnlyWriter ==
  ASSUME PublishInv, OneRunPerBoard, NEW r \in Runs
  PROVE  writers[OwnTmp(r)] \subseteq {r} /\ (pc[r] # "write" => writers[OwnTmp(r)] = {})
  <1>1. OwnTmp(r) \in Names
    BY ContextType, NameType DEF OwnTmp
  <1> SUFFICES ASSUME NEW q \in writers[OwnTmp(r)] PROVE q = r /\ pc[r] = "write"
    OBVIOUS
  <1>2. q \in Runs
    BY <1>1 DEF PublishInv, TypeOK
  <1>3. OwnTmp(r) = OwnTmp(q) /\ pc[q] = "write"
    BY <1>1, <1>2 DEF PublishInv, WritersInv
  <1> QED
    BY <1>2, <1>3, ContextType, NamesApart DEF OneRunPerBoard, OwnTmp

LEMMA CreatePublish ==
  ASSUME PublishInv, TypeOK', OneRunPerBoard, NEW r \in Runs, Create(r) PROVE PublishInv'
  <1> DEFINE t == OwnTmp(r)
  <1> USE DEF PublishInv, TypeOK
  <1>0. t \in Names /\ BoardOf[r] \in Boards
    BY ContextType, NameType DEF OwnTmp
  <1>1. CASE FailSource(r)
    BY <1>1, QuietPublish DEF FailSource, Exit, Goto
  <1>2. CASE Prepare(r)
    BY <1>0, <1>2, OwnPublish DEF Prepare, Unlink, Goto, TmpOK, OwnTmp, Absent
  <1>3. CASE Copy(r)
    <2>1. writers[t] = {} /\ UNCHANGED <<files, writers>> /\ pc'[r] = "open"
      BY <1>3, OnlyWriter DEF Copy, Goto
    <2>2. staged'[r] # 0
      BY <1>3 DEF Copy
    <2>3. \A q \in Runs \ {r} : pc'[q] = pc[q] /\ staged'[q] = staged[q]
      BY <1>3 DEF Copy, Goto
    <2> QED BY <1>0, <2>1, <2>2, <2>3, OwnPublish DEF TmpOK, OwnTmp
  <1>4. CASE FailCopy(r)
    BY <1>0, <1>4, OwnPublish DEF FailCopy, Unlink, Exit, Goto, TmpOK, OwnTmp, Absent
  <1>5. CASE OpenTmp(r)
    <2>1. writers[t] = {} /\ staged[r] # 0
      BY <1>5, OnlyWriter DEF OpenTmp, TmpOK
    <2>2. files'[t].ver # 0 /\ writers'[t] = {r} /\ pc'[r] = "write" /\ staged'[r] # 0
      BY <1>0, <1>5, <2>1 DEF OpenTmp, Goto, OwnTmp
    <2>3. \A n \in Names \ {t} : files'[n] = files[n] /\ writers'[n] = writers[n]
      BY <1>5 DEF OpenTmp, OwnTmp
    <2> QED BY <1>0, <1>5, <2>2, <2>3, OwnPublish DEF OpenTmp, Goto, TmpOK, OwnTmp
  <1>6. ASSUME NEW n \in Names, WriteTools(r, n) PROVE PublishInv'
    <2>1. n = t
      BY <1>6 DEF WriteTools, WritersInv
    <2>2. UNCHANGED <<writers, pc, staged>> /\ pc[r] = "write" /\ r \in writers[t]
      BY <1>6, <2>1 DEF WriteTools
    <2>3. /\ files'[t] = Shaped(files[t], "listed")
          /\ \A m \in Names \ {t} : files'[m] = files[m]
      BY <1>0, <1>6, <2>1 DEF WriteTools
    <2>4. TmpOK(r)'
      BY <2>2, <2>3 DEF TmpOK, OwnTmp, Shaped
    <2> QED BY <1>0, <2>2, <2>3, <2>4, OwnPublish, OnlyWriter DEF OwnTmp
  <1>7. CASE WriteEnd(r)
    <2>1. \A n \in Names \ {t} : files'[n] = files[n] /\ writers'[n] = writers[n]
      BY <1>7 DEF WriteEnd, WritersInv
    <2>2. writers'[t] = {} /\ pc'[r] = "publish"
      BY <1>0, <1>7, OnlyWriter DEF WriteEnd, Goto
    <2>3. files'[t].shape \in {"absent", "whole"}
      BY <1>0, <1>7 DEF WriteEnd, TmpOK, Exists, Whole
    <2> QED BY <1>0, <1>7, <2>1, <2>2, <2>3, OwnPublish DEF WriteEnd, Goto, TmpOK, OwnTmp
  <1>8. CASE Publish(r)
    <2> DEFINE s == Sdk(BoardOf[r])
    <2>1. writers[t] = {} /\ files[t].shape = "whole"
      BY <1>8, OnlyWriter DEF Publish, TmpOK, OwnTmp, Exists
    <2>2. s \in Names /\ s # t
      BY <1>0, NameType, NamesApart DEF OwnTmp
    <2>3. /\ files'[s] = files[t] /\ files'[t] = Absent /\ writers'[s] = {} /\ writers'[t] = {}
          /\ \A n \in Names \ {s, t} : files'[n] = files[n] /\ writers'[n] = writers[n]
      BY <1>0, <1>8, <2>1, <2>2 DEF Publish, OwnTmp
    <2>4. ArchiveInv'
      <3> SUFFICES ASSUME NEW b \in Boards
                   PROVE  files'[Sdk(b)].shape \in {"absent", "whole"} /\ writers'[Sdk(b)] = {}
        BY DEF ArchiveInv
      <3>1. Sdk(b) \in Names \ {t}
        BY <1>0, NameType, NamesApart DEF OwnTmp
      <3> QED BY <2>1, <2>3, <3>1 DEF ArchiveInv
    <2>5. WritersInv'
      BY <1>8, <2>3 DEF Publish, Goto, WritersInv, OwnTmp
    <2>6. ASSUME NEW q \in Runs PROVE TmpOK(q)'
      <3>1. OwnTmp(q) \in Names /\ OwnTmp(q) # s /\ (q # r => OwnTmp(q) # t)
        BY <1>0, ContextType, NameType, NamesApart DEF OneRunPerBoard, OwnTmp
      <3> QED BY <1>8, <2>3, <3>1 DEF Publish, Goto, TmpOK, OwnTmp, Exists
    <2> QED BY <2>4, <2>5, <2>6
  <1>9. CASE FailPublish(r)
    BY <1>9, QuietPublish DEF FailPublish, Exit, Goto
  <1> QED
    BY <1>1, <1>2, <1>3, <1>4, <1>5, <1>6, <1>7, <1>8, <1>9 DEF Create

LEMMA EnvironmentPublish ==
  ASSUME PublishInv, TypeOK', OneRunPerBoard, Environment PROVE PublishInv'
  <1> USE DEF PublishInv, TypeOK
  <1>1. ASSUME NEW r \in Runs, Kill(r) PROVE PublishInv'
    <2> DEFINE t == OwnTmp(r)
    <2>0. t \in Names
      BY ContextType, NameType DEF OwnTmp
    <2>1. \A n \in Names \ {t} : files'[n] = files[n] /\ writers'[n] = writers[n]
      BY <1>1 DEF Kill, WritersInv
    <2>2. writers'[t] = {} /\ pc'[r] = "idle"
      BY <1>1, <2>0, OnlyWriter DEF Kill, Stopped, Exit, Goto
    <2> QED BY <1>1, <2>0, <2>1, <2>2, OwnPublish DEF Kill, Stopped, Exit, Goto, TmpOK, OwnTmp
  <1>2. ASSUME NEW r \in Runs, Interrupt(r) PROVE PublishInv'
    <2>0. OwnTmp(r) \in Names
      BY ContextType, NameType DEF OwnTmp
    <2>1. CASE pc[r] \in Creating
      BY <1>2, <2>0, <2>1, OwnPublish
         DEF Interrupt, Unlink, Stopped, Exit, Goto, TmpOK, OwnTmp, Absent
    <2>2. CASE pc[r] \notin Creating
      BY <1>2, <2>2, QuietPublish DEF Interrupt, Stopped, Exit, Goto, Creating
    <2> QED BY <2>1, <2>2
  <1>3. ASSUME NEW n \in UserNames, NEW v \in Versions, NEW fresh \in BOOLEAN, Place(n, v, fresh)
        PROVE  PublishInv'
    <2>1. n \in Names /\ \A r \in Runs : n # OwnTmp(r)
      BY NamesApart, ContextType DEF UserNames, OwnTmp
    <2> QED BY <1>3, <2>1, NameType
              DEF Place, Whole, ArchiveInv, WritersInv, TmpOK, OwnTmp, Exists
  <1>4. ASSUME NEW n \in Names, Remove(n) PROVE PublishInv'
    BY <1>4, NameType, ContextType
       DEF Remove, Unlink, Absent, ArchiveInv, WritersInv, TmpOK, OwnTmp, Exists
  <1>5. ASSUME UNCHANGED <<files, writers, pc, staged>> PROVE PublishInv'
    BY <1>5 DEF ArchiveInv, WritersInv, TmpOK, OwnTmp
  <1> QED
    BY <1>1, <1>2, <1>3, <1>4, <1>5 DEF Environment, Upgrade, CleanHost, DistClean

LEMMA PublishInvariant ==
  ASSUME OneRunPerBoard
  PROVE  (Init => PublishInv) /\ (PublishInv /\ [Next]_vars => PublishInv')
  <1>1. Init => PublishInv
    BY InitType, NameType, ContextType
       DEF Init, PublishInv, ArchiveInv, WritersInv, TmpOK, OwnTmp, Absent
  <1>2. PublishInv /\ [Next]_vars => PublishInv'
    <2> SUFFICES ASSUME PublishInv, [Next]_vars PROVE PublishInv'
      OBVIOUS
    <2>0. TypeOK /\ TypeOK'
      BY NextType DEF PublishInv
    <2>1. ASSUME NEW r \in Runs, Create(r) PROVE PublishInv'
      BY <2>0, <2>1, CreatePublish
    <2>2. ASSUME NEW r \in Runs, Resolve(r) PROVE PublishInv'
      BY <2>0, <2>2, QuietPublish
         DEF TypeOK, Resolve, Glob, FailProbe, NoCandidate, CompareCache, RemoveCache,
             Accept, Reject, Exit, Goto
    <2>3. ASSUME NEW r \in Runs, Invalidate(r) PROVE PublishInv'
      BY <2>0, <2>3, QuietPublish
         DEF TypeOK, Invalidate, Check, RemoveBuild, RemoveExt, Goto
    <2>4. ASSUME NEW r \in Runs, Make(r) PROVE PublishInv'
      <3>1. CASE Defconfig(r) \/ Extract(r) \/ Move(r)
        BY <2>0, <3>1, QuietPublish DEF TypeOK, Defconfig, Extract, Move, Goto
      <3>2. CASE Edit(r) \/ MakeInternal(r) \/ FailMake(r) \/ Finish(r)
        <4>1. /\ Exit(r, "done") \/ Exit(r, "failed")
              /\ UNCHANGED <<files, writers>> /\ pc[r] # "write"
          BY <3>2 DEF Edit, MakeInternal, FailMake, Finish
        <4> QED BY <2>0, <4>1, QuietPublish DEF TypeOK, Exit, Goto
      <3>3. CASE Download(r) \/ Install(r)
        BY <2>0, <3>3, QuietPublish DEF Download, Install
      <3> QED BY <2>4, <3>1, <3>2, <3>3 DEF Make
    <2>5. ASSUME NEW r \in Runs, NEW k \in Kinds, Start(r, k) PROVE PublishInv'
      BY <2>0, <2>5, QuietPublish DEF TypeOK, Start, Active, Idle, Goto
    <2>6. CASE Environment
      BY <2>0, <2>6, EnvironmentPublish
    <2>7. CASE UNCHANGED vars
      BY <2>0, <2>7 DEF vars, PublishInv, ArchiveInv, WritersInv, TmpOK, OwnTmp
    <2> QED
      BY <2>1, <2>2, <2>3, <2>4, <2>5, <2>6, <2>7 DEF Next, Step
  <1> QED
    BY <1>1, <1>2

(***************************************************************************)
(* <board>-sdk-toolchain.tar.xz is complete whenever it exists: for any    *)
(* boards, versions and events, and kills at any moment, provided that     *)
(* no two runs build the same board.                                       *)
(***************************************************************************)
THEOREM PublishedIsWhole ==
  ASSUME OneRunPerBoard PROVE Spec => []PublishedWhole
  <1>1. PublishInv => PublishedWhole
    BY DEF PublishInv, ArchiveInv, PublishedWhole, Exists
  <1> QED
    BY <1>1, PublishInvariant, PTL DEF Spec

-----------------------------------------------------------------------------
(* The extracted toolchain of a board. *)

(***************************************************************************)
(* What the stamps of a board say of its host directory, and what a run    *)
(* that is past the invalidation knows of them.                            *)
(***************************************************************************)
BoardOK(b) ==
  /\ stamps[b] # {} \/ config[b].url # NoName => config[b].rel # "none"
  /\ "extracted" \in stamps[b] => ext[b].shape \in {"absent", "whole"}
  /\ {"extracted", "installed"} \subseteq stamps[b] /\ Exists(ext[b]) =>
       sysroot[b] = ext[b].ver
\* The directory was there when the stamps were looked at.
Checked(r) == "extracted" \in stamps[BoardOf[r]] => Exists(ext[BoardOf[r]])
RunOK(r) ==
  /\ arch[r] # NoName => rel[r] # "none" /\ Active(r)
  /\ pc[r] = "rmext" => stamps[BoardOf[r]] = {}
  /\ pc[r] = "move" => External(r) /\ "extracted" \notin stamps[BoardOf[r]]
  /\ pc[r] = "defconfig" /\ arch[r] # NoName => Checked(r)
  /\ pc[r] = "make" /\ External(r) => Checked(r)
HostInv == TypeOK /\ (\A b \in Boards : BoardOK(b)) /\ (\A r \in Runs : RunOK(r))

(***************************************************************************)
(* A run changes the output of its own board only, so what it does keeps   *)
(* HostInv if the run and its board are in order afterwards.               *)
(***************************************************************************)
LEMMA OwnHost ==
  ASSUME HostInv, TypeOK', OneRunPerBoard, NEW r \in Runs,
         \A b \in Boards \ {BoardOf[r]} :
            config'[b] = config[b] /\ stamps'[b] = stamps[b] /\ ext'[b] = ext[b] /\ sysroot'[b] = sysroot[b],
         \A q \in Runs \ {r} : pc'[q] = pc[q] /\ arch'[q] = arch[q] /\ rel'[q] = rel[q],
         BoardOK(BoardOf[r])', RunOK(r)'
  PROVE  HostInv'
  <1>1. ASSUME NEW b \in Boards \ {BoardOf[r]} PROVE BoardOK(b)'
    BY <1>1 DEF HostInv, BoardOK
  <1>2. ASSUME NEW q \in Runs \ {r} PROVE RunOK(q)'
    <2>1. BoardOf[q] \in Boards \ {BoardOf[r]}
      BY ContextType DEF OneRunPerBoard
    <2> QED BY <2>1 DEF HostInv, RunOK, Checked, Active, External
  <1> QED
    BY <1>1, <1>2 DEF HostInv

\* A run that leaves the output alone.
LEMMA QuietHost ==
  ASSUME HostInv, TypeOK', OneRunPerBoard, NEW r \in Runs, UNCHANGED output,
         \A q \in Runs \ {r} : pc'[q] = pc[q] /\ arch'[q] = arch[q] /\ rel'[q] = rel[q],
         RunOK(r)'
  PROVE  HostInv'
  <1>1. BoardOK(BoardOf[r])'
    BY ContextType DEF HostInv, BoardOK
  <1> QED
    BY <1>1, OwnHost

LEMMA ExitHost ==
  ASSUME HostInv, NEW r \in Runs, NEW l \in Idle, Exit(r, l)
  PROVE  /\ RunOK(r)'
         /\ \A q \in Runs \ {r} : pc'[q] = pc[q] /\ arch'[q] = arch[q] /\ rel'[q] = rel[q]
  BY DEF HostInv, TypeOK, Exit, Goto, Idle, RunOK

\* A run that goes on elsewhere than where RunOK says something.
LEMMA GotoHost ==
  ASSUME HostInv, NEW r \in Runs, NEW l \in PCs, Goto(r, l), UNCHANGED <<arch, rel>>,
         l \notin Idle \cup {"rmext", "move", "defconfig", "make"}
  PROVE  /\ RunOK(r)'
         /\ \A q \in Runs \ {r} : pc'[q] = pc[q] /\ arch'[q] = arch[q] /\ rel'[q] = rel[q]
  BY DEF HostInv, TypeOK, Goto, Idle, RunOK, Active

LEMMA StartHost ==
  ASSUME HostInv, TypeOK', OneRunPerBoard, NEW r \in Runs, NEW k \in Kinds, Start(r, k)
  PROVE  HostInv'
  <1>1. arch[r] = NoName /\ UNCHANGED <<output, arch, rel>>
    BY DEF HostInv, RunOK, Start
  <1>2. pc'[r] \in {"glob", "defconfig"} /\ \A q \in Runs \ {r} : pc'[q] = pc[q]
    BY DEF HostInv, TypeOK, Start, Goto
  <1>3. RunOK(r)'
    BY <1>1, <1>2 DEF RunOK
  <1> QED
    BY <1>1, <1>2, <1>3, QuietHost

LEMMA ResolveHost ==
  ASSUME HostInv, TypeOK', OneRunPerBoard, NEW r \in Runs, Resolve(r) PROVE HostInv'
  <1>0. UNCHANGED output
    BY DEF Resolve, Glob, FailProbe, NoCandidate, CompareCache, RemoveCache, Accept, Reject
  <1>1. CASE Glob(r) \/ NoCandidate(r) \/ CompareCache(r) \/ RemoveCache(r)
    <2>1. /\ \E l \in {"probe", "source", "rmcache", "check"} : Goto(r, l)
          /\ UNCHANGED <<arch, rel>>
      BY <1>1 DEF Glob, NoCandidate, CompareCache, RemoveCache
    <2> QED BY <1>0, <2>1, GotoHost, QuietHost DEF PCs, Idle
  <1>2. CASE FailProbe(r)
    BY <1>0, <1>2, ExitHost, QuietHost DEF FailProbe, Idle
  <1>3. ASSUME NEW n \in Names, Accept(r, n) PROVE HostInv'
    <2>1. rel'[r] # "none"
      <3>1. files[n].ver # 0 => files[n].ver \in Versions
        BY DEF HostInv, TypeOK, Contents, Versions
      <3> QED BY <1>3, <3>1, VersionAssumption DEF Accept, RelOf, HostInv, TypeOK
    <2>2. pc'[r] = "newer"
      BY <1>3 DEF Accept, Goto, HostInv, TypeOK
    <2>3. RunOK(r)'
      BY <2>1, <2>2 DEF RunOK, Active, Idle
    <2>4. \A q \in Runs \ {r} : pc'[q] = pc[q] /\ arch'[q] = arch[q] /\ rel'[q] = rel[q]
      BY <1>3 DEF Accept, Goto, HostInv, TypeOK
    <2> QED BY <1>0, <2>3, <2>4, QuietHost
  <1>4. ASSUME NEW n \in Names, Reject(r, n) PROVE HostInv'
    <2>1. UNCHANGED <<output, pc, arch, rel>>
      BY <1>4 DEF Reject
    <2> QED BY <2>1 DEF HostInv, BoardOK, RunOK, Checked, Active, External
  <1> QED
    BY <1>1, <1>2, <1>3, <1>4 DEF Resolve

LEMMA CreateHost ==
  ASSUME HostInv, TypeOK', OneRunPerBoard, NEW r \in Runs, Create(r) PROVE HostInv'
  <1>0. UNCHANGED output
    BY DEF Create, FailSource, Prepare, Copy, FailCopy, OpenTmp, WriteTools, WriteEnd, Publish,
           FailPublish
  <1>1. CASE FailSource(r) \/ FailCopy(r) \/ FailPublish(r)
    BY <1>0, <1>1, ExitHost, QuietHost DEF FailSource, FailCopy, FailPublish, Idle
  <1>2. CASE Prepare(r)
    <2>1. /\ rel'[r] = "bin" /\ pc'[r] = "copy"
          /\ \A q \in Runs \ {r} : pc'[q] = pc[q] /\ arch'[q] = arch[q] /\ rel'[q] = rel[q]
      BY <1>2 DEF Prepare, Goto, HostInv, TypeOK
    <2>2. RunOK(r)'
      BY <2>1 DEF RunOK, Active, Idle
    <2> QED BY <1>0, <2>1, <2>2, QuietHost
  <1>3. CASE Copy(r) \/ OpenTmp(r) \/ WriteEnd(r) \/ Publish(r)
    <2>1. /\ \E l \in {"open", "write", "publish", "rmcache"} : Goto(r, l)
          /\ UNCHANGED <<arch, rel>>
      BY <1>3 DEF Copy, OpenTmp, WriteEnd, Publish
    <2> QED BY <1>0, <2>1, GotoHost, QuietHost DEF PCs, Idle
  <1>4. ASSUME NEW n \in Names, WriteTools(r, n) PROVE HostInv'
    <2>1. UNCHANGED <<output, pc, arch, rel>>
      BY <1>4 DEF WriteTools
    <2> QED BY <2>1 DEF HostInv, BoardOK, RunOK, Checked, Active, External
  <1> QED
    BY <1>1, <1>2, <1>3, <1>4 DEF Create

LEMMA InvalidateHost ==
  ASSUME HostInv, TypeOK', OneRunPerBoard, NEW r \in Runs, Invalidate(r) PROVE HostInv'
  <1> DEFINE b == BoardOf[r]
  <1>0. b \in Boards /\ BoardOK(b) /\ RunOK(r)
    BY ContextType DEF HostInv
  <1>1. CASE Check(r)
    <2>1. UNCHANGED <<output, arch, rel>>
      BY <1>1 DEF Check
    <2>2. pc'[r] \in {"rmbuild", "defconfig"}
      BY <1>1 DEF Check, Goto, HostInv, TypeOK
    <2>3. pc'[r] = "defconfig" => Checked(r)
      <3>1. config[b] = NoConfig => stamps[b] = {}
        BY <1>0 DEF BoardOK, NoConfig
      <3> QED BY <1>1, <3>1 DEF Check, NeedsInvalidate, Goto, Checked, HostInv, TypeOK
    <2>4. RunOK(r)'
      <3>1. Active(r)' /\ pc'[r] \notin {"rmext", "move", "make"}
        BY <2>2 DEF Active, Idle
      <3>2. pc'[r] = "defconfig" => Checked(r)'
        BY <2>1, <2>2, <2>3 DEF Checked
      <3> QED BY <1>0, <2>1, <3>1, <3>2 DEF RunOK
    <2>5. \A q \in Runs \ {r} : pc'[q] = pc[q]
      BY <1>1 DEF Check, Goto, HostInv, TypeOK
    <2> QED BY <2>1, <2>4, <2>5, QuietHost
  <1>2. CASE RemoveBuild(r)
    <2>1. PICK S \in SUBSET stamps[b] :
            /\ S # stamps[b] \/ S = {}
            /\ stamps' = [stamps EXCEPT ![b] = S]
            /\ Goto(r, IF S = {} THEN "rmext" ELSE "rmbuild")
      BY <1>2 DEF RemoveBuild
    <2>2. UNCHANGED <<config, ext, sysroot, arch, rel>>
      BY <1>2 DEF RemoveBuild
    <2>3. stamps'[b] = S /\ \A c \in Boards \ {b} : stamps'[c] = stamps[c]
      BY <1>0, <2>1 DEF HostInv, TypeOK
    <2>4. /\ (pc'[r] = "rmext" /\ S = {}) \/ pc'[r] = "rmbuild"
          /\ \A q \in Runs \ {r} : pc'[q] = pc[q]
      BY <2>1 DEF Goto, HostInv, TypeOK
    <2>5. BoardOK(b)'
      BY <1>0, <2>2, <2>3 DEF BoardOK
    <2>6. RunOK(r)'
      BY <1>0, <2>2, <2>3, <2>4 DEF RunOK, Active, Idle
    <2> QED BY <2>2, <2>3, <2>4, <2>5, <2>6, OwnHost
  <1>3. CASE RemoveExt(r)
    <2>1. stamps[b] = {} /\ UNCHANGED <<config, stamps, sysroot, arch, rel>>
      BY <1>0, <1>3 DEF RemoveExt, RunOK
    <2>2. \A c \in Boards \ {b} : ext'[c] = ext[c]
      BY <1>3 DEF RemoveExt, HostInv, TypeOK
    <2>3. pc'[r] \in {"rmext", "defconfig"} /\ \A q \in Runs \ {r} : pc'[q] = pc[q]
      BY <1>3 DEF RemoveExt, Goto, HostInv, TypeOK
    <2>4. BoardOK(b)'
      BY <1>0, <2>1 DEF BoardOK
    <2>5. RunOK(r)'
      BY <1>0, <1>3, <2>1, <2>3 DEF RunOK, Checked, Active, Idle
    <2> QED BY <2>1, <2>2, <2>3, <2>4, <2>5, OwnHost
  <1> QED
    BY <1>1, <1>2, <1>3 DEF Invalidate

LEMMA MakeHost ==
  ASSUME HostInv, TypeOK', OneRunPerBoard, NEW r \in Runs, Make(r) PROVE HostInv'
  <1> DEFINE b == BoardOf[r]
  <1>0. b \in Boards /\ BoardOK(b) /\ RunOK(r)
    BY ContextType DEF HostInv
  <1>1. CASE Defconfig(r)
    <2>1. UNCHANGED <<stamps, ext, sysroot, arch, rel>>
      BY <1>1 DEF Defconfig
    <2>2. /\ config'[b] = IF arch[r] = NoName THEN BoardConfig(FALSE)
                          ELSE [url |-> arch[r], rel |-> rel[r], edited |-> FALSE]
          /\ \A c \in Boards \ {b} : config'[c] = config[c]
      BY <1>0, <1>1 DEF Defconfig, HostInv, TypeOK
    <2>3. pc'[r] \in {"edit", "make"} /\ \A q \in Runs \ {r} : pc'[q] = pc[q]
      BY <1>1 DEF Defconfig, Goto, HostInv, TypeOK
    <2>4. BoardOK(b)'
      BY <1>0, <2>1, <2>2 DEF BoardOK, BoardConfig, RunOK
    <2>5. External(r)' => Checked(r)'
      BY <1>0, <1>1, <2>1, <2>2 DEF External, Checked, BoardConfig, RunOK, Defconfig
    <2>6. RunOK(r)'
      BY <1>0, <2>1, <2>3, <2>5 DEF RunOK, Active, Idle
    <2> QED BY <2>1, <2>2, <2>3, <2>4, <2>6, OwnHost
  <1>2. CASE Edit(r)
    <2>1. Exit(r, "done") /\ UNCHANGED <<stamps, ext, sysroot>>
      BY <1>2 DEF Edit
    <2>2. /\ config'[b].url = config[b].url /\ config'[b].rel = config[b].rel
          /\ \A c \in Boards \ {b} : config'[c] = config[c]
      <3>1. PICK e \in BOOLEAN : config' = [config EXCEPT ![b].edited = e]
        BY <1>2 DEF Edit
      <3>2. config \in [Boards -> Configs] /\ config[b] \in Configs
        BY <1>0 DEF HostInv, TypeOK
      <3>3. config'[b] = [config[b] EXCEPT !.edited = e]
        BY <1>0, <3>1, <3>2
      <3> QED BY <3>1, <3>2, <3>3 DEF Configs
    <2>3. BoardOK(b)'
      BY <1>0, <2>1, <2>2 DEF BoardOK
    <2> QED BY <2>1, <2>2, <2>3, ExitHost, OwnHost DEF Idle
  <1>3. CASE MakeInternal(r) \/ FailMake(r) \/ Finish(r)
    <2>1. UNCHANGED output /\ \E l \in Idle : Exit(r, l)
      BY <1>3 DEF MakeInternal, FailMake, Finish, Idle
    <2> QED BY <2>1, ExitHost, QuietHost
  <1>4. CASE Download(r)
    <2>1. stamps'[b] = {"downloaded"} /\ \A c \in Boards \ {b} : stamps'[c] = stamps[c]
      BY <1>0, <1>4 DEF Download, HostInv, TypeOK
    <2>2. UNCHANGED <<config, ext, sysroot, pc, arch, rel>> /\ External(r) /\ pc[r] = "make"
      BY <1>4 DEF Download
    <2>3. BoardOK(b)'
      BY <1>0, <2>1, <2>2 DEF BoardOK, External
    <2>4. RunOK(r)'
      BY <1>0, <2>1, <2>2 DEF RunOK, Checked, Active
    <2> QED BY <2>1, <2>2, <2>3, <2>4, OwnHost
  <1>5. CASE Extract(r)
    <2>1. /\ UNCHANGED <<config, stamps, sysroot, arch, rel>>
          /\ "extracted" \notin stamps[b] /\ \A c \in Boards \ {b} : ext'[c] = ext[c]
      BY <1>5 DEF Extract, HostInv, TypeOK
    <2>2. pc'[r] = "move" /\ \A q \in Runs \ {r} : pc'[q] = pc[q]
      BY <1>5 DEF Extract, Goto, HostInv, TypeOK
    <2>3. BoardOK(b)'
      BY <1>0, <2>1 DEF BoardOK
    <2>4. RunOK(r)'
      BY <1>0, <1>5, <2>1, <2>2 DEF RunOK, Active, Idle, External, Extract
    <2> QED BY <2>1, <2>2, <2>3, <2>4, OwnHost
  <1>6. CASE Move(r)
    <2>1. /\ UNCHANGED <<config, sysroot, arch, rel>>
          /\ \A c \in Boards \ {b} : ext'[c] = ext[c] /\ stamps'[c] = stamps[c]
          /\ ext'[b] = Shaped(ext[b], "whole") /\ stamps'[b] = {"downloaded", "extracted"}
      BY <1>0, <1>6 DEF Move, HostInv, TypeOK
    <2>2. pc[r] = "move" /\ pc'[r] = "make" /\ \A q \in Runs \ {r} : pc'[q] = pc[q]
      BY <1>6 DEF Move, Goto, HostInv, TypeOK
    <2>3. config[b].rel # "none"
      BY <1>0, <2>2 DEF External, BoardOK, RunOK
    <2>4. BoardOK(b)'
      BY <1>0, <2>1, <2>3 DEF BoardOK, Shaped
    <2>5. RunOK(r)'
      BY <1>0, <2>1, <2>2 DEF RunOK, Checked, Active, Idle, Shaped, Exists
    <2> QED BY <2>1, <2>2, <2>4, <2>5, OwnHost
  <1>7. CASE Install(r)
    <2>1. /\ UNCHANGED <<config, ext, pc, arch, rel>> /\ ext[b].shape = "whole"
          /\ \A c \in Boards \ {b} : stamps'[c] = stamps[c] /\ sysroot'[c] = sysroot[c]
          /\ sysroot'[b] = ext[b].ver /\ pc[r] = "make" /\ External(r)
      BY <1>0, <1>7 DEF Install, HostInv, TypeOK
    <2>2. BoardOK(b)'
      BY <1>0, <2>1 DEF BoardOK, External
    <2>3. RunOK(r)'
      BY <1>0, <2>1 DEF RunOK, Checked, Active, Exists
    <2> QED BY <2>1, <2>2, <2>3, OwnHost
  <1> QED
    BY <1>1, <1>2, <1>3, <1>4, <1>5, <1>6, <1>7 DEF Make

LEMMA EnvironmentHost ==
  ASSUME HostInv, TypeOK', OneRunPerBoard, Environment PROVE HostInv'
  <1>1. ASSUME NEW r \in Runs, Kill(r) \/ Interrupt(r) PROVE HostInv'
    <2>1. Exit(r, "idle") /\ UNCHANGED output
      BY <1>1 DEF Kill, Interrupt, Stopped
    <2> QED BY <2>1, ExitHost, QuietHost DEF Idle
  <1>2. ASSUME UNCHANGED <<output, pc, arch, rel>> PROVE HostInv'
    BY <1>2 DEF HostInv, BoardOK, RunOK, Checked, Active, External
  <1>3. ASSUME NEW b \in Boards, CleanHost(b) \/ DistClean(b) PROVE HostInv'
    <2>1. /\ ext'[b] = Absent /\ UNCHANGED <<pc, arch, rel>> /\ BoardIdle(b)
          /\ \/ stamps'[b] = stamps[b] /\ config'[b] = config[b]
             \/ stamps'[b] = {} /\ config'[b] = NoConfig
          /\ \A c \in Boards \ {b} : /\ config'[c] = config[c] /\ stamps'[c] = stamps[c]
                                     /\ ext'[c] = ext[c] /\ sysroot'[c] = sysroot[c]
      BY <1>3 DEF CleanHost, DistClean, HostInv, TypeOK
    <2>2. BoardOK(b)'
      BY <2>1 DEF HostInv, BoardOK, Absent, Exists, NoConfig
    <2>3. ASSUME NEW c \in Boards \ {b} PROVE BoardOK(c)'
      BY <2>1, <2>3 DEF HostInv, BoardOK
    <2>4. ASSUME NEW r \in Runs PROVE RunOK(r)'
      <3>1. CASE BoardOf[r] = b
        <4>1. pc[r] \in Idle /\ arch[r] = NoName
          BY <2>1, <3>1 DEF BoardIdle, Active, HostInv, RunOK
        <4> QED BY <2>1, <4>1 DEF RunOK, Idle
      <3>2. CASE BoardOf[r] # b
        <4>1. BoardOf[r] \in Boards \ {b}
          BY <3>2, ContextType
        <4> QED BY <2>1, <4>1 DEF HostInv, RunOK, Checked, Active, External
      <3> QED BY <3>1, <3>2
    <2> QED BY <2>2, <2>3, <2>4 DEF HostInv
  <1> QED
    BY <1>1, <1>2, <1>3 DEF Environment, Place, Remove, Upgrade

LEMMA HostInvariant ==
  ASSUME OneRunPerBoard
  PROVE  (Init => HostInv) /\ (HostInv /\ [Next]_vars => HostInv')
  <1>1. Init => HostInv
    BY InitType, ContextType
       DEF Init, HostInv, BoardOK, RunOK, Checked, Active, Idle, NoConfig, Absent, Exists
  <1>2. HostInv /\ [Next]_vars => HostInv'
    <2> SUFFICES ASSUME HostInv, [Next]_vars PROVE HostInv'
      OBVIOUS
    <2>0. TypeOK'
      BY NextType DEF HostInv
    <2>1. ASSUME NEW r \in Runs, Step(r) PROVE HostInv'
      BY <2>0, <2>1, ResolveHost, CreateHost, InvalidateHost, MakeHost DEF Step
    <2>2. ASSUME NEW r \in Runs, NEW k \in Kinds, Start(r, k) PROVE HostInv'
      BY <2>0, <2>2, StartHost
    <2>3. CASE Environment
      BY <2>0, <2>3, EnvironmentHost
    <2>4. CASE UNCHANGED vars
      BY <2>4 DEF vars, HostInv, TypeOK, BoardOK, RunOK, Checked, Active, External
    <2> QED
      BY <2>1, <2>2, <2>3, <2>4 DEF Next
  <1> QED
    BY <1>1, <1>2

\* A step of a run moves that run only.
LEMMA StepPC ==
  ASSUME TypeOK, NEW r \in Runs, Step(r) PROVE \A q \in Runs \ {r} : pc'[q] = pc[q]
  <1> SUFFICES (\E l \in PCs : Goto(r, l)) \/ UNCHANGED pc
    BY DEF Goto, TypeOK
  <1> USE DEF PCs
  <1>1. CASE Resolve(r)
    BY <1>1 DEF Resolve, Glob, FailProbe, NoCandidate, CompareCache, RemoveCache, Accept, Reject,
                Exit
  <1>2. CASE Create(r)
    BY <1>2 DEF Create, FailSource, Prepare, Copy, FailCopy, OpenTmp, WriteTools, WriteEnd,
                Publish, FailPublish, Exit
  <1>3. CASE Invalidate(r)
    BY <1>3 DEF Invalidate, Check, RemoveBuild, RemoveExt
  <1>4. CASE Make(r)
    BY <1>4 DEF Make, Defconfig, Edit, MakeInternal, Download, Extract, Move, Install, FailMake,
                Finish, Exit
  <1> QED
    BY <1>1, <1>2, <1>3, <1>4 DEF Step

\* Only Finish leaves "make" for "done" on a board with an external toolchain, and only the
\* failing actions fail.
LEMMA OnlyEnds ==
  ASSUME TypeOK, [Next]_vars, NEW r \in Runs, Active(r)
  PROVE  /\ pc'[r] = "failed" => FailProbe(r) \/ FailSource(r) \/ FailCopy(r) \/ FailPublish(r) \/ FailMake(r)
         /\ pc[r] = "make" /\ External(r) /\ pc'[r] = "done" => Finish(r)
  <1> SUFFICES ASSUME pc'[r] \in {"failed", "done"}
               PROVE  \/ FailProbe(r) \/ FailSource(r) \/ FailCopy(r) \/ FailPublish(r) \/ FailMake(r)
                      \/ pc'[r] = "done" /\ (pc[r] = "make" /\ External(r) => Finish(r))
    BY DEF FailProbe, FailSource, FailCopy, FailPublish, FailMake, Exit, Goto, TypeOK
  <1>0. pc[r] \notin {"idle", "failed", "done"}
    BY DEF Active, Idle
  <1>1. ASSUME NEW q \in Runs, Step(q) PROVE Step(r)
    BY <1>0, <1>1, StepPC
  <1>2. CASE Resolve(r)
    BY <1>2 DEF Resolve, Glob, FailProbe, NoCandidate, CompareCache, RemoveCache, Accept, Reject,
                Goto, TypeOK
  <1>3. CASE Create(r)
    BY <1>0, <1>3 DEF Create, FailSource, Prepare, Copy, FailCopy, OpenTmp, WriteTools, WriteEnd,
                      Publish, FailPublish, Goto, TypeOK
  <1>4. CASE Invalidate(r)
    BY <1>4 DEF Invalidate, Check, RemoveBuild, RemoveExt, Goto, TypeOK
  <1>5. CASE Make(r)
    BY <1>0, <1>5 DEF Make, Defconfig, Edit, MakeInternal, Download, Extract, Move, Install,
                      FailMake, Finish, Exit, Goto, TypeOK
  <1>6. ASSUME NEW q \in Runs, NEW k \in Kinds, Start(q, k) PROVE FALSE
    BY <1>0, <1>6 DEF Start, Goto, Active, Idle, TypeOK
  <1>7. CASE Environment
    <2>1. \A q \in Runs : ~(Kill(q) \/ Interrupt(q))
      BY <1>0 DEF Kill, Interrupt, Stopped, Exit, Goto, TypeOK
    <2> QED BY <1>0, <1>7, <2>1 DEF Environment, Place, Remove, Upgrade, CleanHost, DistClean
  <1>8. CASE UNCHANGED vars
    BY <1>0, <1>8 DEF vars
  <1> QED
    BY <1>1, <1>2, <1>3, <1>4, <1>5, <1>6, <1>7, <1>8 DEF Next, Step

(***************************************************************************)
(* Under .stamp_extracted the host directory of a board is complete or not *)
(* there, wherever the runs were killed, as long as no two of them build   *)
(* the same board.                                                         *)
(***************************************************************************)
THEOREM ExtractedStampIsHonest ==
  ASSUME OneRunPerBoard PROVE Spec => []ExtractedIsWhole
  <1>1. HostInv => ExtractedIsWhole
    BY DEF HostInv, BoardOK, ExtractedIsWhole
  <1> QED
    BY <1>1, HostInvariant, PTL DEF Spec

(***************************************************************************)
(* A build that succeeds leaves a complete opt/ext-toolchain and a wrapper *)
(* and sysroot of that toolchain, whichever of its steps were skipped for  *)
(* their stamps and however earlier runs of the board ended.               *)
(***************************************************************************)
THEOREM SuccessIsSelfContained ==
  ASSUME OneRunPerBoard PROVE Spec => SelfContained
  <1> DEFINE Contained == \A r \in Runs : Succeeds(r) =>
               LET b == BoardOf[r] IN ext'[b].shape = "whole" /\ sysroot'[b] = ext'[b].ver
  <1>1. HostInv /\ [Next]_vars => [Contained]_vars
    <2> SUFFICES ASSUME HostInv, [Next]_vars, NEW r \in Runs, Succeeds(r)
                 PROVE  ext'[BoardOf[r]].shape = "whole" /\ sysroot'[BoardOf[r]] = ext'[BoardOf[r]].ver
      OBVIOUS
    <2>1. pc[r] = "make" /\ pc'[r] = "done" /\ External(r)
      BY DEF Succeeds
    <2>2. Finish(r)
      BY <2>1, OnlyEnds DEF HostInv, Active, Idle
    <2>3. BoardOK(BoardOf[r]) /\ Checked(r) /\ stamps[BoardOf[r]] = Stamps
      BY <2>1, <2>2, ContextType DEF HostInv, RunOK, Finish
    <2> QED
      BY <2>2, <2>3, ContextType DEF Finish, BoardOK, Checked, Stamps, Exists
  <1> QED
    BY <1>1, HostInvariant, PTL DEF Spec, SelfContained
-----------------------------------------------------------------------------

(***************************************************************************)
(* Builds that run to their end, one at a time for each board, and a user  *)
(* who leaves the files alone meanwhile and never puts an archive under a  *)
(* name that some build has already used.  None of it can be spared: a     *)
(* killed run leaves a cut .tmp that later ones reject, an interrupted one *)
(* a renewed archive whose old extraction nobody notices; an archive put   *)
(* back anew makes one build drop the copy that another is about to unpack *)
(* and one of another version may look older than the copy of the former.  *)
(***************************************************************************)
Orderly ==
  /\ OneRunPerBoard /\ UserWaits
  /\ Events \cap {"kill", "interrupt", "redrop", "replace"} = {}

\* The names, without the .tmp, that the builds of a board look for.
Own(b) == {Sdk(b), Vendor(ToolchainOf[b])}

(***************************************************************************)
(* Archives are whole, and a copy under dl/ that is not older than its     *)
(* archive equals it.  A vendor's archive is never newer than its copy.    *)
(***************************************************************************)
ArchivesTrue ==
  /\ \A t \in Toolchains : LET n == Vendor(t) IN
       files[n].shape \in {"absent", "whole"} /\ (Exists(cache[n]) => ~newer[n])
  /\ \A b \in Boards : ~Exists(cache[Tmp(b)])
  /\ \A n \in Names :
       /\ cache[n].shape \in {"absent", "whole"}
       /\ Exists(cache[n]) /\ Exists(files[n]) /\ ~newer[n] => cache[n] = files[n]

\* The .tmp of a board is there only while its run fills it.
Filling(r) == Exists(files[OwnTmp(r)]) <=> pc[r] \in {"write", "publish"}

\* What the run has found out about the archives, and what it settled on.
Choosing(r) ==
  LET b == BoardOf[r] IN
  /\ ~rejected[r]
  /\ pc[r] = "probe" => cand[r] = {n \in Own(b) : Exists(files[n])}
  /\ pc[r] = "source" => \A n \in Own(b) : ~Exists(files[n])
  /\ pc[r] \in Idle \cup {"glob", "probe", "source"} => arch[r] = NoName
  /\ pc[r] \in {"newer", "rmcache", "check", "rmbuild", "rmext"} \cup Creating => arch[r] # NoName
  /\ arch[r] # NoName =>
       arch[r] \in Own(b) /\ (pc[r] \notin Creating => Exists(files[arch[r]]))
  /\ pc[r] \in {"rmcache"} \cup Creating => arch[r] = Sdk(b)
  /\ pc[r] = "copy" => source[ToolchainOf[b]] # 0

\* It has made an archive, and has yet to drop the old copy and the stamps.
Renewing(r) == refreshed[r] /\ pc[r] \in {"rmcache", "check", "rmbuild"}
Renewal(r) ==
  /\ pc[r] \in Idle \cup {"glob", "probe", "newer", "source"} \cup Creating => ~refreshed[r]
  /\ pc[r] = "rmcache" => refreshed[r]
  /\ LET n == Sdk(BoardOf[r]) IN Exists(cache[n]) /\ newer[n] => pc[r] = "rmcache"

\* The stamps of its board are about the copy that the configuration names.
Building(r) ==
  LET b == BoardOf[r]
      n == config[b].url IN
  /\ n \in Own(b) \cup {NoName}
  /\ n # NoName /\ stamps[b] # {} /\ ~Renewing(r) =>
       /\ Exists(cache[n])
       /\ "extracted" \in stamps[b] /\ Exists(ext[b]) => ext[b].ver = cache[n].ver
  /\ pc[r] = "defconfig" /\ arch[r] # NoName => stamps[b] = {} \/ (n = arch[r] /\ ~refreshed[r])
  /\ pc[r] \in {"make", "move"} /\ External(r) => n = arch[r]
  /\ pc[r] = "move" => Exists(cache[n]) /\ ext[b].ver = cache[n].ver

RunFresh(r) == Filling(r) /\ Choosing(r) /\ Renewal(r) /\ Building(r)
FreshInv == HostInv /\ PublishInv /\ ArchivesTrue /\ \A r \in Runs : RunFresh(r)

-----------------------------------------------------------------------------
LEMMA NamesOwn ==
  /\ \A b, c \in Boards : Sdk(b) = Sdk(c) => b = c
  /\ \A b \in Boards, t \in Toolchains : Vendor(t) # Sdk(b) /\ Vendor(t) # Tmp(b)
  /\ \A b \in Boards : NoName \notin Own(b) /\ Own(b) \subseteq Names /\ Tmp(b) \notin Own(b)
  <1>1. \A b, c \in Boards : Sdk(b) = Sdk(c) => b = c
    BY DEF Sdk
  <1>2. \A b \in Boards, t \in Toolchains : Vendor(t) # Sdk(b) /\ Vendor(t) # Tmp(b)
    BY DEF Sdk, Tmp, Vendor
  <1>3. ASSUME NEW b \in Boards
        PROVE  NoName \notin Own(b) /\ Own(b) \subseteq Names /\ Tmp(b) \notin Own(b)
    <2>1. ToolchainOf[b] \in Toolchains
      BY BoardAssumption
    <2>2. Own(b) \subseteq Names
      BY <2>1, NameType DEF Own
    <2>3. NoName \notin Own(b) /\ Tmp(b) \notin Own(b)
      BY DEF Own, Sdk, Tmp, Vendor, NoName
    <2> QED BY <2>2, <2>3
  <1> QED
    BY <1>1, <1>2, <1>3

\* What a step of r leaves to the runs of other boards.
Apart(r) ==
  LET b == BoardOf[r] IN
  /\ \A c \in Boards \ {b} :
       /\ config'[c] = config[c] /\ stamps'[c] = stamps[c] /\ ext'[c] = ext[c]
       /\ files'[Sdk(c)] = files[Sdk(c)] /\ files'[Tmp(c)] = files[Tmp(c)]
       /\ cache'[Sdk(c)] = cache[Sdk(c)] /\ newer'[Sdk(c)] = newer[Sdk(c)]
  /\ \A t \in Toolchains : LET n == Vendor(t) IN
       files'[n] = files[n] /\ (Exists(cache[n]) => cache'[n] = cache[n])
  /\ UNCHANGED source

\* The other runs stay where they are.
Others(r) ==
  \A q \in Runs \ {r} : /\ pc'[q] = pc[q] /\ rejected'[q] = rejected[q] /\ cand'[q] = cand[q]
                        /\ arch'[q] = arch[q] /\ refreshed'[q] = refreshed[q]

LEMMA OwnFresh ==
  ASSUME FreshInv, HostInv', PublishInv', OneRunPerBoard, NEW r \in Runs,
         Apart(r), Others(r), ArchivesTrue', RunFresh(r)'
  PROVE  FreshInv'
  <1> SUFFICES ASSUME NEW q \in Runs \ {r} PROVE RunFresh(q)'
    BY DEF FreshInv
  <1> DEFINE c == BoardOf[q]
  <1>1. c \in Boards \ {BoardOf[r]} /\ ToolchainOf[c] \in Toolchains
    BY ContextType DEF OneRunPerBoard
  <1>2. /\ pc'[q] = pc[q] /\ rejected'[q] = rejected[q] /\ cand'[q] = cand[q]
        /\ arch'[q] = arch[q] /\ refreshed'[q] = refreshed[q]
    BY DEF Others
  <1>3. /\ config'[c] = config[c] /\ stamps'[c] = stamps[c] /\ ext'[c] = ext[c]
        /\ files'[Tmp(c)] = files[Tmp(c)] /\ source' = source
        /\ cache'[Sdk(c)] = cache[Sdk(c)] /\ newer'[Sdk(c)] = newer[Sdk(c)]
    BY <1>1 DEF Apart
  <1>4. \A n \in Own(c) : files'[n] = files[n] /\ (Exists(cache[n]) => cache'[n] = cache[n])
    BY <1>1 DEF Apart, Own
  <1>5. RunFresh(q)
    BY DEF FreshInv
  <1>6. Filling(q)'
    BY <1>2, <1>3, <1>5 DEF RunFresh, Filling, OwnTmp
  <1>7. Choosing(q)'
    BY <1>2, <1>3, <1>4, <1>5 DEF RunFresh, Choosing
  <1>8. Renewal(q)'
    BY <1>2, <1>3, <1>5 DEF RunFresh, Renewal, Creating, Idle
  <1>9. Building(q)'
    <2> DEFINE n == config[c].url
    <2>1. n \in Own(c) \cup {NoName} /\ Building(q)
      BY <1>5 DEF RunFresh, Building
    <2>2. n # NoName /\ Exists(cache[n]) => cache'[n] = cache[n]
      BY <1>4, <2>1
    <2>3. pc[q] = "move" => n # NoName
      BY DEF FreshInv, HostInv, RunOK, External
    <2> QED BY <1>2, <1>3, <2>1, <2>2, <2>3 DEF Building, Renewing, External
  <1> QED
    BY <1>6, <1>7, <1>8, <1>9 DEF RunFresh

\* A step that touches nothing but the variables of the run.
LEMMA LocalFresh ==
  ASSUME FreshInv, HostInv', PublishInv', OneRunPerBoard, NEW r \in Runs,
         UNCHANGED <<shared, output>>, Others(r), RunFresh(r)'
  PROVE  FreshInv'
  <1>1. Apart(r) /\ ArchivesTrue'
    BY DEF FreshInv, Apart, ArchivesTrue
  <1> QED
    BY <1>1, OwnFresh

LEMMA ExitFresh ==
  ASSUME FreshInv, HostInv', PublishInv', OneRunPerBoard, NEW r \in Runs, NEW l \in Idle, Exit(r, l),
         UNCHANGED <<shared, output>>, ~Exists(files[OwnTmp(r)]), ~Renewing(r), pc[r] # "rmcache"
  PROVE  FreshInv'
  <1> DEFINE b == BoardOf[r]
  <1>1. /\ pc'[r] = l /\ ~rejected'[r] /\ arch'[r] = NoName /\ ~refreshed'[r]
        /\ Others(r)
    BY DEF Exit, Goto, Others, FreshInv, HostInv, TypeOK
  <1>2. l \notin {"write", "publish", "probe", "source", "newer", "rmcache", "check", "rmbuild", "rmext",
                  "copy", "open", "defconfig", "make", "move"}
    BY DEF Idle
  <1>3. RunFresh(r)
    BY DEF FreshInv
  <1>4. Filling(r)' /\ Choosing(r)'
    BY <1>1, <1>2 DEF Filling, Choosing, Creating, OwnTmp
  <1>5. Renewal(r)'
    BY <1>1, <1>2, <1>3 DEF RunFresh, Renewal, Creating, Idle
  <1>6. Building(r)'
    BY <1>1, <1>2, <1>3 DEF RunFresh, Building, Renewing
  <1> QED
    BY <1>1, <1>4, <1>5, <1>6, LocalFresh DEF RunFresh

-----------------------------------------------------------------------------
LEMMA StartFresh ==
  ASSUME FreshInv, HostInv', PublishInv', OneRunPerBoard, NEW r \in Runs, NEW k \in Kinds, Start(r, k)
  PROVE  FreshInv'
  <1>1. /\ UNCHANGED <<shared, output, script>> /\ pc[r] \in Idle
        /\ pc'[r] \in {"glob", "defconfig"} /\ Others(r)
    BY DEF Start, Goto, Others, Active, FreshInv, HostInv, TypeOK
  <1>2. RunFresh(r) /\ pc[r] \notin {"write", "publish", "probe", "rmcache", "check", "rmbuild",
                                     "rmext", "defconfig", "make", "move"}
    BY <1>1 DEF FreshInv, Idle
  <1>3. Filling(r)' /\ Choosing(r)'
    BY <1>1, <1>2 DEF RunFresh, Filling, Choosing, Creating, Idle, OwnTmp
  <1>4. Renewal(r)' /\ ~refreshed[r] /\ arch[r] = NoName
    BY <1>1, <1>2 DEF RunFresh, Renewal, Choosing, Creating, Idle
  <1>5. Building(r)'
    BY <1>1, <1>2, <1>4 DEF RunFresh, Building, Renewing
  <1> QED
    BY <1>1, <1>3, <1>4, <1>5, LocalFresh DEF RunFresh

\* The run looks at no archive but those of Own, and all of them are whole.
LEMMA OwnArchives ==
  ASSUME FreshInv, NEW r \in Runs
  PROVE  \A n \in Own(BoardOf[r]) :
            files[n].shape \in {"absent", "whole"} /\ cache[n].shape \in {"absent", "whole"}
  BY ContextType, NamesOwn DEF FreshInv, PublishInv, ArchiveInv, ArchivesTrue, Own

LEMMA ResolveFresh ==
  ASSUME FreshInv, HostInv', PublishInv', OneRunPerBoard, NEW r \in Runs, Resolve(r)
  PROVE  FreshInv'
  <1> DEFINE b == BoardOf[r]
  <1> USE DEF Others, Goto, FreshInv, HostInv, TypeOK
  <1>0. RunFresh(r) /\ b \in Boards /\ ToolchainOf[b] \in Toolchains
    BY ContextType
  <1>1. CASE Glob(r)
    <2>1. /\ UNCHANGED <<shared, output, rejected, arch, refreshed>> /\ pc[r] = "glob"
          /\ pc'[r] = "probe" /\ Others(r)
          /\ cand'[r] = {n \in Names : Exists(files[n]) /\ \E i \in 1 .. 3 : n = Patterns(b)[i]}
      BY <1>1 DEF Glob
    <2>2. cand'[r] = {n \in Own(b) : Exists(files[n])}
      <3>1. ~Exists(files[Tmp(b)])
        BY <1>0, <2>1 DEF RunFresh, Filling, OwnTmp
      <3>2. \A n : (\E i \in 1 .. 3 : n = Patterns(b)[i]) <=> n \in Own(b) \cup {Tmp(b)}
        <4>1. \A i \in 1 .. 3 : i = 1 \/ i = 2 \/ i = 3
          OBVIOUS
        <4> QED BY <4>1 DEF Patterns, Own
      <3> QED BY <1>0, <2>1, <3>1, <3>2, NamesOwn
    <2>3. Choosing(r)'
      BY <1>0, <2>1, <2>2 DEF RunFresh, Choosing, Creating, Idle
    <2>4. Filling(r)' /\ Renewal(r)' /\ Building(r)'
      BY <1>0, <2>1 DEF RunFresh, Filling, Renewal, Building, Renewing, Creating, Idle, OwnTmp
    <2> QED BY <2>1, <2>3, <2>4, LocalFresh DEF RunFresh
  <1>2. ASSUME NEW n \in Names, IsNext(r, n), pc[r] = "probe" PROVE n \in Own(b) /\ files[n].shape = "whole"
    <2>1. n \in cand[r]
      BY <1>2 DEF IsNext
    <2>2. n \in Own(b) /\ Exists(files[n])
      BY <1>0, <1>2, <2>1 DEF RunFresh, Choosing
    <2> QED BY <2>2, OwnArchives DEF Exists
  <1>3. CASE FailProbe(r)
    BY <1>0, <1>3 DEF FailProbe, RunFresh, Choosing
  <1>4. CASE NoCandidate(r)
    <2>1. /\ UNCHANGED <<shared, output, rejected, arch, refreshed, cand>> /\ pc[r] = "probe"
          /\ pc'[r] = "source" /\ Others(r) /\ cand[r] = {}
      BY <1>4 DEF NoCandidate
    <2>2. Choosing(r)'
      BY <1>0, <2>1 DEF RunFresh, Choosing, Creating, Idle
    <2>3. Filling(r)' /\ Renewal(r)' /\ Building(r)'
      BY <1>0, <2>1 DEF RunFresh, Filling, Renewal, Building, Renewing, Creating, Idle, OwnTmp
    <2> QED BY <2>1, <2>2, <2>3, LocalFresh DEF RunFresh
  <1>5. CASE CompareCache(r)
    <2>1. /\ UNCHANGED <<shared, output, rejected, arch, refreshed, cand>> /\ pc[r] = "newer"
          /\ Others(r)
      BY <1>5 DEF CompareCache
    <2>2. pc'[r] = "check"
      <3>1. arch[r] \in Own(b)
        BY <1>0, <2>1 DEF RunFresh, Choosing
      <3>2. ~(Exists(cache[arch[r]]) /\ newer[arch[r]])
        BY <1>0, <2>1, <3>1 DEF RunFresh, Renewal, ArchivesTrue, Own
      <3> QED BY <1>5, <3>2 DEF CompareCache
    <2>3. Choosing(r)'
      BY <1>0, <2>1, <2>2 DEF RunFresh, Choosing, Creating, Idle
    <2>4. Filling(r)' /\ Renewal(r)' /\ Building(r)'
      BY <1>0, <2>1, <2>2 DEF RunFresh, Filling, Renewal, Building, Renewing, Creating, Idle, OwnTmp
    <2> QED BY <2>1, <2>3, <2>4, LocalFresh DEF RunFresh
  <1>6. CASE RemoveCache(r)
    <2> DEFINE n == Sdk(b)
    <2>1. arch[r] = n /\ arch[r] # NoName /\ refreshed[r] /\ pc[r] = "rmcache" /\ n \in Names
      BY <1>0, <1>6, NameType DEF RemoveCache, RunFresh, Choosing, Renewal
    <2>2. /\ UNCHANGED <<files, newer, source, output, rejected, arch, refreshed, cand>>
          /\ pc'[r] = "check" /\ Others(r) /\ cache'[n] = Absent
          /\ \A m \in Names \ {n} : cache'[m] = cache[m]
      BY <1>6, <2>1 DEF RemoveCache
    <2>3. Apart(r)
      BY <1>0, <2>2, NameType, NamesOwn DEF Apart
    <2>4. ArchivesTrue'
      <3>1. \A t \in Toolchains : cache'[Vendor(t)] = cache[Vendor(t)]
        BY <1>0, <2>2, NameType, NamesOwn
      <3>2. \A c \in Boards : cache'[Tmp(c)] = cache[Tmp(c)]
        BY <1>0, <2>2, NameType, NamesApart
      <3> QED BY <2>2, <3>1, <3>2 DEF ArchivesTrue, Absent, Exists
    <2>5. Choosing(r)'
      BY <1>0, <2>1, <2>2 DEF RunFresh, Choosing, Creating, Idle
    <2>6. Filling(r)' /\ Renewal(r)'
      BY <1>0, <2>1, <2>2 DEF RunFresh, Filling, Renewal, Creating, Idle, OwnTmp, Absent, Exists
    <2>7. Building(r)'
      BY <1>0, <2>1, <2>2 DEF RunFresh, Building, Renewing
    <2> QED BY <2>2, <2>3, <2>4, <2>5, <2>6, <2>7, OwnFresh DEF RunFresh
  <1>7. ASSUME NEW n \in Names, Accept(r, n) PROVE FreshInv'
    <2>1. /\ UNCHANGED <<shared, output, rejected, refreshed, cand>> /\ pc[r] = "probe"
          /\ pc'[r] = "newer" /\ Others(r) /\ arch'[r] = n /\ n \in Own(b) /\ files[n].shape = "whole"
      BY <1>2, <1>7 DEF Accept
    <2>2. Choosing(r)'
      BY <1>0, <2>1, NamesOwn DEF RunFresh, Choosing, Creating, Idle, Exists
    <2>3. Filling(r)' /\ Renewal(r)' /\ Building(r)'
      BY <1>0, <2>1 DEF RunFresh, Filling, Renewal, Building, Renewing, Creating, Idle, OwnTmp
    <2> QED BY <2>1, <2>2, <2>3, LocalFresh DEF RunFresh
  <1>8. ASSUME NEW n \in Names, Reject(r, n) PROVE FreshInv'
    BY <1>2, <1>8 DEF Reject, Listed
  <1> QED
    BY <1>1, <1>3, <1>4, <1>5, <1>6, <1>7, <1>8 DEF Resolve

-----------------------------------------------------------------------------
\* A step that touches no archive of the user's and no copy, only the .tmp of its board.
LEMMA TmpFresh ==
  ASSUME FreshInv, HostInv', PublishInv', OneRunPerBoard, NEW r \in Runs,
         UNCHANGED <<cache, source, output>>, Others(r), RunFresh(r)',
         \A n \in Names \ {Tmp(BoardOf[r])} : files'[n] = files[n] /\ newer'[n] = newer[n]
  PROVE  FreshInv'
  <1> DEFINE b == BoardOf[r]
  <1>0. b \in Boards
    BY ContextType
  <1>1. Apart(r)
    <2>1. \A c \in Boards \ {b} : /\ files'[Sdk(c)] = files[Sdk(c)] /\ files'[Tmp(c)] = files[Tmp(c)]
                                  /\ newer'[Sdk(c)] = newer[Sdk(c)]
      BY <1>0, NameType, NamesApart
    <2>2. \A t \in Toolchains : files'[Vendor(t)] = files[Vendor(t)]
      BY <1>0, NameType, NamesOwn
    <2> QED BY <2>1, <2>2 DEF Apart
  <1>2. \A n \in Names : Exists(cache[n]) => files'[n] = files[n] /\ newer'[n] = newer[n]
    BY <1>0 DEF FreshInv, ArchivesTrue
  <1>3. \A t \in Toolchains : files'[Vendor(t)] = files[Vendor(t)] /\ newer'[Vendor(t)] = newer[Vendor(t)]
    BY <1>0, NameType, NamesOwn
  <1>4. ArchivesTrue'
    BY <1>2, <1>3 DEF FreshInv, ArchivesTrue
  <1> QED
    BY <1>1, <1>4, OwnFresh

LEMMA CreateFresh ==
  ASSUME FreshInv, HostInv', PublishInv', OneRunPerBoard, NEW r \in Runs, Create(r)
  PROVE  FreshInv'
  <1> DEFINE b == BoardOf[r]
             t == Tmp(b)
             s == Sdk(b)
  <1> USE DEF Others, Goto, FreshInv, HostInv, TypeOK
  <1>0. /\ RunFresh(r) /\ b \in Boards /\ ToolchainOf[b] \in Toolchains
        /\ s \in Names /\ t \in Names /\ s # t /\ s # NoName /\ s \in Own(b)
    BY ContextType, NameType, NamesApart, NamesOwn DEF Own
  <1>1. CASE FailSource(r)
    <2>1. ~Exists(files[t]) /\ pc[r] = "source"
      BY <1>0, <1>1 DEF FailSource, RunFresh, Filling, OwnTmp
    <2> QED BY <1>1, <2>1, ExitFresh DEF FailSource, Idle, Renewing, OwnTmp
  <1>2. CASE Prepare(r)
    <2>1. /\ UNCHANGED <<newer, cache, source, output, rejected, refreshed, cand>> /\ pc[r] = "source"
          /\ pc'[r] = "copy" /\ Others(r) /\ arch'[r] = s /\ source[ToolchainOf[b]] # 0
          /\ files'[t] = Absent /\ \A n \in Names \ {t} : files'[n] = files[n]
      BY <1>0, <1>2 DEF Prepare, Unlink
    <2>2. Choosing(r)'
      BY <1>0, <2>1 DEF RunFresh, Choosing, Creating, Idle
    <2>3. Filling(r)' /\ Renewal(r)' /\ Building(r)'
      BY <1>0, <2>1 DEF RunFresh, Filling, Renewal, Building, Renewing, Creating, Idle, OwnTmp, Absent, Exists
    <2> QED BY <2>1, <2>2, <2>3, TmpFresh DEF RunFresh
  <1>3. CASE Copy(r)
    <2>1. /\ UNCHANGED <<shared, output, rejected, arch, refreshed, cand>> /\ pc[r] = "copy"
          /\ pc'[r] = "open" /\ Others(r)
      BY <1>3 DEF Copy
    <2>2. Choosing(r)'
      BY <1>0, <2>1 DEF RunFresh, Choosing, Creating, Idle
    <2>3. Filling(r)' /\ Renewal(r)' /\ Building(r)'
      BY <1>0, <2>1 DEF RunFresh, Filling, Renewal, Building, Renewing, Creating, Idle, OwnTmp
    <2> QED BY <2>1, <2>2, <2>3, LocalFresh DEF RunFresh
  <1>4. CASE FailCopy(r)
    BY <1>0, <1>4 DEF FailCopy, RunFresh, Choosing
  <1>5. CASE OpenTmp(r)
    <2>1. /\ UNCHANGED <<cache, source, output, rejected, arch, refreshed, cand>> /\ pc[r] = "open"
          /\ pc'[r] = "write" /\ Others(r) /\ files'[t].shape = "short"
          /\ \A n \in Names \ {t} : files'[n] = files[n] /\ newer'[n] = newer[n]
      BY <1>0, <1>5 DEF OpenTmp
    <2>2. Choosing(r)'
      BY <1>0, <2>1 DEF RunFresh, Choosing, Creating, Idle
    <2>3. Filling(r)' /\ Renewal(r)' /\ Building(r)'
      BY <1>0, <2>1 DEF RunFresh, Filling, Renewal, Building, Renewing, Creating, Idle, OwnTmp, Exists
    <2> QED BY <2>1, <2>2, <2>3, TmpFresh DEF RunFresh
  <1>6. ASSUME NEW n \in Names, WriteTools(r, n) PROVE FreshInv'
    <2>0. n = t
      BY <1>6 DEF WriteTools, PublishInv, WritersInv, OwnTmp
    <2>1. /\ UNCHANGED <<cache, source, output, rejected, arch, refreshed, cand, pc>> /\ pc[r] = "write"
          /\ files'[t].shape = "listed"
          /\ \A m \in Names \ {t} : files'[m] = files[m] /\ newer'[m] = newer[m]
      BY <1>0, <1>6, <2>0 DEF WriteTools, Shaped
    <2>2. Choosing(r)'
      BY <1>0, <2>1 DEF RunFresh, Choosing, Creating, Idle
    <2>3. Filling(r)' /\ Renewal(r)' /\ Building(r)'
      BY <1>0, <2>1 DEF RunFresh, Filling, Renewal, Building, Renewing, External, OwnTmp, Exists
    <2> QED BY <2>1, <2>2, <2>3, TmpFresh DEF RunFresh
  <1>7. CASE WriteEnd(r)
    <2>1. /\ UNCHANGED <<cache, source, output, rejected, arch, refreshed, cand>> /\ pc[r] = "write"
          /\ pc'[r] = "publish" /\ Others(r)
      BY <1>7 DEF WriteEnd
    <2>2. \A m \in Names \ {t} : files'[m] = files[m] /\ newer'[m] = newer[m]
      BY <1>7 DEF WriteEnd, PublishInv, WritersInv, OwnTmp
    <2>3. files'[t].shape = "whole"
      <3>1. r \in writers[t] /\ files[t].ver # 0
        BY <1>0, <2>1 DEF RunFresh, Filling, PublishInv, TmpOK, OwnTmp
      <3> QED BY <1>0, <1>7, <3>1 DEF WriteEnd, Whole
    <2>4. Choosing(r)'
      BY <1>0, <2>1 DEF RunFresh, Choosing, Creating, Idle
    <2>5. Filling(r)' /\ Renewal(r)' /\ Building(r)'
      BY <1>0, <2>1, <2>2, <2>3 DEF RunFresh, Filling, Renewal, Building, Renewing, Creating, Idle, OwnTmp, Exists
    <2> QED BY <2>1, <2>2, <2>4, <2>5, TmpFresh DEF RunFresh
  <1>8. CASE Publish(r)
    <2>1. /\ UNCHANGED <<cache, source, output, rejected, arch, cand>> /\ pc[r] = "publish"
          /\ pc'[r] = "rmcache" /\ Others(r) /\ refreshed'[r] /\ arch[r] = s
          /\ files'[s] = files[t] /\ files'[t] = Absent /\ newer'[s] /\ Exists(files[t])
          /\ \A n \in Names \ {s, t} : files'[n] = files[n] /\ newer'[n] = newer[n]
      <3>1. /\ UNCHANGED <<cache, source, output, rejected, arch, cand>> /\ pc[r] = "publish"
            /\ pc'[r] = "rmcache" /\ Others(r) /\ refreshed'[r] /\ Exists(files[t])
        BY <1>8 DEF Publish
      <3>2. arch[r] = s
        BY <1>0, <3>1 DEF RunFresh, Choosing, Creating
      <3>3. files' = [files EXCEPT ![s] = files[t], ![t] = Absent] /\ newer' = [newer EXCEPT ![s] = TRUE]
        BY <1>8 DEF Publish
      <3> QED BY <1>0, <3>1, <3>2, <3>3
    <2>2. Apart(r)
      <3>1. \A c \in Boards \ {b} : /\ files'[Sdk(c)] = files[Sdk(c)] /\ files'[Tmp(c)] = files[Tmp(c)]
                                    /\ newer'[Sdk(c)] = newer[Sdk(c)]
        <4> SUFFICES ASSUME NEW c \in Boards \ {b}
                     PROVE  Sdk(c) \in Names \ {s, t} /\ Tmp(c) \in Names \ {s, t}
          BY <2>1
        <4> QED BY <1>0, NameType, NamesApart, NamesOwn
      <3>2. \A v \in Toolchains : files'[Vendor(v)] = files[Vendor(v)]
        BY <1>0, <2>1, NameType, NamesOwn
      <3> QED BY <2>1, <3>1, <3>2 DEF Apart
    <2>3. ArchivesTrue'
      <3>1. \A v \in Toolchains : files'[Vendor(v)] = files[Vendor(v)] /\ newer'[Vendor(v)] = newer[Vendor(v)]
        BY <1>0, <2>1, NameType, NamesOwn
      <3>2. ~Exists(files'[t])
        BY <2>1 DEF Absent, Exists
      <3> QED BY <2>1, <3>1, <3>2 DEF ArchivesTrue
    <2>4. Choosing(r)'
      BY <1>0, <2>1 DEF RunFresh, Choosing, Creating, Idle
    <2>5. Filling(r)' /\ Renewal(r)'
      BY <1>0, <2>1 DEF RunFresh, Filling, Renewal, Creating, Idle, OwnTmp, Exists, Absent
    <2>6. Building(r)'
      BY <1>0, <2>1 DEF RunFresh, Building, Renewing
    <2> QED BY <2>1, <2>2, <2>3, <2>4, <2>5, <2>6, OwnFresh DEF RunFresh
  <1>9. CASE FailPublish(r)
    BY <1>0, <1>9 DEF FailPublish, RunFresh, Filling, OwnTmp
  <1> QED
    BY <1>1, <1>2, <1>3, <1>4, <1>5, <1>6, <1>7, <1>8, <1>9 DEF Create

-----------------------------------------------------------------------------
LEMMA InvalidateFresh ==
  ASSUME FreshInv, HostInv', PublishInv', OneRunPerBoard, NEW r \in Runs, Invalidate(r)
  PROVE  FreshInv'
  <1> DEFINE b == BoardOf[r]
  <1> USE DEF Others, Goto, FreshInv, HostInv, TypeOK
  <1>0. RunFresh(r) /\ BoardOK(b) /\ RunOK(r) /\ b \in Boards
    BY ContextType
  <1>1. CASE Check(r)
    <2>1. /\ UNCHANGED <<shared, output, rejected, arch, refreshed, cand>> /\ pc[r] = "check"
          /\ pc'[r] = (IF NeedsInvalidate(r) THEN "rmbuild" ELSE "defconfig") /\ Others(r)
      BY <1>1 DEF Check
    <2>2. Choosing(r)'
      BY <1>0, <2>1 DEF RunFresh, Choosing, Creating, Idle
    <2>3. Filling(r)' /\ Renewal(r)'
      BY <1>0, <2>1 DEF RunFresh, Filling, Renewal, Creating, Idle, OwnTmp
    <2>4. ~NeedsInvalidate(r) => stamps[b] = {} \/ (config[b].url = arch[r] /\ ~refreshed[r])
      <3>1. config[b] = NoConfig => stamps[b] = {}
        BY <1>0 DEF BoardOK, NoConfig
      <3> QED BY <3>1 DEF NeedsInvalidate
    <2>5. Building(r)'
      <3>1. Building(r)
        BY <1>0 DEF RunFresh
      <3>2. CASE NeedsInvalidate(r)
        BY <2>1, <3>1, <3>2 DEF Building, Renewing
      <3>3. CASE ~NeedsInvalidate(r)
        BY <2>1, <2>4, <3>1, <3>3 DEF Building, Renewing
      <3> QED BY <3>2, <3>3
    <2> QED BY <2>1, <2>2, <2>3, <2>5, LocalFresh DEF RunFresh
  <1>2. CASE RemoveBuild(r)
    <2>1. PICK S \in SUBSET stamps[b] :
            /\ stamps' = [stamps EXCEPT ![b] = S]
            /\ Goto(r, IF S = {} THEN "rmext" ELSE "rmbuild")
      BY <1>2 DEF RemoveBuild
    <2>2. /\ UNCHANGED <<shared, config, ext, rejected, arch, refreshed, cand>>
          /\ stamps'[b] = S /\ pc[r] = "rmbuild" /\ Others(r)
          /\ pc'[r] = (IF S = {} THEN "rmext" ELSE "rmbuild")
      BY <1>0, <1>2, <2>1 DEF RemoveBuild
    <2>3. Apart(r) /\ ArchivesTrue'
      BY <2>1, <2>2 DEF Apart, ArchivesTrue
    <2>4. Choosing(r)'
      BY <1>0, <2>2 DEF RunFresh, Choosing, Creating, Idle
    <2>5. Filling(r)' /\ Renewal(r)'
      BY <1>0, <2>2 DEF RunFresh, Filling, Renewal, Creating, Idle, OwnTmp
    <2>6. Building(r)'
      BY <1>0, <2>2 DEF RunFresh, Building, Renewing
    <2> QED BY <2>2, <2>3, <2>4, <2>5, <2>6, OwnFresh DEF RunFresh
  <1>3. CASE RemoveExt(r)
    <2>1. /\ UNCHANGED <<shared, config, stamps, rejected, arch, refreshed, cand>>
          /\ pc[r] = "rmext" /\ pc'[r] \in {"rmext", "defconfig"} /\ Others(r) /\ stamps[b] = {}
          /\ \A c \in Boards \ {b} : ext'[c] = ext[c]
      BY <1>0, <1>3 DEF RemoveExt, RunOK
    <2>2. Apart(r) /\ ArchivesTrue'
      BY <2>1 DEF Apart, ArchivesTrue
    <2>3. Choosing(r)'
      BY <1>0, <2>1 DEF RunFresh, Choosing, Creating, Idle
    <2>4. Filling(r)' /\ Renewal(r)' /\ Building(r)'
      BY <1>0, <2>1 DEF RunFresh, Filling, Renewal, Building, Creating, Idle, OwnTmp
    <2> QED BY <2>1, <2>2, <2>3, <2>4, OwnFresh DEF RunFresh
  <1> QED
    BY <1>1, <1>2, <1>3 DEF Invalidate

\* Nothing that make can fail of is missing.
LEMMA MakeSucceeds ==
  ASSUME FreshInv, NEW r \in Runs PROVE ~FailMake(r)
  <1> SUFFICES ASSUME pc[r] = "make", External(r), FailMake(r) PROVE FALSE
    BY DEF FailMake
  <1> DEFINE b == BoardOf[r]
             n == config[b].url
  <1>1. RunFresh(r) /\ BoardOK(b) /\ Checked(r) /\ b \in Boards
    BY ContextType DEF FreshInv, HostInv, RunOK
  <1>2. n = arch[r] /\ n \in Own(b) /\ Exists(files[n])
    BY <1>1, NamesOwn DEF RunFresh, Building, Choosing, Creating, External
  <1>3. n[1] # "tmp"
    BY <1>2 DEF Own, Sdk, Vendor
  <1>4. "downloaded" \in stamps[b] => cache[n].shape = "whole"
    <2>1. stamps[b] # {} => Exists(cache[n])
      BY <1>1 DEF RunFresh, Building, Renewing, External
    <2> QED BY <1>2, <2>1, OwnArchives DEF Exists
  <1>5. "extracted" \in stamps[b] => ext[b].shape = "whole"
    BY <1>1 DEF BoardOK, Checked, Exists
  <1> QED
    BY <1>2, <1>3, <1>4, <1>5 DEF FailMake, Extractable

LEMMA MakeFresh ==
  ASSUME FreshInv, HostInv', PublishInv', OneRunPerBoard, NEW r \in Runs, Make(r)
  PROVE  FreshInv'
  <1> DEFINE b == BoardOf[r]
             n == config[b].url
  <1> USE DEF Others, Goto, FreshInv, HostInv, TypeOK
  <1>0. RunFresh(r) /\ BoardOK(b) /\ RunOK(r) /\ b \in Boards /\ ToolchainOf[b] \in Toolchains
    BY ContextType
  <1>1. CASE Defconfig(r)
    <2>1. /\ UNCHANGED <<shared, stamps, ext, rejected, arch, refreshed, cand>>
          /\ pc[r] = "defconfig" /\ pc'[r] \in {"edit", "make"} /\ Others(r)
          /\ config'[b].url = arch[r]
          /\ \A c \in Boards \ {b} : config'[c] = config[c]
      BY <1>0, <1>1 DEF Defconfig, BoardConfig
    <2>2. Apart(r) /\ ArchivesTrue'
      BY <2>1 DEF Apart, ArchivesTrue
    <2>3. Choosing(r)'
      BY <1>0, <2>1 DEF RunFresh, Choosing, Creating, Idle
    <2>4. Filling(r)' /\ Renewal(r)'
      BY <1>0, <2>1 DEF RunFresh, Filling, Renewal, Creating, Idle, OwnTmp
    <2>5. Building(r)'
      <3>1. arch[r] \in Own(b) \cup {NoName}
        BY <1>0 DEF RunFresh, Choosing
      <3> QED BY <1>0, <2>1, <3>1 DEF RunFresh, Building, Renewing
    <2> QED BY <2>1, <2>2, <2>3, <2>4, <2>5, OwnFresh DEF RunFresh
  <1>2. CASE Edit(r)
    <2>1. /\ UNCHANGED <<shared, stamps, ext>> /\ pc[r] = "edit" /\ pc'[r] = "done" /\ Others(r)
          /\ ~rejected'[r] /\ arch'[r] = NoName /\ ~refreshed'[r]
      BY <1>2 DEF Edit, Exit
    <2>2. config'[b].url = n /\ \A c \in Boards \ {b} : config'[c] = config[c]
      <3>1. PICK e \in BOOLEAN : config' = [config EXCEPT ![b].edited = e]
        BY <1>2 DEF Edit
      <3>2. config \in [Boards -> Configs] /\ config[b] \in Configs
        BY <1>0
      <3>3. config'[b] = [config[b] EXCEPT !.edited = e]
        BY <1>0, <3>1, <3>2
      <3> QED BY <3>1, <3>2, <3>3 DEF Configs
    <2>3. Apart(r) /\ ArchivesTrue'
      BY <2>1, <2>2 DEF Apart, ArchivesTrue
    <2>4. Filling(r)' /\ Choosing(r)' /\ Renewal(r)' /\ Building(r)'
      BY <1>0, <2>1, <2>2
         DEF RunFresh, Filling, Choosing, Renewal, Building, Renewing, Creating, OwnTmp
    <2> QED BY <2>1, <2>3, <2>4, OwnFresh DEF RunFresh
  <1>3. CASE MakeInternal(r) \/ Finish(r)
    <2>1. UNCHANGED <<shared, output>> /\ Exit(r, "done") /\ pc[r] = "make"
      BY <1>3 DEF MakeInternal, Finish
    <2>2. ~Exists(files[OwnTmp(r)])
      BY <1>0, <2>1 DEF RunFresh, Filling
    <2> QED BY <2>1, <2>2, ExitFresh DEF Idle, Renewing
  <1>4. CASE Download(r)
    <2>1. /\ pc[r] = "make" /\ n # NoName /\ n = arch[r] /\ n \in Own(b) /\ n \in Names
          /\ Exists(files[n])
      BY <1>0, <1>4, NamesOwn DEF Download, External, RunFresh, Building, Choosing, Creating
    <2>2. /\ UNCHANGED <<files, source, config, ext, pc, rejected, arch, refreshed, cand>>
          /\ stamps'[b] = {"downloaded"} /\ \A c \in Boards \ {b} : stamps'[c] = stamps[c]
      BY <1>0, <1>4 DEF Download
    <2>3. \/ Exists(cache[n]) /\ UNCHANGED <<cache, newer>>
          \/ /\ ~Exists(cache[n]) /\ cache'[n] = files[n] /\ ~newer'[n]
             /\ \A m \in Names \ {n} : cache'[m] = cache[m] /\ newer'[m] = newer[m]
      BY <1>4, <2>1 DEF Download
    <2>4. Exists(cache'[n])
      BY <2>1, <2>3
    <2>5. Apart(r)
      <3>1. \A c \in Boards \ {b} : cache'[Sdk(c)] = cache[Sdk(c)] /\ newer'[Sdk(c)] = newer[Sdk(c)]
        <4>1. \A c \in Boards \ {b} : Sdk(c) \in Names \ {n}
          BY <1>0, <2>1, NameType, NamesOwn DEF Own
        <4> QED BY <2>3, <4>1
      <3>2. \A t \in Toolchains : Exists(cache[Vendor(t)]) => cache'[Vendor(t)] = cache[Vendor(t)]
        BY <2>3, NameType
      <3> QED BY <2>2, <3>1, <3>2 DEF Apart
    <2>6. ArchivesTrue'
      <3>1. files[n].shape \in {"absent", "whole"}
        BY <2>1, OwnArchives
      <3>2. ASSUME NEW t \in Toolchains
            PROVE  files'[Vendor(t)].shape \in {"absent", "whole"} /\ (Exists(cache'[Vendor(t)]) => ~newer'[Vendor(t)])
        BY <2>2, <2>3, NameType DEF ArchivesTrue
      <3>3. ASSUME NEW c \in Boards PROVE ~Exists(cache'[Tmp(c)])
        <4>1. n # Tmp(c)
          BY <1>0, <2>1, NamesOwn, NamesApart DEF Own
        <4> QED BY <2>3, <4>1, NameType DEF ArchivesTrue
      <3>4. ASSUME NEW m \in Names
            PROVE  /\ cache'[m].shape \in {"absent", "whole"}
                   /\ Exists(cache'[m]) /\ Exists(files'[m]) /\ ~newer'[m] => cache'[m] = files'[m]
        BY <2>2, <2>3, <3>1 DEF ArchivesTrue
      <3> QED BY <3>2, <3>3, <3>4 DEF ArchivesTrue
    <2>7. Filling(r)' /\ Choosing(r)'
      BY <1>0, <2>2 DEF RunFresh, Filling, Choosing, OwnTmp
    <2>8. Renewal(r)'
      <3>1. Sdk(b) \in Names
        BY <1>0, NameType
      <3> QED BY <1>0, <2>2, <2>3, <3>1 DEF RunFresh, Renewal, Creating, Idle
    <2>9. Building(r)'
      BY <1>0, <2>1, <2>2, <2>4 DEF RunFresh, Building, External
    <2> QED BY <2>2, <2>5, <2>6, <2>7, <2>8, <2>9, OwnFresh DEF RunFresh
  <1>5. CASE Extract(r)
    <2>1. /\ UNCHANGED <<shared, config, stamps, rejected, arch, refreshed, cand>>
          /\ pc[r] = "make" /\ pc'[r] = "move" /\ Others(r) /\ n # NoName
          /\ "downloaded" \in stamps[b] /\ "extracted" \notin stamps[b]
          /\ ext'[b].ver = cache[n].ver /\ \A c \in Boards \ {b} : ext'[c] = ext[c]
      BY <1>0, <1>5 DEF Extract, External, Shaped
    <2>2. Apart(r) /\ ArchivesTrue'
      BY <2>1 DEF Apart, ArchivesTrue
    <2>3. Choosing(r)'
      BY <1>0, <2>1 DEF RunFresh, Choosing, Creating, Idle
    <2>4. Filling(r)' /\ Renewal(r)'
      BY <1>0, <2>1 DEF RunFresh, Filling, Renewal, Creating, Idle, OwnTmp
    <2>5. Building(r)'
      BY <1>0, <2>1 DEF RunFresh, Building, Renewing, External
    <2> QED BY <2>1, <2>2, <2>3, <2>4, <2>5, OwnFresh DEF RunFresh
  <1>6. CASE Move(r)
    <2>1. /\ UNCHANGED <<shared, config, rejected, arch, refreshed, cand>>
          /\ pc[r] = "move" /\ pc'[r] = "make" /\ Others(r)
          /\ ext'[b].ver = ext[b].ver
          /\ \A c \in Boards \ {b} : ext'[c] = ext[c] /\ stamps'[c] = stamps[c]
      BY <1>0, <1>6 DEF Move, Shaped
    <2>2. Apart(r) /\ ArchivesTrue'
      BY <2>1 DEF Apart, ArchivesTrue
    <2>3. Choosing(r)'
      BY <1>0, <2>1 DEF RunFresh, Choosing, Creating, Idle
    <2>4. Filling(r)' /\ Renewal(r)'
      BY <1>0, <2>1 DEF RunFresh, Filling, Renewal, Creating, Idle, OwnTmp
    <2>5. Building(r)'
      BY <1>0, <2>1 DEF RunFresh, Building, Renewing, External
    <2> QED BY <2>1, <2>2, <2>3, <2>4, <2>5, OwnFresh DEF RunFresh
  <1>7. CASE Install(r)
    <2>1. /\ UNCHANGED <<shared, config, ext, pc, rejected, arch, refreshed, cand>>
          /\ pc[r] = "make" /\ "extracted" \in stamps[b]
          /\ \A c \in Boards \ {b} : stamps'[c] = stamps[c]
      BY <1>0, <1>7 DEF Install
    <2>2. Apart(r) /\ ArchivesTrue'
      BY <2>1 DEF Apart, ArchivesTrue
    <2>3. Filling(r)' /\ Choosing(r)' /\ Renewal(r)'
      BY <1>0, <2>1 DEF RunFresh, Filling, Choosing, Renewal, OwnTmp
    <2>4. Building(r)'
      BY <1>0, <2>1 DEF RunFresh, Building, Renewing, External
    <2> QED BY <2>1, <2>2, <2>3, <2>4, OwnFresh DEF RunFresh
  <1> QED
    BY <1>1, <1>2, <1>3, <1>4, <1>5, <1>6, <1>7, MakeSucceeds DEF Make

-----------------------------------------------------------------------------
(***************************************************************************)
(* What the user does finds no run active, so that all there is to keep is *)
(* what the stamps and the copies say.                                     *)
(***************************************************************************)
LEMMA IdleFresh ==
  ASSUME FreshInv, HostInv', PublishInv', \A r \in Runs : pc[r] \in Idle, UNCHANGED <<cache, locals, pc>>,
         ArchivesTrue', \A r \in Runs : ~Exists(files'[OwnTmp(r)]),
         \A b \in Boards : Exists(cache[Sdk(b)]) => newer'[Sdk(b)] = newer[Sdk(b)],
         \A b \in Boards : \/ /\ config'[b].url = config[b].url /\ stamps'[b] = stamps[b]
                              /\ ext'[b] = ext[b] \/ ~Exists(ext'[b])
                           \/ config'[b].url = NoName
  PROVE  FreshInv'
  <1> SUFFICES ASSUME NEW r \in Runs PROVE RunFresh(r)'
    BY DEF FreshInv
  <1>1. RunFresh(r) /\ pc[r] \in Idle /\ pc'[r] = pc[r] /\ BoardOf[r] \in Boards
    BY ContextType DEF FreshInv
  <1>2. pc[r] \notin {"write", "publish", "probe", "source", "newer", "rmcache", "check", "rmbuild",
                      "rmext", "copy", "open", "defconfig", "make", "move"}
    BY <1>1 DEF Idle
  <1>3. Filling(r)' /\ Choosing(r)'
    BY <1>1, <1>2 DEF RunFresh, Filling, Choosing, Creating, OwnTmp
  <1>4. Renewal(r)'
    BY <1>1, <1>2 DEF RunFresh, Renewal
  <1>5. Building(r)'
    BY <1>1, <1>2 DEF RunFresh, Building, Renewing
  <1> QED
    BY <1>3, <1>4, <1>5 DEF RunFresh

LEMMA EnvironmentFresh ==
  ASSUME FreshInv, HostInv', PublishInv', Orderly, Environment PROVE FreshInv'
  <1> USE DEF FreshInv, HostInv, TypeOK
  <1>1. ASSUME NEW e, UserActs(e) PROVE \A r \in Runs : pc[r] \in Idle
    BY <1>1 DEF UserActs, Orderly, Active
  <1>2. (\A r \in Runs : pc[r] \in Idle) => \A r \in Runs : ~Exists(files[OwnTmp(r)])
    BY DEF RunFresh, Filling, Idle
  <1>3. ASSUME NEW r \in Runs, Kill(r) \/ Interrupt(r) PROVE FALSE
    BY <1>3 DEF Kill, Interrupt, Happens, Orderly
  <1>4. ASSUME NEW n \in UserNames, NEW v \in Versions, NEW fresh \in BOOLEAN, Place(n, v, fresh)
        PROVE  FreshInv'
    <2>1. Unknown(n) /\ UserActs("drop")
      BY <1>4 DEF Place, UserActs, Happens, Orderly
    <2>2. /\ n \in Names /\ ~Exists(cache[n]) /\ files'[n] = Whole(v)
          /\ \A m \in Names \ {n} : files'[m] = files[m] /\ newer'[m] = newer[m]
          /\ UNCHANGED <<cache, output, locals, pc>>
      BY <1>4, <2>1 DEF Place, Unknown, UserNames
    <2>3. ArchivesTrue'
      BY <2>2, NameType DEF ArchivesTrue, Whole, Exists
    <2>4. \A r \in Runs : files'[OwnTmp(r)] = files[OwnTmp(r)]
      BY <2>2, ContextType, NameType, NamesApart DEF OwnTmp
    <2>5. \A b \in Boards : Exists(cache[Sdk(b)]) => newer'[Sdk(b)] = newer[Sdk(b)]
      BY <2>2, NameType
    <2> QED BY <1>1, <1>2, <2>1, <2>2, <2>3, <2>4, <2>5, IdleFresh
  <1>5. ASSUME NEW n \in Names, Remove(n) PROVE FreshInv'
    <2>1. /\ UserActs("remove") /\ files'[n] = Absent
          /\ \A m \in Names \ {n} : files'[m] = files[m]
          /\ UNCHANGED <<cache, newer, output, locals, pc>>
      BY <1>5 DEF Remove, Unlink
    <2>2. \A m \in Names : files'[m] = files[m] \/ files'[m] = Absent
      BY <2>1
    <2>3. ArchivesTrue'
      BY <2>1, <2>2, NameType DEF ArchivesTrue, Absent, Exists
    <2>4. \A r \in Runs : ~Exists(files'[OwnTmp(r)])
      BY <1>1, <1>2, <2>1, <2>2, ContextType, NameType DEF OwnTmp, Absent, Exists
    <2> QED BY <1>1, <2>1, <2>3, <2>4, IdleFresh
  <1>6. ASSUME NEW t \in Toolchains, NEW v \in 0 .. MaxVersion, Upgrade(t, v) PROVE FreshInv'
    <2>1. /\ UserActs("upgrade") /\ UNCHANGED <<files, cache, newer, output, locals, pc>>
      BY <1>6 DEF Upgrade
    <2>2. ArchivesTrue'
      BY <2>1 DEF ArchivesTrue
    <2>3. \A r \in Runs : ~Exists(files'[OwnTmp(r)])
      BY <1>1, <1>2, <2>1 DEF OwnTmp
    <2> QED BY <1>1, <2>1, <2>2, <2>3, IdleFresh
  <1>7. ASSUME NEW b \in Boards, CleanHost(b) \/ DistClean(b) PROVE FreshInv'
    <2>1. /\ UserActs("cleanhost") \/ UserActs("distclean")
          /\ UNCHANGED <<files, cache, newer, locals, pc>> /\ ext'[b] = Absent
          /\ config'[b] = NoConfig \/ (config'[b] = config[b] /\ stamps'[b] = stamps[b])
          /\ \A c \in Boards \ {b} : config'[c] = config[c] /\ stamps'[c] = stamps[c] /\ ext'[c] = ext[c]
      BY <1>7 DEF CleanHost, DistClean
    <2>2. ArchivesTrue'
      BY <2>1 DEF ArchivesTrue
    <2>3. \A r \in Runs : ~Exists(files'[OwnTmp(r)])
      BY <1>1, <1>2, <2>1 DEF OwnTmp
    <2>4. \A c \in Boards : \/ /\ config'[c].url = config[c].url /\ stamps'[c] = stamps[c]
                               /\ ext'[c] = ext[c] \/ ~Exists(ext'[c])
                            \/ config'[c].url = NoName
      BY <2>1 DEF Absent, Exists, NoConfig
    <2> QED BY <1>1, <2>1, <2>2, <2>3, <2>4, IdleFresh
  <1> QED
    BY <1>3, <1>4, <1>5, <1>6, <1>7 DEF Environment

LEMMA FreshInvariant ==
  ASSUME Orderly
  PROVE  (Init => FreshInv) /\ (FreshInv /\ [Next]_vars => FreshInv')
  <1>0. OneRunPerBoard
    BY DEF Orderly
  <1>1. ASSUME Init PROVE FreshInv
    <2>1. HostInv /\ PublishInv
      BY <1>0, <1>1, HostInvariant, PublishInvariant
    <2>2. ArchivesTrue
      BY <1>1, NameType DEF Init, ArchivesTrue, Absent, Exists
    <2>3. ASSUME NEW r \in Runs PROVE RunFresh(r)
      <3>1. /\ pc[r] = "idle" /\ arch[r] = NoName /\ ~refreshed[r] /\ ~rejected[r]
            /\ files[OwnTmp(r)] = Absent /\ ~newer[Sdk(BoardOf[r])] /\ config[BoardOf[r]].url = NoName
        BY <1>1, ContextType, NameType DEF Init, OwnTmp, NoConfig
      <3>2. Filling(r) /\ Choosing(r)
        BY <3>1 DEF Filling, Choosing, Creating, Absent, Exists
      <3> QED BY <3>1, <3>2 DEF RunFresh, Renewal, Building
    <2> QED BY <2>1, <2>2, <2>3 DEF FreshInv
  <1>2. ASSUME FreshInv, [Next]_vars PROVE FreshInv'
    <2>1. HostInv' /\ PublishInv'
      BY <1>0, <1>2, HostInvariant, PublishInvariant DEF FreshInv
    <2>2. ASSUME NEW r \in Runs, Step(r) PROVE FreshInv'
      BY <1>0, <1>2, <2>1, <2>2, ResolveFresh, CreateFresh, InvalidateFresh, MakeFresh DEF Step
    <2>3. ASSUME NEW r \in Runs, NEW k \in Kinds, Start(r, k) PROVE FreshInv'
      BY <1>0, <1>2, <2>1, <2>3, StartFresh
    <2>4. CASE Environment
      BY <1>2, <2>1, <2>4, EnvironmentFresh
    <2>5. CASE UNCHANGED vars
      <3>1. ArchivesTrue'
        BY <1>2, <2>5 DEF vars, FreshInv, ArchivesTrue
      <3>2. ASSUME NEW r \in Runs PROVE RunFresh(r)'
        BY <1>2, <2>5 DEF vars, FreshInv, RunFresh, Filling, Choosing, Renewal, Renewing, Building,
                          External, OwnTmp
      <3> QED BY <2>1, <3>1, <3>2 DEF FreshInv
    <2> QED
      BY <1>2, <2>2, <2>3, <2>4, <2>5 DEF Next
  <1> QED
    BY <1>1, <1>2

(***************************************************************************)
(* A build fails only when its board has neither a usable archive nor a    *)
(* vendor directory to make one from: for any boards that share any        *)
(* toolchains, and any number of orderly builds and of changes between     *)
(* them.                                                                   *)
(***************************************************************************)
THEOREM FailuresAreJustified ==
  ASSUME Orderly PROVE Spec => FailureJustified
  <1> DEFINE Justified == \A r \in Runs : (Active(r) /\ pc'[r] = "failed") => ~Usable(BoardOf[r])
  <1>1. FreshInv /\ [Next]_vars => [Justified]_vars
    <2> SUFFICES ASSUME FreshInv, [Next]_vars, NEW r \in Runs, Active(r), pc'[r] = "failed"
                 PROVE  ~Usable(BoardOf[r])
      OBVIOUS
    <2>1. FailProbe(r) \/ FailSource(r) \/ FailCopy(r) \/ FailPublish(r) \/ FailMake(r)
      BY OnlyEnds DEF FreshInv, HostInv
    <2>2. RunFresh(r)
      BY DEF FreshInv
    <2>3. ~FailProbe(r) /\ ~FailCopy(r) /\ ~FailPublish(r) /\ ~FailMake(r)
      BY <2>2, MakeSucceeds
         DEF RunFresh, Choosing, Filling, FailProbe, FailCopy, FailPublish, OwnTmp
    <2>4. /\ source[ToolchainOf[BoardOf[r]]] = 0
          /\ \A n \in Own(BoardOf[r]) : ~Exists(files[n])
      BY <2>1, <2>2, <2>3 DEF FailSource, RunFresh, Choosing
    <2> QED
      BY <2>4 DEF Usable, Own, Exists
  <1> QED
    BY <1>1, FreshInvariant, PTL DEF Spec, FailureJustified

(***************************************************************************)
(* A build that succeeds leaves the toolchain of the archive it chose,     *)
(* whatever archives, copies and extractions the orderly builds before it  *)
(* have left, and whatever the user did to them in between.                *)
(***************************************************************************)
THEOREM SuccessIsFresh ==
  ASSUME Orderly PROVE Spec => Fresh
  <1> DEFINE Chosen == \A r \in Runs : Succeeds(r) /\ Exists(files[arch[r]]) =>
                         ext'[BoardOf[r]].ver = files[arch[r]].ver
  <1>1. FreshInv /\ [Next]_vars => [Chosen]_vars
    <2> SUFFICES ASSUME FreshInv, [Next]_vars, NEW r \in Runs, Succeeds(r), Exists(files[arch[r]])
                 PROVE  ext'[BoardOf[r]].ver = files[arch[r]].ver
      OBVIOUS
    <2> DEFINE b == BoardOf[r]
               n == config[b].url
    <2>1. Finish(r) /\ pc[r] = "make" /\ External(r)
      BY OnlyEnds DEF Succeeds, Active, Idle, FreshInv, HostInv
    <2>2. RunFresh(r) /\ Checked(r) /\ b \in Boards
      BY <2>1, ContextType DEF FreshInv, HostInv, RunOK
    <2>3. stamps[b] = Stamps /\ UNCHANGED ext
      BY <2>1 DEF Finish
    <2>4. n = arch[r] /\ n \in Own(b) /\ n \in Names
      BY <2>1, <2>2, NamesOwn DEF RunFresh, Building, External
    <2>5. Exists(cache[n]) /\ ext[b].ver = cache[n].ver
      BY <2>1, <2>2, <2>3 DEF RunFresh, Building, Renewing, External, Checked, Stamps
    <2>6. ~newer[n]
      BY <2>1, <2>2, <2>4, <2>5, BoardAssumption DEF FreshInv, ArchivesTrue, RunFresh, Renewal, Own
    <2> QED
      BY <2>3, <2>4, <2>5, <2>6 DEF FreshInv, ArchivesTrue
  <1> QED
    BY <1>1, FreshInvariant, PTL DEF Spec, Fresh
=============================================================================
