--------------------------- MODULE HostToolsProofs ---------------------------
EXTENDS HostTools, TLAPS

USE DEF wrapperVars, makedevsVars

(***************************************************************************)
(* The vector for the compiler: what each block of main() may add to it.   *)
(***************************************************************************)
Added == {Flag("predefined"), Flag("-mfloat-abi="), Flag("-mfp"), Flag("-march="), Flag("-mcpu="),
          Flag("-D__TIME__="), Flag("-D__DATE__="), Flag("-Wno-builtin-macro-redefined"),
          Flag("-fPIE"), Flag("-pie"), Flag("-Wl,-z,now"), Flag("-Wl,-z,relro"), Flag("NULL")}
Texts == Added \cup Arguments

\* At most n options.
UpTo(n) == {s \in Seq(Texts) : Len(s) <= n}

LEMMA Blocks ==
  /\ \A n \in Nat : <<>> \in UpTo(n)
  /\ \A f \in Texts : <<f>> \in UpTo(1)
  /\ \A f, g, h \in Texts : <<f, g, h>> \in UpTo(3)
  /\ \A m, n \in Nat : \A s, t : s \in UpTo(m) /\ t \in UpTo(n) => s \o t \in UpTo(m + n)
  BY DEF UpTo

LEMMA Either ==
  ASSUME NEW f \in Texts, NEW s, s = <<>> \/ s = <<f>> PROVE s \in UpTo(1)
  BY Blocks

\* One option at most from the first two blocks, which no wrapper has both.
LEMMA FloatUpTo ==
  ASSUME build \in Builds PROVE FloatAbi \o Fp32Mode \in UpTo(1)
  <1>1. FloatAbi = <<>> \/ (build.floatAbi /\ FloatAbi = <<Flag("-mfloat-abi=")>>)
    BY Zenon DEF FloatAbi
  <1>2. Fp32Mode = <<>> \/ (build.fp32 /\ Fp32Mode = <<Flag("-mfp")>>)
    BY Zenon DEF Fp32Mode
  <1>3. Flag("-mfloat-abi=") \in Texts /\ Flag("-mfp") \in Texts
    BY DEF Texts, Added
  <1>4. FloatAbi \in UpTo(1) /\ Fp32Mode \in UpTo(1)
    BY <1>1, <1>2, <1>3, Either
  <1>5. FloatAbi = <<>> \/ Fp32Mode = <<>>
    BY <1>1, <1>2, BuildsAssumption, Zenon
  <1>6. \A s \in UpTo(1) : s \o <<>> = s /\ <<>> \o s = s
    BY DEF UpTo
  <1> QED
    BY <1>4, <1>5, <1>6

LEMMA ArchUpTo == ArchCpu \in UpTo(2)
  <1> DEFINE arch == IF build.arch THEN <<Flag("-march=")>> ELSE <<>>
             cpu == IF build.cpu THEN <<Flag("-mcpu=")>> ELSE <<>>
  <1>1. arch \in UpTo(1) /\ cpu \in UpTo(1)
    <2>1. Flag("-march=") \in Texts /\ Flag("-mcpu=") \in Texts
      BY DEF Texts, Added
    <2> QED BY <2>1, Blocks, Zenon
  <1>2. ArchCpu = <<>> \/ ArchCpu = arch \o cpu
    BY Zenon DEF ArchCpu
  <1> HIDE DEF arch, cpu
  <1>3. arch \o cpu \in UpTo(2) /\ <<>> \in UpTo(2)
    BY <1>1, Blocks, 1 + 1 = 2
  <1> QED
    BY <1>2, <1>3

LEMMA DatesUpTo == Dates \in UpTo(3)
  <1>1. /\ Flag("-D__TIME__=") \in Texts /\ Flag("-D__DATE__=") \in Texts
        /\ Flag("-Wno-builtin-macro-redefined") \in Texts
    BY DEF Texts, Added
  <1> QED
    BY <1>1, Blocks DEF Dates

LEMMA PieUpTo == Pie \in UpTo(2)
  <1> DEFINE compile == IF Given({"-fpie", "-fPIE", "-fpic", "-fPIC"}) THEN <<>> ELSE <<Flag("-fPIE")>>
             link == IF Given({"-shared"}) THEN <<>> ELSE <<Flag("-pie")>>
  <1>1. compile \in UpTo(1) /\ link \in UpTo(1)
    <2>1. Flag("-fPIE") \in Texts /\ Flag("-pie") \in Texts
      BY DEF Texts, Added
    <2> QED BY <2>1, Blocks, Zenon
  <1>2. Pie = <<>> \/ Pie = compile \o link
    BY Zenon DEF Pie
  <1> HIDE DEF compile, link
  <1>3. compile \o link \in UpTo(2) /\ <<>> \in UpTo(2)
    BY <1>1, Blocks, 1 + 1 = 2
  <1> QED
    BY <1>2, <1>3

LEMMA RelroUpTo == Relro \in UpTo(2)
  <1> DEFINE now == IF build.relro = "full" THEN <<Flag("-Wl,-z,now")>> ELSE <<>>
             relro == IF build.relro = "none" THEN <<>> ELSE <<Flag("-Wl,-z,relro")>>
  <1>1. now \in UpTo(1) /\ relro \in UpTo(1)
    <2>1. Flag("-Wl,-z,now") \in Texts /\ Flag("-Wl,-z,relro") \in Texts
      BY DEF Texts, Added
    <2> QED BY <2>1, Blocks, Zenon
  <1>2. Relro = <<>> \/ Relro = now \o relro
    BY Zenon DEF Relro
  <1> HIDE DEF now, relro
  <1>3. now \o relro \in UpTo(2) /\ <<>> \in UpTo(2)
    BY <1>1, Blocks, 1 + 1 = 2
  <1> QED
    BY <1>2, <1>3

LEMMA ExtraUpTo ==
  ASSUME build \in Builds PROVE Extra \in UpTo(EXCLUSIVE_ARGS)
  <1> DEFINE float == FloatAbi \o Fp32Mode
             arch == float \o ArchCpu
             dates == arch \o Dates
             pie == dates \o Pie
  <1> HIDE DEF float, arch, dates, pie
  <1>1. float \in UpTo(1)
    BY FloatUpTo DEF float
  <1>2. arch \in UpTo(1 + 2)
    BY <1>1, ArchUpTo, Blocks DEF arch
  <1>3. dates \in UpTo(3 + 3)
    BY <1>2, DatesUpTo, Blocks DEF dates
  <1>4. pie \in UpTo(6 + 2)
    BY <1>3, PieUpTo, Blocks DEF pie
  <1>5. Extra = pie \o Relro
    BY DEF Extra, float, arch, dates, pie
  <1>6. pie \o Relro \in UpTo(8 + 2)
    BY <1>4, RelroUpTo, Blocks
  <1> QED
    BY <1>5, <1>6 DEF EXCLUSIVE_ARGS

-----------------------------------------------------------------------------
(***************************************************************************)
(* The check of one argument.                                              *)
(***************************************************************************)
Opts == {"-I", "-idirafter", "-iquote", "-isystem", "-L"}
Begin(at) == [i |-> at, unsafe |-> FALSE]

\* The outcome of an option whose path is the argument after it.
Separate(s) ==
  [i |-> s.i + 1, unsafe |-> argv[s.i + 1].opt = "" /\ argv[s.i + 1].val \in HostPaths]

LEMMA UnsafeOpts ==
  /\ ToSet(unsafe_opts) = Opts
  /\ unsafe_opts[1] = "-I" /\ unsafe_opts[2] = "-idirafter" /\ unsafe_opts[3] = "-iquote"
  /\ unsafe_opts[4] = "-isystem" /\ unsafe_opts[5] = "-L"
  <1>1. /\ unsafe_opts[1] = "-I" /\ unsafe_opts[2] = "-idirafter" /\ unsafe_opts[3] = "-iquote"
        /\ unsafe_opts[4] = "-isystem" /\ unsafe_opts[5] = "-L"
    BY DEF unsafe_opts
  <1>2. DOMAIN unsafe_opts = 1 .. 5
    BY DEF unsafe_opts
  <1>3. ToSet(unsafe_opts) = {unsafe_opts[n] : n \in 1 .. 5}
    BY <1>2 DEF ToSet
  <1>4. 1 .. 5 = {1, 2, 3, 4, 5}
    OBVIOUS
  <1>5. ToSet(unsafe_opts) = {unsafe_opts[n] : n \in {1, 2, 3, 4, 5}}
    BY <1>3, <1>4
  <1> QED
    BY <1>1, <1>5, Zenon DEF Opts

LEMMA TrySeparate ==
  ASSUME NEW s, ~(s.i > Len(argv)), ~s.unsafe, argv[s.i].val = "", s.i # Len(argv)
  PROVE  TryOption(s, argv[s.i].opt) = Separate(s)
  BY ZenonT(60) DEF TryOption, Separate

LEMMA SeparateFields ==
  ASSUME NEW s
  PROVE  /\ Separate(s).i = s.i + 1
         /\ Separate(s).unsafe = (argv[s.i + 1].opt = "" /\ argv[s.i + 1].val \in HostPaths)
  BY DEF Separate

LEMMA Order ==
  /\ \A n \in Nat : n + 1 > n
  /\ \A n \in Nat : \A at \in 1 .. n : at # n => at \in 1 .. n - 1
  OBVIOUS

LEMMA NoOptionFollows ==
  ASSUME NEW at \in 1 .. Len(argv), NoDirLooksLikeOption, Len(argv) \in Nat, at # Len(argv),
         argv[at].opt \in Opts, argv[at].val = ""
  PROVE  argv[at + 1].opt = ""
  <1>1. at \in 1 .. Len(argv) - 1
    BY Order, Zenon
  <1> QED
    BY <1>1, UnsafeOpts DEF NoDirLooksLikeOption

LEMMA NotTried ==
  \A s, opt : s.i > Len(argv) \/ s.unsafe \/ argv[s.i].opt # opt => TryOption(s, opt) = s
  BY Zenon DEF TryOption

\* The argument is looked at for the one option it begins with, and so is what follows it.
LEMMA OwnOptionOnly ==
  ASSUME NEW at \in 1 .. Len(argv), NoDirLooksLikeOption, Len(argv) \in Nat,
         argv[at].opt \in Opts, NEW opt \in Opts \ {argv[at].opt}
  PROVE  /\ TryOption(Begin(at), opt) = Begin(at)
         /\ LET r == TryOption(Begin(at), argv[at].opt) IN TryOption(r, opt) = r
  <1> DEFINE r == TryOption(Begin(at), argv[at].opt)
  <1>0. Begin(at).i = at /\ Begin(at).unsafe = FALSE
    BY DEF Begin
  <1>1. TryOption(Begin(at), opt) = Begin(at)
    BY <1>0, NotTried
  <1>2. ~(at > Len(argv)) /\ at \in Nat
    OBVIOUS
  <1>3. r.i > Len(argv) \/ r.unsafe \/ argv[r.i].opt # opt
    <2>1. CASE argv[at].val # ""
      <3>1. r = [Begin(at) EXCEPT !.unsafe = argv[at].val \in HostPaths]
        BY <1>0, <1>2, <2>1, Zenon DEF TryOption
      <3>2. r.i = at
        BY <3>1 DEF Begin
      <3> QED BY <3>2
    <2>2. CASE argv[at].val = "" /\ at = Len(argv)
      <3>1. r = [Begin(at) EXCEPT !.i = @ + 1]
        BY <1>0, <1>2, <2>2, Zenon DEF TryOption
      <3>2. r.i = at + 1
        BY <1>2, <3>1 DEF Begin
      <3>3. r.i > Len(argv)
        BY <2>2, <3>2, Order, Zenon
      <3> QED BY <3>3, Zenon
    <2>3. CASE argv[at].val = "" /\ at # Len(argv)
      <3>1. r = Separate(Begin(at))
        BY <1>0, <1>2, <2>3, TrySeparate
      <3>2. r.i = at + 1
        BY <1>0, <3>1, SeparateFields
      <3>3. argv[at + 1].opt = ""
        BY <2>3, NoOptionFollows
      <3>4. opt # ""
        BY DEF Opts
      <3> QED BY <3>2, <3>3, <3>4
    <2> QED BY <2>1, <2>2, <2>3
  <1> HIDE DEF r
  <1>4. TryOption(r, opt) = r
    BY <1>3, NotTried
  <1> QED
    BY <1>1, <1>4 DEF r

LEMMA CheckedOnce ==
  ASSUME NEW at \in 1 .. Len(argv), NoDirLooksLikeOption, Len(argv) \in Nat
  PROVE  CheckArgument(at) = IF argv[at].opt \in Opts THEN TryOption(Begin(at), argv[at].opt)
                             ELSE Begin(at)
  <1> DEFINE s == Begin(at)
             r == TryOption(s, argv[at].opt)
  <1>1. CheckArgument(at) =
          TryOption(TryOption(TryOption(TryOption(TryOption(s,
             "-I"), "-idirafter"), "-iquote"), "-isystem"), "-L")
    BY UnsafeOpts, Zenon DEF CheckArgument, Begin
  <1>2. CASE argv[at].opt \notin Opts
    <2>1. s.i = at
      BY DEF Begin
    <2>2. \A opt \in Opts : TryOption(s, opt) = s
      BY <1>2, <2>1, NotTried
    <2> HIDE DEF s
    <2>3. CheckArgument(at) = s
      BY <1>1, <2>2 DEF Opts
    <2> QED BY <1>2, <2>3 DEF s
  <1>3. CASE argv[at].opt \in Opts
    <2>1. \A opt \in Opts \ {argv[at].opt} : TryOption(s, opt) = s /\ TryOption(r, opt) = r
      BY <1>3, OwnOptionOnly
    <2>2. r = TryOption(s, argv[at].opt)
      OBVIOUS
    <2> HIDE DEF s, r
    <2>3. argv[at].opt = "-I" => CheckArgument(at) = r
      BY <1>1, <2>1, <2>2 DEF Opts
    <2>4. argv[at].opt = "-idirafter" => CheckArgument(at) = r
      BY <1>1, <2>1, <2>2 DEF Opts
    <2>5. argv[at].opt = "-iquote" => CheckArgument(at) = r
      BY <1>1, <2>1, <2>2 DEF Opts
    <2>6. argv[at].opt = "-isystem" => CheckArgument(at) = r
      BY <1>1, <2>1, <2>2 DEF Opts
    <2>7. argv[at].opt = "-L" => CheckArgument(at) = r
      BY <1>1, <2>1, <2>2 DEF Opts
    <2>8. CheckArgument(at) = r
      BY <1>3, <2>3, <2>4, <2>5, <2>6, <2>7 DEF Opts
    <2> QED BY <1>3, <2>8 DEF s, r
  <1> QED
    BY <1>2, <1>3

\* The directory that an option at a names is not one of the build machine's.
Judged(a) ==
  argv[a].opt \in Opts =>
     /\ argv[a].val # "" => argv[a].val \notin HostPaths
     /\ argv[a].val = "" /\ a < Len(argv) => argv[a + 1].val \notin HostPaths

LEMMA CheckJudges ==
  ASSUME NEW at \in 1 .. Len(argv), NoDirLooksLikeOption, Len(argv) \in Nat,
         ~CheckArgument(at).unsafe
  PROVE  \/ CheckArgument(at).i = at /\ Judged(at)
         \/ /\ CheckArgument(at).i = at + 1 /\ Judged(at)
            /\ at < Len(argv) => Judged(at + 1)
  <1> DEFINE c == CheckArgument(at)
  <1>0. Begin(at).i = at /\ Begin(at).unsafe = FALSE /\ ~(at > Len(argv)) /\ at \in Nat
    BY DEF Begin
  <1>1. CASE argv[at].opt \notin Opts
    BY <1>0, <1>1, CheckedOnce DEF Judged
  <1>2. CASE argv[at].opt \in Opts /\ argv[at].val # ""
    <2>1. c = [Begin(at) EXCEPT !.unsafe = argv[at].val \in HostPaths]
      BY <1>0, <1>2, CheckedOnce, Zenon DEF TryOption
    <2>2. c.i = at /\ (c.unsafe <=> argv[at].val \in HostPaths)
      BY <2>1 DEF Begin
    <2> QED BY <1>2, <2>2 DEF Judged
  <1>3. CASE argv[at].opt \in Opts /\ argv[at].val = "" /\ at = Len(argv)
    <2>1. c = [Begin(at) EXCEPT !.i = @ + 1]
      BY <1>0, <1>3, CheckedOnce, Zenon DEF TryOption
    <2>2. c.i = at + 1
      BY <1>0, <2>1 DEF Begin
    <2> QED BY <1>0, <1>3, <2>2 DEF Judged
  <1>4. CASE argv[at].opt \in Opts /\ argv[at].val = "" /\ at # Len(argv)
    <2>1. c = Separate(Begin(at))
      BY <1>0, <1>4, CheckedOnce, TrySeparate
    <2>2. argv[at + 1].opt = ""
      BY <1>4, NoOptionFollows
    <2>3. c.i = at + 1 /\ argv[at + 1].val \notin HostPaths
      BY <1>0, <2>1, <2>2, SeparateFields
    <2>4. Judged(at + 1)
      BY <2>2 DEF Judged, Opts
    <2> QED BY <1>4, <2>3, <2>4 DEF Judged
  <1> QED
    BY <1>1, <1>2, <1>3, <1>4

-----------------------------------------------------------------------------
(***************************************************************************)
(* The invariant: the vector is as long as what has been put into it, and  *)
(* every option the loop has passed names a directory that may be used.    *)
(***************************************************************************)
VectorInv ==
  /\ wrapper \in {"idle", "start", "check", "exec", "refused", "help"}
  /\ argv \in Seq(Texts) /\ args \in Seq(Texts)
  /\ wrapper # "idle" => build \in Builds
  /\ wrapper = "start" => i = 1
  /\ wrapper = "check" => Len(args) <= build.predefined + EXCLUSIVE_ARGS
  /\ wrapper = "exec" => Len(args) <= Capacity
PathInv ==
  NoDirLooksLikeOption =>
    /\ wrapper = "check" => i \in Nat \ {0}
    /\ \A a \in 1 .. Len(argv) : wrapper = "exec" \/ (wrapper = "check" /\ a < i) => Judged(a)
WrapperInv == VectorInv /\ PathInv

LEMMA WrapperStart ==
  ASSUME Init PROVE WrapperInv
  <1>1. CASE WrapperInit
    <2>1. PICK n \in 0 .. MaxArgs : argv \in [1 .. n -> Arguments]
      BY <1>1 DEF WrapperInit
    <2>2. argv \in Seq(Texts)
      <3>1. n \in Nat
        BY <2>1, ArgumentsAssumption
      <3>2. argv \in [1 .. n -> Texts]
        BY <2>1 DEF Texts
      <3> QED BY <3>1, <3>2
    <2> QED BY <1>1, <2>2 DEF WrapperInit, WrapperInv, VectorInv, PathInv
  <1>2. CASE WrapperIdle
    BY <1>2 DEF WrapperIdle, WrapperInv, VectorInv, PathInv
  <1> QED
    BY <1>1, <1>2 DEF Init

LEMMA CheckStep ==
  ASSUME WrapperInv, CheckPath PROVE WrapperInv'
  <1> DEFINE c == CheckArgument(i)
  <1>1. /\ wrapper = "check" /\ i <= Len(argv) /\ UNCHANGED <<build, epoch, argv, args>>
        /\ i' = c.i + 1
        /\ wrapper' = IF c.unsafe THEN "refused" ELSE "check"
    BY DEF CheckPath
  <1>2. VectorInv'
    BY <1>1 DEF WrapperInv, VectorInv, Capacity
  <1>3. ASSUME NoDirLooksLikeOption, wrapper' = "check"
        PROVE  /\ i' \in Nat \ {0}
               /\ \A a \in 1 .. Len(argv) : a < i' => Judged(a)
    <2>1. i \in 1 .. Len(argv) /\ Len(argv) \in Nat
      BY <1>1, <1>3 DEF WrapperInv, VectorInv, PathInv
    <2>2. ~c.unsafe
      BY <1>1, <1>3
    <2>3. \A a \in 1 .. Len(argv) : a < i => Judged(a)
      BY <1>1, <1>3 DEF WrapperInv, PathInv
    <2>4. \/ c.i = i /\ Judged(i)
          \/ c.i = i + 1 /\ Judged(i) /\ (i < Len(argv) => Judged(i + 1))
      BY <1>3, <2>1, <2>2, CheckJudges
    <2> HIDE DEF c
    <2> QED BY <1>1, <2>1, <2>3, <2>4
  <1>4. PathInv'
    BY <1>1, <1>3 DEF PathInv, NoDirLooksLikeOption, Judged
  <1> QED
    BY <1>2, <1>4 DEF WrapperInv

LEMMA AddStep ==
  ASSUME WrapperInv, AddOptions PROVE WrapperInv'
  <1>1. /\ wrapper = "start" /\ wrapper' = "check" /\ i' = 1
        /\ args' = Predefined \o Extra /\ UNCHANGED <<build, epoch, argv>>
    BY DEF AddOptions, WrapperInv, VectorInv
  <1>2. build \in Builds /\ build.predefined \in Nat
    BY <1>1, BuildsAssumption DEF WrapperInv, VectorInv
  <1>3. Predefined \in UpTo(build.predefined)
    <2>1. Flag("predefined") \in Texts
      BY DEF Texts, Added
    <2> QED BY <1>2, <2>1 DEF Predefined, UpTo
  <1>4. args' \in UpTo(build.predefined + EXCLUSIVE_ARGS)
    <2>1. EXCLUSIVE_ARGS \in Nat
      BY DEF EXCLUSIVE_ARGS
    <2> QED BY <1>1, <1>2, <1>3, <2>1, ExtraUpTo, Blocks
  <1>5. args' \in Seq(Texts) /\ Len(args') <= build.predefined + EXCLUSIVE_ARGS
    BY <1>4 DEF UpTo
  <1>6. VectorInv'
    BY <1>1, <1>5 DEF WrapperInv, VectorInv
  <1>7. PathInv'
    BY <1>1 DEF PathInv
  <1> QED
    BY <1>6, <1>7 DEF WrapperInv

LEMMA ExecStep ==
  ASSUME WrapperInv, Exec PROVE WrapperInv'
  <1>1. /\ wrapper = "check" /\ i > Len(argv) /\ wrapper' = "exec"
        /\ args' = args \o argv \o <<Flag("NULL")>> /\ UNCHANGED <<build, epoch, argv, i>>
    BY DEF Exec
  <1>2. /\ build \in Builds /\ build.predefined \in Nat
        /\ argv \in Seq(Texts) /\ args \in Seq(Texts)
        /\ Len(args) <= build.predefined + EXCLUSIVE_ARGS
    BY <1>1, BuildsAssumption DEF WrapperInv, VectorInv
  <1>3. Flag("NULL") \in Texts
    BY DEF Texts, Added
  <1>4. /\ args' \in Seq(Texts) /\ Len(args') = Len(args) + Len(argv) + 1
    BY <1>1, <1>2, <1>3
  <1>5. Len(args') <= Capacity'
    BY <1>1, <1>2, <1>4 DEF Capacity, EXCLUSIVE_ARGS
  <1>6. VectorInv'
    BY <1>1, <1>2, <1>4, <1>5 DEF VectorInv
  <1>7. ASSUME NoDirLooksLikeOption, NEW a \in 1 .. Len(argv) PROVE Judged(a)
    <2>1. i \in Nat /\ Len(argv) \in Nat /\ a \in Nat /\ a < i
      BY <1>1, <1>2, <1>7 DEF WrapperInv, PathInv
    <2> QED BY <1>1, <1>7, <2>1 DEF WrapperInv, PathInv
  <1>8. PathInv'
    BY <1>1, <1>7 DEF PathInv, NoDirLooksLikeOption, Judged
  <1> QED
    BY <1>6, <1>8 DEF WrapperInv

LEMMA WrapperInvariant == Spec => []WrapperInv
  <1>1. Init => WrapperInv
    BY WrapperStart
  <1>2. WrapperInv /\ [Next]_vars => WrapperInv'
    <2> SUFFICES ASSUME WrapperInv, [Next]_vars PROVE WrapperInv'
      OBVIOUS
    <2>1. CASE Help
      BY <2>1 DEF Help, WrapperInv, VectorInv, PathInv
    <2>2. CASE RefuseEpoch
      BY <2>2 DEF RefuseEpoch, WrapperInv, VectorInv, PathInv
    <2>3. CASE AddOptions
      BY <2>3, AddStep
    <2>4. CASE CheckPath
      BY <2>4, CheckStep
    <2>5. CASE Exec
      BY <2>5, ExecStep
    <2>6. CASE UNCHANGED wrapperVars
      BY <2>6 DEF WrapperInv, VectorInv, PathInv, Capacity, NoDirLooksLikeOption, Judged
    <2> QED
      BY <2>1, <2>2, <2>3, <2>4, <2>5, <2>6 DEF Next, WrapperNext, vars
  <1> QED
    BY <1>1, <1>2, PTL DEF Spec

-----------------------------------------------------------------------------
\* The memory main() reserves for the compiler's arguments is enough, whatever
\* the wrapper was configured with and however many arguments it was given.
THEOREM VectorHasRoom == Spec => []ArgumentsFit
  <1>1. WrapperInv => ArgumentsFit
    <2> SUFFICES ASSUME WrapperInv, wrapper = "check" PROVE Len(args) <= Capacity
      BY DEF WrapperInv, VectorInv, ArgumentsFit
    <2>1. /\ build.predefined \in Nat /\ Len(argv) \in Nat /\ Len(args) \in Nat
          /\ Len(args) <= build.predefined + EXCLUSIVE_ARGS
      BY BuildsAssumption DEF WrapperInv, VectorInv
    <2> QED BY <2>1 DEF Capacity, EXCLUSIVE_ARGS
  <1> QED
    BY <1>1, WrapperInvariant, PTL

\* The compiler is never started with a search directory of the build machine
\* that gcc would read out of the command line, whatever the arguments, the
\* order they come in, and the directories that are unsafe.
THEOREM NoUnsafePath == Spec => []UnsafePathsStop
  <1>1. WrapperInv => UnsafePathsStop
    <2> SUFFICES ASSUME WrapperInv, wrapper = "exec", NoDirLooksLikeOption,
                        NEW R \in SUBSET (1 .. Len(argv)), ReadAsOptions(R)
                 PROVE  SearchedDirs(R) \intersect HostPaths = {}
      BY DEF UnsafePathsStop
    <2>1. \A a \in R : a \in 1 .. Len(argv) /\ argv[a].opt \in Opts /\ Judged(a)
      BY UnsafeOpts DEF WrapperInv, PathInv, ReadAsOptions
    <2> QED BY <2>1 DEF SearchedDirs, Judged
  <1> QED
    BY <1>1, WrapperInvariant, PTL

-----------------------------------------------------------------------------
(***************************************************************************)
(* What a line may do to a file system: nothing disappears, is another     *)
(* kind of object or leads elsewhere; only the paths in touched get an     *)
(* owner or a mode; and only the paths in new come to exist.               *)
(***************************************************************************)
Like(o, q) == o.kind = q.kind /\ o.rdev = q.rdev /\ (q.kind = "link" => o.to = q.to)
Fresh(o) == o.kind \in {"dir", "node"} /\ o.caps = {}
Grows(f, g, new, touched) ==
  /\ DOMAIN f \subseteq DOMAIN g
  /\ \A p \in DOMAIN g : WellFormed(g[p])
  /\ \A p \in DOMAIN f : Like(g[p], f[p]) /\ f[p].caps \subseteq g[p].caps
  /\ \A p \in DOMAIN f \ touched : g[p].owner = f[p].owner /\ g[p].mode = f[p].mode
  /\ \A p \in DOMAIN g \ DOMAIN f : p \in new /\ Fresh(g[p])
NoCaps(f, g) == \A p \in DOMAIN f : g[p].caps = f[p].caps
Good(f) == \A p \in DOMAIN f : WellFormed(f[p])

\* Nothing.
LEMMA StaysIs ==
  ASSUME NEW f, Good(f), NEW new, NEW touched
  PROVE  Grows(f, f, new, touched) /\ NoCaps(f, f)
  BY DEF Grows, NoCaps, Good, Like

\* One thing after another.
LEMMA GrowsOn ==
  ASSUME NEW f, NEW g, NEW h, NEW new, NEW touched,
         Grows(f, g, new, touched), NoCaps(f, g), Grows(g, h, {}, touched), NoCaps(g, h)
  PROVE  Grows(f, h, new, touched) /\ NoCaps(f, h)
  <1>1. DOMAIN h = DOMAIN g /\ DOMAIN f \subseteq DOMAIN g
    BY DEF Grows
  <1>2. ASSUME NEW p \in DOMAIN f
        PROVE  /\ Like(h[p], f[p]) /\ h[p].caps = f[p].caps
               /\ p \notin touched => h[p].owner = f[p].owner /\ h[p].mode = f[p].mode
    <2>1. Like(g[p], f[p]) /\ Like(h[p], g[p]) /\ g[p].caps = f[p].caps /\ h[p].caps = g[p].caps
      BY <1>1 DEF Grows, NoCaps
    <2>2. p \notin touched => g[p].owner = f[p].owner /\ g[p].mode = f[p].mode /\ h[p].owner = g[p].owner /\ h[p].mode = g[p].mode
      BY <1>1 DEF Grows
    <2> QED BY <2>1, <2>2 DEF Like
  <1>3. ASSUME NEW p \in DOMAIN h \ DOMAIN f PROVE p \in new /\ Fresh(h[p])
    <2>1. p \in DOMAIN g /\ p \in new /\ Fresh(g[p])
      BY <1>1, <1>3 DEF Grows
    <2>2. Like(h[p], g[p]) /\ h[p].caps = g[p].caps
      BY <2>1 DEF Grows, NoCaps
    <2> QED BY <2>1, <2>2 DEF Like, Fresh
  <1>4. \A p \in DOMAIN h : WellFormed(h[p])
    BY DEF Grows
  <1> QED BY <1>1, <1>2, <1>3, <1>4 DEF Grows, NoCaps

\* chown() of a path.
LEMMA ChownIs ==
  ASSUME NEW f, Good(f), NEW p \in DOMAIN f, NEW owner, NEW touched, p \in touched
  PROVE  LET g == Chown(f, p, owner)
         IN  Grows(f, g, {}, touched) /\ NoCaps(f, g) /\ g[p].owner = owner
  <1> DEFINE g == Chown(f, p, owner)
  <1>1. DOMAIN g = DOMAIN f /\ \A q \in DOMAIN f \ {p} : g[q] = f[q]
    BY DEF Chown
  <1>2. g[p] = [f[p] EXCEPT !.owner = owner]
    BY DEF Chown
  <1>3. WellFormed(f[p])
    BY DEF Good
  <1> HIDE DEF g
  <1>4. WellFormed(g[p]) /\ Like(g[p], f[p]) /\ g[p].caps = f[p].caps /\ g[p].owner = owner
    BY <1>2, <1>3 DEF WellFormed, Like
  <1>5. \A q \in DOMAIN f : WellFormed(g[q]) /\ Like(g[q], f[q]) /\ g[q].caps = f[q].caps
    BY <1>1, <1>4 DEF Good, Like
  <1> QED BY <1>1, <1>4, <1>5 DEF Grows, NoCaps, g

\* chmod() of a path.
LEMMA ChmodIs ==
  ASSUME NEW f, Good(f), NEW p \in DOMAIN f, NEW mode, NEW touched, p \in touched
  PROVE  LET g == Chmod(f, p, mode)
         IN  /\ Grows(f, g, {}, touched) /\ NoCaps(f, g) /\ g[p].owner = f[p].owner
             /\ mode # KeepMode => g[p].mode = mode
  <1>1. CASE mode = KeepMode
    <2>1. Chmod(f, p, mode) = f
      BY <1>1 DEF Chmod
    <2> QED BY <1>1, <2>1, StaysIs
  <1>2. CASE mode # KeepMode
    <2> DEFINE g == Chmod(f, p, mode)
    <2>0. g = [f EXCEPT ![p].mode = mode]
      BY <1>2 DEF Chmod
    <2> HIDE DEF g
    <2>1. DOMAIN g = DOMAIN f /\ \A q \in DOMAIN f \ {p} : g[q] = f[q]
      BY <2>0
    <2>2. g[p] = [f[p] EXCEPT !.mode = mode]
      BY <2>0
    <2>3. WellFormed(f[p])
      BY DEF Good
    <2>4. WellFormed(g[p]) /\ Like(g[p], f[p]) /\ g[p].caps = f[p].caps /\ g[p].owner = f[p].owner /\ g[p].mode = mode
      BY <2>2, <2>3 DEF WellFormed, Like
    <2>5. \A q \in DOMAIN f : WellFormed(g[q]) /\ Like(g[q], f[q]) /\ g[q].caps = f[q].caps
      BY <2>1, <2>4 DEF Good, Like
    <2>6. Grows(f, g, {}, touched) /\ NoCaps(f, g)
      BY <2>1, <2>4, <2>5 DEF Grows, NoCaps
    <2> QED BY <1>2, <2>4, <2>6 DEF g
  <1> QED BY <1>1, <1>2

\* Both.
LEMMA OwnedIs ==
  ASSUME NEW f, Good(f), NEW p \in DOMAIN f, NEW owner, NEW mode, NEW touched, p \in touched
  PROVE  LET g == Chmod(Chown(f, p, owner), p, mode)
         IN  /\ Grows(f, g, {}, touched) /\ NoCaps(f, g) /\ p \in DOMAIN g
             /\ g[p].owner = owner /\ (mode # KeepMode => g[p].mode = mode)
  <1> DEFINE c == Chown(f, p, owner)
             g == Chmod(c, p, mode)
  <1>1. Grows(f, c, {}, touched) /\ NoCaps(f, c) /\ c[p].owner = owner
    BY ChownIs
  <1> HIDE DEF c
  <1>2. Good(c) /\ p \in DOMAIN c
    BY <1>1 DEF Grows, Good
  <1>3. Grows(c, g, {}, touched) /\ NoCaps(c, g) /\ g[p].owner = c[p].owner /\ (mode # KeepMode => g[p].mode = mode)
    BY <1>2, ChmodIs
  <1> HIDE DEF g
  <1>4. Grows(f, g, {}, touched) /\ NoCaps(f, g)
    BY <1>1, <1>3, GrowsOn
  <1>5. p \in DOMAIN g
    BY <1>4 DEF Grows
  <1> QED BY <1>1, <1>3, <1>4, <1>5 DEF c, g

\* An object that is made.
LEMMA ObjectIs ==
  ASSUME NEW kind, NEW owner, NEW mode, kind \in {"dir", "node"}
  PROVE  /\ WellFormed(Object(kind, owner, mode)) /\ Fresh(Object(kind, owner, mode))
         /\ Object(kind, owner, mode).owner = owner /\ Object(kind, owner, mode).mode = mode
  BY DEF Object, WellFormed, Fresh

\* mkdir() of a path and what leads to it.
LEMMA MadeIs ==
  ASSUME NEW f, Good(f), NEW p, NEW mode, NEW touched
  PROVE  LET g == bb_make_directory(f, p, mode)
         IN  Grows(f, g, Leading(p), touched) /\ NoCaps(f, g)
  <1> DEFINE g == bb_make_directory(f, p, mode)
  <1>1. PICK made \in SUBSET Leading(p) :
          /\ DOMAIN g = DOMAIN f \union made
          /\ \A q \in DOMAIN f : g[q] = f[q]
          /\ \A q \in made \ DOMAIN f : \E m : g[q] = Object("dir", "root", m)
    <2>1. CASE Blocked(f, p)
      <3> DEFINE free == {q \in Leading(p) : \A b \in Leading(q) : Exists(f, b) => Is(f, b, "dir")}
      <3>1. g = [q \in DOMAIN f \union free |-> IF q \in DOMAIN f THEN f[q] ELSE Object("dir", "root", "777")]
        BY <2>1 DEF bb_make_directory
      <3>2. free \in SUBSET Leading(p)
        OBVIOUS
      <3> HIDE DEF free, g
      <3> QED BY <3>1, <3>2
    <2>2. CASE ~Blocked(f, p)
      <3>1. g = [q \in DOMAIN f \union Leading(p) |->
                   IF q \in DOMAIN f THEN f[q] ELSE Object("dir", "root", IF q = p THEN mode ELSE "777")]
        BY <2>2 DEF bb_make_directory
      <3> HIDE DEF g
      <3> QED BY <3>1
    <2> QED BY <2>1, <2>2
  <1> HIDE DEF g
  <1>2. \A q \in DOMAIN g \ DOMAIN f : q \in Leading(p) /\ WellFormed(g[q]) /\ Fresh(g[q])
    BY <1>1, ObjectIs
  <1>3. \A q \in DOMAIN f : Like(g[q], f[q]) /\ g[q].caps = f[q].caps /\ WellFormed(g[q]) /\ g[q].owner = f[q].owner /\ g[q].mode = f[q].mode
    BY <1>1 DEF Like, Good
  <1>4. Grows(f, g, Leading(p), touched) /\ NoCaps(f, g)
    BY <1>1, <1>2, <1>3 DEF Grows, NoCaps
  <1> QED BY <1>4 DEF g

\* All mkdir() makes is directories.
LEMMA MadeAreDirs ==
  ASSUME NEW f, NEW p, NEW mode, NEW q \in DOMAIN bb_make_directory(f, p, mode) \ DOMAIN f
  PROVE  bb_make_directory(f, p, mode)[q].kind = "dir"
  BY DEF bb_make_directory, Object

\* A walk.
LEMMA WalkedIs ==
  ASSUME NEW f, Good(f), NEW visited, NEW line, NEW touched, visited \subseteq touched
  PROVE  LET g == Walked(f, visited, line)
         IN  Grows(f, g, {}, touched) /\ NoCaps(f, g)
  <1> DEFINE g == Walked(f, visited, line)
             mode(q) == IF line.mode = KeepMode \/ f[q].kind = "link" THEN f[q].mode ELSE line.mode
  <1>1. DOMAIN g = DOMAIN f
    BY DEF Walked
  <1>2. ASSUME NEW q \in DOMAIN f, q \notin visited PROVE g[q] = f[q]
    BY <1>2 DEF Walked
  <1>3. ASSUME NEW q \in DOMAIN f, q \in visited
        PROVE  g[q] = [f[q] EXCEPT !.owner = line.owner, !.mode = mode(q)]
    <2>1. WellFormed(f[q])
      BY DEF Good
    <2> QED BY <1>3, <2>1 DEF Walked, WellFormed
  <1> HIDE DEF g
  <1>4. ASSUME NEW q \in DOMAIN f, q \in visited
        PROVE  /\ WellFormed(g[q]) /\ Like(g[q], f[q]) /\ g[q].caps = f[q].caps
               /\ g[q].owner = line.owner /\ g[q].mode = mode(q)
    <2>1. WellFormed(f[q])
      BY DEF Good
    <2> HIDE DEF mode
    <2> QED BY <1>3, <1>4, <2>1 DEF WellFormed, Like
  <1>5. \A q \in DOMAIN f : WellFormed(g[q]) /\ Like(g[q], f[q]) /\ g[q].caps = f[q].caps
    BY <1>2, <1>4 DEF Good, Like
  <1>6. Grows(f, g, {}, touched) /\ NoCaps(f, g)
    BY <1>1, <1>2, <1>5 DEF Grows, NoCaps
  <1> QED BY <1>6 DEF g

\* What it does to a path.
LEMMA WalkedPath ==
  ASSUME NEW f, Good(f), NEW visited, NEW line, NEW q \in visited \intersect DOMAIN f
  PROVE  /\ Walked(f, visited, line)[q].owner = line.owner
         /\ \/ line.mode = KeepMode
            \/ Walked(f, visited, line)[q].kind = "link"
            \/ Walked(f, visited, line)[q].mode = line.mode
  <1>1. WellFormed(f[q]) /\ q \in DOMAIN f /\ q \in visited
    BY DEF Good
  <1> QED BY <1>1 DEF Walked, WellFormed

(***************************************************************************)
(* The paths lines are about, in a file system that grows.                 *)
(***************************************************************************)
\* Links lead where they led, and files are files.
LEMMA FollowGrows ==
  ASSUME NEW f, NEW g, NEW new, NEW touched, Grows(f, g, new, touched), NEW p
  PROVE  /\ Follow(g, p) = Follow(f, p)
         /\ Is(g, p, "file") <=> Is(f, p, "file")
  <1>1. Follow(g, p) = Follow(f, p)
    <2>1. CASE p \in DOMAIN f
      <3>1. p \in DOMAIN g /\ g[p].kind = f[p].kind /\ (f[p].kind = "link" => g[p].to = f[p].to)
        BY <2>1 DEF Grows, Like
      <3> QED BY <2>1, <3>1 DEF Follow, Exists
    <2>2. CASE p \notin DOMAIN f
      <3>1. p \in DOMAIN g => g[p].kind # "link"
        BY <2>2 DEF Grows, Fresh
      <3> QED BY <2>2, <3>1 DEF Follow, Exists
    <2> QED BY <2>1, <2>2
  <1>2. \A q : (q \in DOMAIN g /\ g[q].kind = "file") <=> (q \in DOMAIN f /\ f[q].kind = "file")
    BY DEF Grows, Fresh, Like
  <1> QED BY <1>1, <1>2 DEF Is, Exists

\* Lines are about the same paths as before, and about new ones.
LEMMA CoveredGrows ==
  ASSUME NEW f, NEW g, NEW new, NEW touched, Grows(f, g, new, touched),
         NEW line, line.type \in NamedTypes \union {"blank", "invalid", "xattr"}
  PROVE  /\ Covered(f, line) \subseteq Covered(g, line)
         /\ \A p \in Covered(g, line) \ Covered(f, line) : p \in DOMAIN g \ DOMAIN f /\ line.type = "r"
  <1>1. Follow(g, line.name) = Follow(f, line.name) /\ (Is(g, line.name, "file") <=> Is(f, line.name, "file"))
    BY FollowGrows
  <1>2. CASE line.type = "r"
    <2>1. Covered(f, line) = Below(f, line.name) /\ Covered(g, line) = Below(g, line.name)
      BY <1>2 DEF Covered
    <2>2. DOMAIN f \subseteq DOMAIN g
      BY DEF Grows
    <2> QED BY <1>2, <2>1, <2>2 DEF Below
  <1>3. CASE line.type # "r"
    <2>1. Covered(g, line) = Covered(f, line)
      BY <1>1, <1>3, Zenon DEF Covered
    <2> QED BY <2>1
  <1> QED BY <1>2, <1>3

\* The paths a line may make.
NewOf(line) ==
  CASE line.type = "node" -> NodeNames(line)
    [] line.type = "d" -> Leading(line.name)
    [] OTHER -> {}

\* What a successful line does to what it is about.
Done(g, line) ==
  /\ \A p \in Covered(g, line) :
        /\ p \in DOMAIN g /\ g[p].owner = line.owner
        /\ line.mode = KeepMode \/ g[p].kind = "link" \/ g[p].mode = line.mode
        /\ line.type \in {"f", "F"} => g[p].kind = "file"
        /\ line.type = "node" => g[p].kind = "node"
  /\ line.type = "d" => \A p \in DOMAIN g \ DOMAIN fs : g[p].kind = "dir"
  /\ line.type = "node" =>
        \A k \in 0..Last_(line) - line.start :
            g[NodeName(line, line.start + k)].rdev = <<line.node, line.major, line.minor + k * line.increment>>
Does(line) ==
  /\ Grows(fs, fs', NewOf(line), Covered(fs', line))
  /\ NoCaps(fs, fs')
  /\ ret' = "success" => ret = "success" /\ Done(fs', line)

\* A line d.
LEMMA DirectoryDoes ==
  ASSUME NEW line \in TableLines, Good(fs), Directory(line)
  PROVE  Does(line)
  <1> DEFINE made == bb_make_directory(fs, line.name, line.mode)
             target == Follow(made, line.name)
             touched == Covered(fs', line)
  <1>1. line.type = "d"
    BY DEF Directory
  <1>2. /\ Grows(fs, made, Leading(line.name), touched) /\ NoCaps(fs, made)
        /\ \A p \in DOMAIN made \ DOMAIN fs : made[p].kind = "dir"
    <2> HIDE DEF touched
    <2>1. Grows(fs, made, Leading(line.name), touched) /\ NoCaps(fs, made)
      BY MadeIs
    <2>2. \A q \in DOMAIN made \ DOMAIN fs : made[q].kind = "dir"
      BY MadeAreDirs
    <2> QED BY <2>1, <2>2
  <1>3. NewOf(line) = Leading(line.name) /\ touched = {Follow(fs', line.name)}
    BY <1>1 DEF NewOf, Covered
  <1>4. IF Exists(made, target)
        THEN fs' = Chmod(Chown(made, target, line.owner), target, line.mode) /\ ret' = ret
        ELSE fs' = made /\ ret' = "failure"
    BY DEF Directory, Succeeds, Fails
  <1>5. CASE Exists(made, target)
    <2> DEFINE g == Chmod(Chown(made, target, line.owner), target, line.mode)
    <2> HIDE DEF made
    <2>1. Good(made) /\ target \in DOMAIN made
      BY <1>2, <1>5 DEF Grows, Good, Exists
    <2>2. /\ Grows(made, g, {}, {target}) /\ NoCaps(made, g) /\ target \in DOMAIN g
          /\ g[target].owner = line.owner /\ (line.mode # KeepMode => g[target].mode = line.mode)
      <3> HIDE DEF target
      <3> QED BY <2>1, OwnedIs
    <2>3. fs' = g
      BY <1>4, <1>5
    <2> HIDE DEF g
    <2>4. Follow(g, line.name) = target
      BY <2>2, FollowGrows
    <2>5. touched = {target}
      BY <1>3, <2>3, <2>4
    <2> HIDE DEF target, touched
    <2>6. Grows(fs, g, Leading(line.name), touched) /\ NoCaps(fs, g)
      BY <1>2, <2>2, <2>5, GrowsOn
    <2>7. Done(g, line)
      <3>1. \A p \in DOMAIN g \ DOMAIN fs : p \in DOMAIN made /\ g[p].kind = made[p].kind
        BY <2>2 DEF Grows, Like
      <3>2. \A p \in DOMAIN g \ DOMAIN fs : g[p].kind = "dir"
        BY <1>2, <3>1
      <3> QED BY <1>1, <2>2, <2>3, <2>5, <3>2 DEF Done, touched
    <2> QED BY <1>3, <1>4, <1>5, <2>3, <2>6, <2>7 DEF Does, touched
  <1>6. CASE ~Exists(made, target)
    <2>1. fs' = made /\ ret' # "success"
      BY <1>4, <1>6
    <2> HIDE DEF made, target, touched
    <2> QED BY <1>2, <1>3, <2>1 DEF Does, touched
  <1> QED BY <1>5, <1>6

\* A line f or F.
LEMMA FileDoes ==
  ASSUME NEW line \in TableLines, Good(fs), File(line)
  PROVE  Does(line)
  <1> DEFINE target == Follow(fs, line.name)
             g == Chmod(Chown(fs, target, line.owner), target, line.mode)
  <1>1. line.type \in {"f", "F"}
    BY DEF File
  <1>2. IF Is(fs, line.name, "file") THEN fs' = g /\ ret' = ret
        ELSE fs' = fs /\ IF line.type = "F" THEN ret' = ret ELSE ret' = "failure"
    BY DEF File, Succeeds, Fails
  <1>3. NewOf(line) = {}
    BY <1>1 DEF NewOf
  <1>4. CASE Is(fs, line.name, "file")
    <2>1. target \in DOMAIN fs
      BY <1>4 DEF Is, Exists
    <2>2. /\ Grows(fs, g, {}, {target}) /\ NoCaps(fs, g) /\ target \in DOMAIN g
          /\ g[target].owner = line.owner /\ (line.mode # KeepMode => g[target].mode = line.mode)
      <3> HIDE DEF target
      <3> QED BY <2>1, OwnedIs
    <2>3. fs' = g /\ ret' = ret
      BY <1>2, <1>4
    <2> HIDE DEF g
    <2>4. Follow(g, line.name) = target /\ Is(g, line.name, "file")
      BY <1>4, <2>2, FollowGrows
    <2>5. Covered(g, line) = {target}
      BY <1>1, <2>4 DEF Covered
    <2> HIDE DEF target
    <2>6. Done(g, line)
      <3>1. g[target].kind = "file"
        BY <2>4 DEF Is
      <3> QED BY <1>1, <2>2, <2>5, <3>1 DEF Done
    <2> QED BY <1>3, <2>2, <2>3, <2>5, <2>6 DEF Does
  <1>5. CASE ~Is(fs, line.name, "file")
    <2>1. fs' = fs /\ (ret' = "success" => ret = "success" /\ line.type = "F")
      BY <1>2, <1>5
    <2>2. line.type = "F" => Covered(fs, line) = {}
      BY <1>5 DEF Covered
    <2>3. line.type = "F" => Done(fs, line)
      BY <2>2 DEF Done
    <2>4. Grows(fs, fs, {}, Covered(fs, line)) /\ NoCaps(fs, fs)
      BY StaysIs
    <2> QED BY <1>3, <2>1, <2>3, <2>4 DEF Does
  <1> QED BY <1>4, <1>5

\* A line r.
LEMMA RecursiveDoes ==
  ASSUME NEW line \in TableLines, Good(fs), Recursive(line)
  PROVE  Does(line)
  <1> DEFINE below == Below(fs, line.name)
  <1>1. line.type = "r"
    BY DEF Recursive
  <1>2. \/ fs' = fs /\ ret' = "failure"
        \/ fs' = Walked(fs, below, line) /\ ret' = ret
        \/ \E visited \in SUBSET below : fs' = Walked(fs, visited, line) /\ ret' = "failure"
    BY DEF Recursive, Succeeds, Fails
  <1>3. NewOf(line) = {} /\ \A g : Covered(g, line) = Below(g, line.name)
    BY <1>1 DEF NewOf, Covered
  <1>4. \A g : DOMAIN g = DOMAIN fs => Below(g, line.name) = below
    BY DEF Below
  <1>5. below \subseteq DOMAIN fs
    BY DEF Below
  <1> HIDE DEF below
  <1>6. CASE fs' = fs /\ ret' = "failure"
    BY <1>3, <1>6, StaysIs DEF Does
  <1>7. ASSUME NEW visited \in SUBSET below, fs' = Walked(fs, visited, line),
               ret' = "failure" \/ (ret' = ret /\ visited = below)
        PROVE  Does(line)
    <2> DEFINE g == Walked(fs, visited, line)
    <2>1. /\ Grows(fs, g, {}, below) /\ NoCaps(fs, g)
          /\ \A q \in visited \intersect DOMAIN fs :
               /\ g[q].owner = line.owner
               /\ line.mode = KeepMode \/ g[q].kind = "link" \/ g[q].mode = line.mode
      <3>1. visited \subseteq below
        OBVIOUS
      <3>2. Grows(fs, g, {}, below) /\ NoCaps(fs, g)
        BY <3>1, WalkedIs
      <3>3. ASSUME NEW q \in visited \intersect DOMAIN fs
            PROVE  /\ g[q].owner = line.owner
                   /\ line.mode = KeepMode \/ g[q].kind = "link" \/ g[q].mode = line.mode
        BY <3>1, <3>3, WalkedPath
      <3> QED BY <3>2, <3>3
    <2>2. DOMAIN g = DOMAIN fs
      BY DEF Walked
    <2> HIDE DEF g
    <2>3. Covered(g, line) = below
      BY <1>3, <1>4, <2>2
    <2>4. visited = below => Done(g, line)
      BY <1>1, <1>5, <2>1, <2>2, <2>3 DEF Done
    <2> QED BY <1>3, <1>7, <2>1, <2>3, <2>4 DEF Does, g
  <1> QED BY <1>2, <1>6, <1>7

\* A line that makes nodes.
LEMMA NodesDo ==
  ASSUME NEW line \in TableLines, Good(fs), Nodes(line)
  PROVE  Does(line)
  <1> DEFINE wanted == line.start..Last_(line)
             made == {n \in wanted : ~Exists(fs, NodeName(line, n)) /\ Is(fs, Front(line.name), "dir")}
             names == {NodeName(line, n) : n \in made}
             number(q) == CHOOSE n \in made : NodeName(line, n) = q
  <1>1. line.type = "node"
    BY DEF Nodes
  <1>2. /\ fs' = [q \in DOMAIN fs \union names |-> IF q \in DOMAIN fs THEN fs[q] ELSE Node(line, number(q))]
        /\ ret' = "success" => ret = "success" /\ made = wanted
    BY DEF Nodes, Succeeds, Fails
  <1>3. NewOf(line) = NodeNames(line) /\ Covered(fs', line) = NodeNames(line)
    BY <1>1 DEF NewOf, Covered
  <1>4. \A n \in made : NodeName(line, n) \notin DOMAIN fs /\ n \in wanted
    BY DEF Exists
  <1>5. \A m, n \in wanted : NodeName(line, m) = NodeName(line, n) => m = n
    BY <1>1, LinesAssumption
  <1>6. {line.minor, line.start, line.increment, line.count} \subseteq Nat
    BY <1>1, LinesAssumption
  <1>7. \A n \in made : number(NodeName(line, n)) = n
    BY <1>4, <1>5
  <1>8. \A q \in names : number(q) \in made
    OBVIOUS
  <1>9. NodeNames(line) = {NodeName(line, n) : n \in wanted}
    BY DEF NodeNames
  <1> HIDE DEF made, number
  <1>10. \A n : /\ WellFormed(Node(line, n)) /\ Fresh(Node(line, n))
                /\ Node(line, n).owner = line.owner /\ Node(line, n).mode = line.mode
                /\ Node(line, n).rdev = <<line.node, line.major, Minor(line, n)>> /\ Node(line, n).kind = "node"
    BY DEF Node, Object, WellFormed, Fresh
  <1>11. DOMAIN fs' = DOMAIN fs \union names
    BY <1>2
  <1>12. \A q \in DOMAIN fs : fs'[q] = fs[q]
    BY <1>2
  <1>13. \A n \in made : NodeName(line, n) \in DOMAIN fs' /\ fs'[NodeName(line, n)] = Node(line, n)
    <2> SUFFICES ASSUME NEW n \in made
                 PROVE  NodeName(line, n) \in DOMAIN fs' /\ fs'[NodeName(line, n)] = Node(line, n)
      OBVIOUS
    <2>1. NodeName(line, n) \in names /\ NodeName(line, n) \notin DOMAIN fs /\ number(NodeName(line, n)) = n
      BY <1>4, <1>7
    <2> HIDE DEF names
    <2> QED BY <1>2, <2>1
  <1>14. names \subseteq NodeNames(line)
    BY <1>4, <1>9
  <1>15. \A q \in names : WellFormed(fs'[q]) /\ Fresh(fs'[q])
    BY <1>10, <1>13
  <1>16. Grows(fs, fs', NodeNames(line), NodeNames(line)) /\ NoCaps(fs, fs')
    <2> HIDE DEF names, wanted
    <2>1. \A q \in DOMAIN fs : WellFormed(fs'[q]) /\ Like(fs'[q], fs[q]) /\ fs'[q].caps = fs[q].caps
                             /\ fs'[q].owner = fs[q].owner /\ fs'[q].mode = fs[q].mode
      BY <1>12 DEF Good, Like
    <2> QED BY <1>11, <1>14, <1>15, <2>1 DEF Grows, NoCaps
  <1>17. ASSUME made = wanted PROVE Done(fs', line)
    <2>1. ASSUME NEW p \in Covered(fs', line)
          PROVE  p \in DOMAIN fs' /\ fs'[p].owner = line.owner /\ fs'[p].mode = line.mode /\ fs'[p].kind = "node"
      <3>1. PICK n \in made : p = NodeName(line, n)
        BY <1>3, <1>9, <1>17
      <3> QED BY <1>10, <1>13, <3>1
    <2>2. ASSUME NEW k \in 0..Last_(line) - line.start
          PROVE  fs'[NodeName(line, line.start + k)].rdev = <<line.node, line.major, line.minor + k * line.increment>>
      <3>1. k \in Nat /\ line.start \in Nat /\ Last_(line) \in Int
        BY <1>6 DEF Last_
      <3>2. line.start + k \in wanted
        BY <3>1
      <3>3. Minor(line, line.start + k) = line.minor + k * line.increment
        <4>1. (line.start + k) - line.start = k
          BY <3>1
        <4> QED BY <4>1 DEF Minor
      <3> QED BY <1>10, <1>13, <1>17, <3>2, <3>3
    <2> QED BY <1>1, <2>1, <2>2 DEF Done
  <1> QED BY <1>2, <1>3, <1>16, <1>17 DEF Does

(***************************************************************************)
(* The table as far as it is read.  For the invariant to be inductive, it  *)
(* says what TableApplied says after every line, which path an attribute   *)
(* line would be about, that nothing of the file system has gone, and that *)
(* what is no directory was there before or is a node of the table.        *)
(***************************************************************************)
Came(p) == fs[p].kind = "dir" \/ InTheWay(Len(table) + 1, p)
MakedevsInv ==
  makedevs \in {"reading", "ended"} =>
    /\ table \in Seq(TableLines)
    /\ Good(fs) /\ DOMAIN rootfs \subseteq DOMAIN fs
    /\ \A n \in 0..Len(table) : NamedUpTo(n) # {} => About(n) \in NamedUpTo(n)
    /\ full_name = IF NamedUpTo(Len(table)) = {} THEN {} ELSE {table[About(Len(table))].name}
    /\ ret = "success" =>
         /\ \A n \in 1..Len(table) : Applied(n)
         /\ \A p \in DOMAIN fs : Came(p)
         /\ \A p \in DOMAIN fs : \A c \in fs[p].caps : Granted(p, c)

\* Before the first line.
LEMMA MakedevsStart == Init => MakedevsInv
  <1>1. ASSUME MakedevsInit PROVE MakedevsInv
    <2>1. rootfs \in RootFs /\ fs = rootfs /\ table = <<>> /\ full_name = {}
      BY <1>1 DEF MakedevsInit
    <2>2. Good(fs)
      BY <2>1, RootFsAssumption DEF Good
    <2>3. Len(table) = 0 /\ table \in Seq(TableLines) /\ NamedUpTo(Len(table)) = {}
      BY <2>1 DEF NamedUpTo
    <2>4. \A p \in DOMAIN fs : \A c \in fs[p].caps : Granted(p, c)
      BY <2>1 DEF Granted
    <2>5. \A p \in DOMAIN fs : Came(p)
      BY <2>1 DEF Came, InTheWay
    <2> QED BY <2>1, <2>2, <2>3, <2>4, <2>5 DEF MakedevsInv
  <1>2. ASSUME MakedevsIdle PROVE MakedevsInv
    BY <1>2 DEF MakedevsIdle, MakedevsInv
  <1> QED BY <1>1, <1>2 DEF Init

\* One line more.
LEMMA TableIs ==
  ASSUME table \in Seq(TableLines), NEW line \in TableLines, Reads(line)
  PROVE  /\ table' \in Seq(TableLines) /\ Len(table) \in Nat /\ Len(table') = Len(table) + 1
         /\ \A n \in 1..Len(table) : n \in 1..Len(table') /\ table'[n] = table[n] /\ table[n] \in TableLines
         /\ table'[Len(table) + 1] = line /\ rootfs' = rootfs /\ makedevs = "reading"
  BY DEF Reads

\* The lines before are about the same names.
LEMMA AboutKept ==
  ASSUME table \in Seq(TableLines), NEW line \in TableLines, Reads(line), NEW n \in 0..Len(table)
  PROVE  NamedUpTo(n)' = NamedUpTo(n) /\ About(n)' = About(n)
  <1>1. NamedUpTo(n)' = NamedUpTo(n)
    BY TableIs DEF NamedUpTo
  <1> QED BY <1>1 DEF About

\* What was in the way of a line still is.
LEMMA WayKept ==
  ASSUME table \in Seq(TableLines), NEW line \in TableLines, Reads(line),
         NEW n \in 1..Len(table) + 1, NEW m \in Nat, n <= m, m <= Len(table) + 2, NEW p, InTheWay(n, p)
  PROVE  InTheWay(m, p)'
  <1>1. /\ Len(table) \in Nat /\ rootfs' = rootfs
        /\ \A k \in 1..Len(table) : table'[k] = table[k]
    BY TableIs
  <1>2. ASSUME NEW k \in 1..n - 1 PROVE k \in 1..m - 1 /\ table'[k] = table[k]
    BY <1>1
  <1> QED BY <1>1, <1>2 DEF InTheWay

\* An object is of the kind it was.
LEMMA KindKept ==
  ASSUME table \in Seq(TableLines), NEW line \in TableLines, Reads(line),
         NEW n \in 1..Len(table), NEW p, RightKind(n, p), fs'[p].kind = fs[p].kind
  PROVE  RightKind(n, p)'
  <1>1. table'[n] = table[n] /\ n \in 1..Len(table) + 1 /\ n \in Nat /\ n <= n /\ n <= Len(table) + 2
    BY TableIs
  <1>2. InTheWay(n, p) => InTheWay(n, p)'
    BY <1>1, WayKept
  <1> QED BY <1>1, <1>2 DEF RightKind

\* What a line before has done stays done, unless the new line is about it.
LEMMA EarlierKept ==
  ASSUME table \in Seq(TableLines), DOMAIN rootfs \subseteq DOMAIN fs, NEW line \in TableLines, Reads(line),
         Grows(fs, fs', NewOf(line), Covered(fs', line)),
         \A n \in 0..Len(table) : NamedUpTo(n) # {} => About(n) \in NamedUpTo(n),
         NEW n \in 1..Len(table), Applied(n)
  PROVE  Applied(n)'
  <1> DEFINE at == table[n]
  <1>1. /\ table'[n] = at /\ at \in TableLines /\ Len(table') = Len(table) + 1 /\ Len(table) \in Nat
        /\ table'[Len(table) + 1] = line /\ rootfs' = rootfs
        /\ \A k \in 1..Len(table) : table'[k] = table[k] /\ table[k] \in TableLines
    BY TableIs
  <1>2. \A k \in 1..Len(table) : /\ Covered(fs, table[k]) \subseteq Covered(fs', table[k])
                                 /\ \A p \in Covered(fs', table[k]) \ Covered(fs, table[k]) :
                                       p \in DOMAIN fs' \ DOMAIN fs /\ table[k].type = "r"
    BY <1>1, CoveredGrows, LinesAssumption
  <1>3. ASSUME NEW p \in Covered(fs', at)
        PROVE  /\ Exists(fs', p) /\ RightKind(n, p)'
               /\ Latest(n, p)' /\ ~MadeAfter(n, p)' =>
                    fs'[p].owner = at.owner /\ (at.mode = KeepMode \/ fs'[p].kind = "link" \/ fs'[p].mode = at.mode)
    <2>1. CASE p \in Covered(fs, at)
      <3>1. p \in DOMAIN fs /\ p \in DOMAIN fs'
        BY <2>1 DEF Applied, Exists, Grows
      <3>2. ASSUME Latest(n, p)', ~MadeAfter(n, p)'
            PROVE  fs'[p].owner = at.owner /\ (at.mode = KeepMode \/ fs'[p].kind = "link" \/ fs'[p].mode = at.mode)
        <4>1. \A later \in n + 1..Len(table') : p \notin Covered(fs', table'[later])
          BY <3>2 DEF Latest
        <4>2. p \notin Covered(fs', line)
          BY <1>1, <4>1
        <4>3. \A later \in n + 1..Len(table) : p \notin Covered(fs, table[later])
          <5> TAKE later \in n + 1..Len(table)
          <5>1. later \in 1..Len(table) /\ later \in n + 1..Len(table')
            BY <1>1
          <5> QED BY <1>1, <1>2, <4>1, <5>1
        <4>4. Latest(n, p)
          BY <2>1, <4>3 DEF Latest
        <4>5. ~MadeAfter(n, p)
          <5> SUFFICES ASSUME MadeAfter(n, p) PROVE MadeAfter(n, p)'
            BY <3>2
          <5>1. PICK later \in n + 1..Len(table) :
                  \/ table[later].type = "node" /\ p \in NodeNames(table[later])
                  \/ table[later].type = "d" /\ p \in Leading(table[later].name)
            BY DEF MadeAfter
          <5>2. later \in n + 1..Len(table') /\ table'[later] = table[later] /\ p \notin DOMAIN rootfs'
            BY <1>1 DEF MadeAfter
          <5> QED BY <5>1, <5>2 DEF MadeAfter
        <4>6. fs[p].owner = at.owner /\ (at.mode = KeepMode \/ fs[p].kind = "link" \/ fs[p].mode = at.mode)
          BY <2>1, <4>4, <4>5 DEF Applied
        <4>7. fs'[p].owner = fs[p].owner /\ fs'[p].mode = fs[p].mode /\ fs'[p].kind = fs[p].kind
          BY <3>1, <4>2 DEF Grows, Like
        <4> QED BY <4>6, <4>7
      <3>3. RightKind(n, p) /\ fs'[p].kind = fs[p].kind
        BY <2>1, <3>1 DEF Applied, Grows, Like
      <3>4. RightKind(n, p)'
        BY <3>3, KindKept
      <3> QED BY <3>1, <3>2, <3>4 DEF Exists
    <2>2. CASE p \notin Covered(fs, at)
      <3>1. p \in DOMAIN fs' /\ p \notin DOMAIN fs /\ at.type = "r"
        BY <1>2, <2>2
      <3>2. p \in NewOf(line) /\ p \notin DOMAIN rootfs
        BY <3>1 DEF Grows
      <3>3. \/ line.type = "node" /\ p \in NodeNames(line)
            \/ line.type = "d" /\ p \in Leading(line.name)
        BY <3>2 DEF NewOf
      <3>4. Len(table) + 1 \in n + 1..Len(table')
        BY <1>1
      <3>5. MadeAfter(n, p)'
        BY <1>1, <3>2, <3>3, <3>4 DEF MadeAfter
      <3>6. RightKind(n, p)'
        BY <1>1, <3>1 DEF RightKind
      <3> QED BY <3>1, <3>5, <3>6 DEF Exists
    <2> QED BY <2>1, <2>2
  <1>4. ASSUME at.type = "node", NEW k \in 0..Last_(at) - at.start
        PROVE  fs'[NodeName(at, at.start + k)].rdev = <<at.node, at.major, at.minor + k * at.increment>>
    <2>1. NodeName(at, at.start + k) \in NodeNames(at)
      <3>1. {at.start, at.count} \subseteq Nat
        BY <1>1, <1>4, LinesAssumption
      <3>2. at.start + k \in at.start..Last_(at)
        BY <3>1 DEF Last_
      <3> QED BY <3>2 DEF NodeNames
    <2>2. Covered(fs, at) = NodeNames(at)
      BY <1>4 DEF Covered
    <2>3. NodeName(at, at.start + k) \in DOMAIN fs
      BY <2>1, <2>2 DEF Applied, Exists
    <2>4. fs[NodeName(at, at.start + k)].rdev = <<at.node, at.major, at.minor + k * at.increment>>
      BY <1>4 DEF Applied
    <2> QED BY <2>3, <2>4 DEF Grows, Like
  <1>5. ASSUME at.type = "xattr"
        PROVE  /\ NamedUpTo(n)' # {}
               /\ Exists(fs', table'[About(n)'].name) /\ at.cap \in fs'[table'[About(n)'].name].caps
    <2> DEFINE k == About(n)
    <2>1. About(n)' = k
      <3>1. n \in 0..Len(table)
        BY <1>1
      <3> QED BY <3>1, AboutKept
    <2>2. NamedUpTo(n) # {}
      BY <1>5 DEF Applied
    <2>3. k \in 1..Len(table)
      <3>1. n \in 0..Len(table) /\ n \in 1..Len(table)
        BY <1>1
      <3>2. k \in NamedUpTo(n)
        BY <2>2, <3>1
      <3> QED BY <1>1, <3>1, <3>2 DEF NamedUpTo
    <2>4. table'[k] = table[k]
      BY <1>1, <2>3
    <2>5. Exists(fs, table[k].name) /\ at.cap \in fs[table[k].name].caps
      BY <1>5 DEF Applied
    <2> HIDE DEF k
    <2>6. Exists(fs', table[k].name) /\ at.cap \in fs'[table[k].name].caps
      BY <2>5 DEF Exists, Grows
    <2>7. NamedUpTo(n)' = NamedUpTo(n)
      <3>1. n \in 0..Len(table)
        BY <1>1
      <3> QED BY <3>1, AboutKept
    <2> QED BY <2>1, <2>2, <2>4, <2>6, <2>7
  <1> QED BY <1>1, <1>3, <1>4, <1>5 DEF Applied

\* The name an attribute line after this one would be about.
LEMMA NameKept ==
  ASSUME MakedevsInv, makedevs = "reading", NEW line \in TableLines, Reads(line),
         full_name' = IF line.type \in NamedTypes THEN {line.name} ELSE full_name
  PROVE  /\ \A n \in 0..Len(table') : (NamedUpTo(n) # {} => About(n) \in NamedUpTo(n))'
         /\ full_name' = IF NamedUpTo(Len(table))' = {} THEN {} ELSE {table'[About(Len(table))'].name}
         /\ line.type \notin NamedTypes /\ full_name # {} =>
              /\ NamedUpTo(Len(table))' # {}
              /\ full_name = {table'[About(Len(table))'].name}
  <1> DEFINE len == Len(table)
  <1>1. /\ table \in Seq(TableLines) /\ len \in Nat /\ Len(table') = len + 1
        /\ \A n \in 1..len : table'[n] = table[n] /\ table[n] \in TableLines
        /\ table'[len + 1] = line
    BY TableIs DEF MakedevsInv
  <1>2. \A n \in 0..len : NamedUpTo(n)' = NamedUpTo(n) /\ About(n)' = About(n)
    BY <1>1, AboutKept
  <1>3. \A n \in 0..len : NamedUpTo(n) # {} => About(n) \in NamedUpTo(n)
    BY DEF MakedevsInv
  <1>4. full_name = IF NamedUpTo(len) = {} THEN {} ELSE {table[About(len)].name}
    BY DEF MakedevsInv
  <1>5. NamedUpTo(len) # {} => table'[About(len)] = table[About(len)]
    <2>1. NamedUpTo(len) # {} => About(len) \in 1..len
      BY <1>1, <1>3 DEF NamedUpTo
    <2> QED BY <1>1, <2>1
  <1> DEFINE N == {k \in 1..len + 1 : table'[k].type \in NamedTypes}
             a == CHOOSE k \in N : \A other \in N : other <= k
  <1>6. NamedUpTo(Len(table))' = N /\ About(Len(table))' = a
    BY <1>1 DEF NamedUpTo, About
  <1>7. NamedUpTo(len) = {k \in 1..len : table'[k].type \in NamedTypes}
    BY <1>1 DEF NamedUpTo
  <1>8. About(len) = CHOOSE k \in NamedUpTo(len) : \A other \in NamedUpTo(len) : other <= k
    BY DEF About
  <1>9. CASE line.type \in NamedTypes
    <2>1. len + 1 \in N /\ \A k \in N : k <= len + 1 /\ k \in Nat
      BY <1>1, <1>9
    <2>2. a = len + 1
      <3>1. a \in N /\ \A other \in N : other <= a
        BY <2>1
      <3> HIDE DEF a, N
      <3> QED BY <1>1, <2>1, <3>1
    <2> HIDE DEF a, N
    <2>3. a \in N /\ N # {}
      BY <2>1, <2>2
    <2>4. \A n \in 0..Len(table') : n \in 0..len \/ n = Len(table')
      BY <1>1
    <2> QED BY <1>1, <1>2, <1>3, <1>6, <1>9, <2>2, <2>3, <2>4
  <1>10. CASE line.type \notin NamedTypes
    <2>1. N = NamedUpTo(len)
      BY <1>1, <1>7, <1>10
    <2>2. a = About(len)
      BY <1>8, <2>1
    <2> HIDE DEF a, N
    <2>4. \A n \in 0..Len(table') : n \in 0..len \/ n = Len(table')
      BY <1>1
    <2>5. len \in 0..len
      BY <1>1
    <2> QED BY <1>1, <1>2, <1>3, <1>4, <1>5, <1>6, <1>10, <2>1, <2>2, <2>4, <2>5
  <1> QED BY <1>9, <1>10

\* A capability that was granted still is.
LEMMA GrantedKept ==
  ASSUME MakedevsInv, makedevs = "reading", ret = "success", NEW line \in TableLines, Reads(line),
         NEW p, NEW c, Granted(p, c)
  PROVE  Granted(p, c)'
  <1>1. /\ table \in Seq(TableLines) /\ Len(table) \in Nat /\ Len(table') = Len(table) + 1
        /\ \A n \in 1..Len(table) : n \in 1..Len(table') /\ table'[n] = table[n]
        /\ rootfs' = rootfs
    BY TableIs DEF MakedevsInv
  <1>2. CASE p \in DOMAIN rootfs /\ c \in rootfs[p].caps
    BY <1>1, <1>2 DEF Granted
  <1>3. ASSUME NEW k \in 1..Len(table), table[k].type = "xattr", table[k].cap = c, p = table[About(k)].name
        PROVE  Granted(p, c)'
    <2>1. NamedUpTo(k) # {}
      BY <1>3 DEF MakedevsInv, Applied
    <2>2. k \in 0..Len(table)
      BY <1>1
    <2>3. About(k) \in NamedUpTo(k)
      BY <2>1, <2>2 DEF MakedevsInv
    <2>4. About(k) \in 1..Len(table)
      BY <1>1, <2>2, <2>3 DEF NamedUpTo
    <2>5. About(k)' = About(k)
      BY <1>1, <2>2, AboutKept
    <2>6. table'[About(k)'] = table[About(k)]
      BY <1>1, <2>4, <2>5
    <2>7. table'[k].type = "xattr" /\ table'[k].cap = c /\ p = table'[About(k)'].name /\ k \in 1..Len(table')
      BY <1>1, <1>3, <2>6
    <2> QED BY <2>7 DEF Granted
  <1> QED BY <1>2, <1>3 DEF Granted

\* One line more keeps the invariant when it does what it says.
LEMMA LineKeeps ==
  ASSUME MakedevsInv, makedevs = "reading", NEW line \in TableLines, Reads(line), NEW last, last = Len(table) + 1,
         full_name' = IF line.type \in NamedTypes THEN {line.name} ELSE full_name,
         Grows(fs, fs', NewOf(line), Covered(fs', line)),
         ret' = "success" =>
           /\ ret = "success" /\ Applied(last)'
           /\ \A p \in DOMAIN fs : \A c \in fs'[p].caps \ fs[p].caps : Granted(p, c)'
           /\ \A p \in DOMAIN fs' \ DOMAIN fs :
                 fs'[p].kind = "dir" \/ (line.type = "node" /\ p \in NodeNames(line))
  PROVE  MakedevsInv'
  <1>1. /\ table \in Seq(TableLines) /\ DOMAIN rootfs \subseteq DOMAIN fs
        /\ \A n \in 0..Len(table) : NamedUpTo(n) # {} => About(n) \in NamedUpTo(n)
    BY DEF MakedevsInv
  <1>2. /\ table' \in Seq(TableLines) /\ Len(table) \in Nat /\ Len(table') = last /\ rootfs' = rootfs
    BY <1>1, TableIs
  <1>3. Good(fs') /\ DOMAIN rootfs' \subseteq DOMAIN fs'
    BY <1>1, <1>2 DEF Grows, Good
  <1>4. /\ \A n \in 0..Len(table') : (NamedUpTo(n) # {} => About(n) \in NamedUpTo(n))'
        /\ full_name' = IF NamedUpTo(Len(table))' = {} THEN {} ELSE {table'[About(Len(table))'].name}
    BY NameKept
  <1>5. ASSUME ret' = "success", NEW n \in 1..Len(table') PROVE Applied(n)'
    <2>1. CASE n = last
      BY <1>5, <2>1
    <2>2. CASE n # last
      <3>1. n \in 1..Len(table)
        BY <1>2, <2>2
      <3>2. Applied(n)
        BY <1>5, <3>1 DEF MakedevsInv
      <3> QED BY <1>1, <3>1, <3>2, EarlierKept
    <2> QED BY <2>1, <2>2
  <1>6. ASSUME ret' = "success", NEW p \in DOMAIN fs', NEW c \in fs'[p].caps PROVE Granted(p, c)'
    <2>1. p \in DOMAIN fs
      BY <1>6 DEF Grows, Fresh
    <2>2. CASE c \in fs[p].caps
      <3>1. Granted(p, c) /\ ret = "success"
        BY <1>6, <2>1, <2>2 DEF MakedevsInv
      <3> QED BY <3>1, GrantedKept
    <2>3. CASE c \notin fs[p].caps
      BY <1>6, <2>1, <2>3
    <2> QED BY <2>2, <2>3
  <1>7. ASSUME ret' = "success", NEW p \in DOMAIN fs' PROVE Came(p)'
    <2>1. CASE p \in DOMAIN fs
      <3>1. Came(p) /\ fs'[p].kind = fs[p].kind
        BY <1>7, <2>1 DEF MakedevsInv, Grows, Like
      <3>2. PICK n : n = Len(table) + 1
        OBVIOUS
      <3>3. n \in 1..Len(table) + 1 /\ Len(table') + 1 \in Nat /\ n <= Len(table') + 1 /\ Len(table') + 1 <= Len(table) + 2
        BY <1>2, <3>2
      <3>4. PICK m : m = Len(table') + 1
        OBVIOUS
      <3>5. InTheWay(n, p) => InTheWay(m, p)'
        BY <1>1, <3>3, <3>4, WayKept
      <3> QED BY <3>1, <3>2, <3>4, <3>5 DEF Came
    <2>2. CASE p \notin DOMAIN fs
      <3>1. fs'[p].kind = "dir" \/ (line.type = "node" /\ p \in NodeNames(line))
        BY <1>7, <2>2
      <3>2. table'[last] = line /\ last \in 1..(Len(table') + 1) - 1
        BY <1>1, <1>2, TableIs
      <3> QED BY <3>1, <3>2 DEF Came, InTheWay
    <2> QED BY <2>1, <2>2
  <1> QED BY <1>2, <1>3, <1>4, <1>5, <1>6, <1>7 DEF MakedevsInv

\* Every line but an attribute line.
LEMMA DoesKeeps ==
  ASSUME MakedevsInv, makedevs = "reading", NEW line \in TableLines, Reads(line),
         full_name' = IF line.type \in NamedTypes THEN {line.name} ELSE full_name,
         line.type # "xattr", Does(line)
  PROVE  MakedevsInv'
  <1>6. PICK last : last = Len(table) + 1
    OBVIOUS
  <1>1. table'[last] = line /\ Len(table') = last
    BY <1>6, TableIs DEF MakedevsInv
  <1>2. ASSUME ret' = "success" PROVE Applied(last)'
    <2>1. Done(fs', line)
      BY <1>2 DEF Does
    <2>2. Covered(fs', table'[last]) = Covered(fs', line)
      BY <1>1
    <2>3. ASSUME NEW p \in Covered(fs', line) PROVE RightKind(last, p)'
      <3>1. /\ p \in DOMAIN fs'
            /\ line.type \in {"f", "F"} => fs'[p].kind = "file"
            /\ line.type = "node" => fs'[p].kind = "node"
            /\ line.type = "d" /\ p \notin DOMAIN fs => fs'[p].kind = "dir"
        BY <2>1 DEF Done
      <3>2. ASSUME p \in DOMAIN fs PROVE fs'[p].kind = "dir" \/ InTheWay(last, p)'
        <4>1. Came(p) /\ fs'[p].kind = fs[p].kind
          BY <1>2, <3>2 DEF MakedevsInv, Does, Grows, Like
        <4>2. /\ table \in Seq(TableLines) /\ last \in 1..Len(table) + 1 /\ last \in Nat
              /\ last <= last /\ last <= Len(table) + 2
          BY <1>6, TableIs DEF MakedevsInv
        <4>3. InTheWay(last, p) => InTheWay(last, p)'
          BY <4>2, WayKept
        <4> QED BY <1>6, <4>1, <4>3 DEF Came
      <3> QED BY <1>1, <3>1, <3>2 DEF RightKind
    <2> QED BY <1>1, <2>1, <2>2, <2>3 DEF Applied, Done, Exists
  <1>3. ret' = "success" => ret = "success"
    BY DEF Does
  <1>4. \A p \in DOMAIN fs : fs'[p].caps = fs[p].caps
    BY DEF Does, NoCaps
  <1>5. Grows(fs, fs', NewOf(line), Covered(fs', line))
    BY DEF Does
  <1>7. ASSUME ret' = "success", NEW p \in DOMAIN fs' \ DOMAIN fs
        PROVE  fs'[p].kind = "dir" \/ (line.type = "node" /\ p \in NodeNames(line))
    <2>1. p \in NewOf(line)
      BY <1>5 DEF Grows
    <2>2. line.type = "d" => fs'[p].kind = "dir"
      BY <1>7 DEF Does, Done
    <2> QED BY <2>1, <2>2 DEF NewOf
  <1> QED BY <1>2, <1>3, <1>4, <1>5, <1>6, <1>7, LineKeeps

\* An attribute line.
LEMMA XattrKeeps ==
  ASSUME MakedevsInv, makedevs = "reading", NEW line \in TableLines, Xattr(line)
  PROVE  MakedevsInv'
  <1> PICK last : last = Len(table) + 1
    OBVIOUS
  <1> DEFINE files == {p \in full_name \intersect DOMAIN fs : fs[p].kind = "file"}
  <1>1. line.type = "xattr" /\ Reads(line) /\ full_name' = full_name /\ ret' = ret
    BY DEF Xattr
  <1>2. CASE ~(Xattrs /\ files # {})
    <2>1. makedevs' = "died"
      BY <1>2 DEF Xattr, Died
    <2> QED BY <2>1 DEF MakedevsInv
  <1>3. CASE Xattrs /\ files # {}
    <2> DEFINE k == About(Len(table))'
    <2>1. fs' = [p \in DOMAIN fs |->
                   IF p \in files THEN [fs[p] EXCEPT !.caps = @ \union {line.cap}] ELSE fs[p]]
      BY <1>3 DEF Xattr
    <2>2. table'[last] = line /\ Len(table') = last /\ Len(table) \in Nat
      BY <1>1, TableIs DEF MakedevsInv
    <2>3. full_name' = IF line.type \in NamedTypes THEN {line.name} ELSE full_name
      BY <1>1 DEF NamedTypes
    <2>4. line.type \notin NamedTypes /\ full_name # {}
      BY <1>1, <1>3 DEF NamedTypes
    <2>5. NamedUpTo(Len(table))' # {} /\ full_name = {table'[k].name}
      BY <1>1, <2>3, <2>4, NameKept
    <2> DEFINE name == table'[k].name
    <2>6. files = {name} /\ name \in DOMAIN fs /\ fs[name].kind = "file"
      BY <1>3, <2>5
    <2> HIDE DEF files, name
    <2>7. Good(fs)
      BY DEF MakedevsInv
    <2>8. DOMAIN fs' = DOMAIN fs
      BY <2>1
    <2>9. ASSUME NEW p \in DOMAIN fs
          PROVE  /\ WellFormed(fs'[p]) /\ Like(fs'[p], fs[p]) /\ fs'[p].owner = fs[p].owner /\ fs'[p].mode = fs[p].mode
                 /\ fs'[p].caps = IF p = name THEN fs[p].caps \union {line.cap} ELSE fs[p].caps
      <3>1. WellFormed(fs[p])
        BY <2>7 DEF Good
      <3>2. fs'[p] = IF p = name THEN [fs[p] EXCEPT !.caps = @ \union {line.cap}] ELSE fs[p]
        BY <2>1, <2>6
      <3> QED BY <3>1, <3>2 DEF WellFormed, Like
    <2>10. NewOf(line) = {} /\ Covered(fs', line) = {}
      BY <1>1 DEF NewOf, Covered
    <2>11. Grows(fs, fs', NewOf(line), Covered(fs', line))
      BY <2>8, <2>9 DEF Grows
    <2>12. NamedUpTo(last)' # {} /\ About(last)' = k
      BY <2>2, <2>5
    <2>13. Applied(last)'
      <3>1. Covered(fs', table'[last]) = {} /\ table'[last].type = "xattr"
        BY <1>1, <2>2, <2>10
      <3>2. Exists(fs', table'[About(last)'].name) /\ table'[last].cap \in fs'[table'[About(last)'].name].caps
        BY <2>2, <2>6, <2>8, <2>9, <2>12 DEF Exists, name
      <3> QED BY <2>12, <3>1, <3>2 DEF Applied
    <2>14. ASSUME NEW p \in DOMAIN fs, NEW c \in fs'[p].caps \ fs[p].caps PROVE Granted(p, c)'
      <3>1. p = name /\ c = line.cap
        BY <2>9
      <3>2. last \in 1..Len(table')
        BY <2>2
      <3>3. table'[last].type = "xattr" /\ table'[last].cap = c /\ p = table'[About(last)'].name
        BY <1>1, <2>2, <2>12, <3>1 DEF name
      <3> QED BY <3>2, <3>3 DEF Granted
    <2> HIDE DEF k
    <2> QED BY <1>1, <2>3, <2>8, <2>11, <2>13, <2>14, LineKeeps
  <1> QED BY <1>2, <1>3

\* What is not touched means what it meant.
LEMMA SameTable ==
  ASSUME UNCHANGED <<rootfs, fs, table, full_name, ret>>
  PROVE  /\ Good(fs)' <=> Good(fs)
         /\ \A n : /\ NamedUpTo(n)' = NamedUpTo(n) /\ About(n)' = About(n)
                   /\ Applied(n)' <=> Applied(n)
         /\ \A p, c : Granted(p, c)' <=> Granted(p, c)
         /\ \A p : Came(p)' <=> Came(p)
         /\ rootfs' = rootfs /\ fs' = fs /\ table' = table /\ full_name' = full_name /\ ret' = ret
  <1>1. \A n : NamedUpTo(n)' = NamedUpTo(n)
    BY DEF NamedUpTo
  <1>2. \A n : About(n)' = About(n)
    BY <1>1 DEF About
  <1>3. \A n, p : (Latest(n, p)' <=> Latest(n, p)) /\ (MadeAfter(n, p)' <=> MadeAfter(n, p))
    BY DEF Latest, MadeAfter
  <1>4. \A n, p : (InTheWay(n, p)' <=> InTheWay(n, p)) /\ (RightKind(n, p)' <=> RightKind(n, p))
    BY DEF InTheWay, RightKind
  <1>5. \A p : Came(p)' <=> Came(p)
    BY <1>4 DEF Came
  <1>6. ASSUME NEW n PROVE Applied(n)' <=> Applied(n)
    BY <1>1, <1>2, <1>3, <1>4 DEF Applied
  <1>7. \A p, c : Granted(p, c)' <=> Granted(p, c)
    BY <1>2 DEF Granted
  <1> QED BY <1>1, <1>2, <1>6, <1>7, <1>5 DEF Good

\* The other lines, and the end.
LEMMA MakedevsStep == MakedevsInv /\ MakedevsNext => MakedevsInv'
  <1> SUFFICES ASSUME MakedevsInv, MakedevsNext PROVE MakedevsInv'
    OBVIOUS
  <1>1. ASSUME EndOfTable PROVE MakedevsInv'
    BY <1>1, SameTable DEF EndOfTable, MakedevsInv
  <1>2. ASSUME NEW line \in TableLines,
               \/ Blank(line) \/ Invalid(line) \/ Xattr(line) \/ UnknownOwner(line)
               \/ Directory(line) \/ File(line) \/ Recursive(line)
               \/ Nodes(line) \/ Unsupported(line)
        PROVE  MakedevsInv'
    <2>1. Reads(line) /\ makedevs = "reading"
      BY <1>2 DEF Blank, Invalid, Xattr, UnknownOwner, Directory, File, Recursive, Nodes, Unsupported, Named, Reads
    <2>2. Good(fs)
      BY <2>1 DEF MakedevsInv
    <2>3. CASE Blank(line)
      <3>1. line.type = "blank" /\ fs' = fs /\ full_name' = full_name /\ ret' = ret
        BY <2>3 DEF Blank, Succeeds
      <3>2. Covered(fs', line) = {}
        BY <3>1 DEF Covered
      <3>3. Does(line)
        BY <2>2, <3>1, <3>2, StaysIs DEF Does, Done
      <3>4. full_name' = IF line.type \in NamedTypes THEN {line.name} ELSE full_name
        BY <3>1 DEF NamedTypes
      <3> QED BY <2>1, <3>1, <3>3, <3>4, DoesKeeps
    <2>4. CASE Invalid(line)
      <3>1. line.type = "invalid" /\ fs' = fs /\ full_name' = full_name /\ ret' = "failure"
        BY <2>4 DEF Invalid, Fails
      <3>2. Does(line)
        BY <2>2, <3>1, StaysIs DEF Does
      <3>3. full_name' = IF line.type \in NamedTypes THEN {line.name} ELSE full_name
        BY <3>1 DEF NamedTypes
      <3> QED BY <2>1, <3>1, <3>2, <3>3, DoesKeeps
    <2>5. CASE Xattr(line)
      BY <2>1, <2>5, XattrKeeps
    <2>6. CASE UnknownOwner(line)
      BY <2>6 DEF UnknownOwner, Died, MakedevsInv
    <2>7. CASE Directory(line) \/ File(line) \/ Recursive(line) \/ Nodes(line) \/ Unsupported(line)
      <3>1. Unsupported(line) => Does(line)
        <4> SUFFICES ASSUME Unsupported(line) PROVE Does(line)
          OBVIOUS
        <4>1. fs' = fs /\ ret' = "failure"
          BY DEF Unsupported, Fails
        <4> QED BY <2>2, <4>1, StaysIs DEF Does
      <3>2. Does(line)
        BY <2>2, <2>7, <3>1, DirectoryDoes, FileDoes, RecursiveDoes, NodesDo
      <3>3. line.type \in NamedTypes /\ line.type # "xattr" /\ full_name' = {line.name}
        BY <2>7 DEF Directory, File, Recursive, Nodes, Unsupported, Named, NamedTypes
      <3>4. full_name' = IF line.type \in NamedTypes THEN {line.name} ELSE full_name
        BY <3>3
      <3> QED BY <2>1, <3>2, <3>3, <3>4, DoesKeeps
    <2> QED BY <1>2, <2>3, <2>4, <2>5, <2>6, <2>7
  <1> QED BY <1>1, <1>2 DEF MakedevsNext

\* Nothing else touches the table.
LEMMA MakedevsInvariant == Spec => []MakedevsInv
  <1>1. MakedevsInv /\ [Next]_vars => MakedevsInv'
    <2>1. MakedevsInv /\ UNCHANGED makedevsVars => MakedevsInv'
      BY SameTable DEF MakedevsInv
    <2> QED BY <2>1, MakedevsStep DEF Next, vars
  <1> QED BY <1>1, MakedevsStart, PTL DEF Spec

\* Whatever table and file system makedevs is given: when it exits with 0, every
\* path a line it read is about is there, of the kind the line names and, but for
\* what later lines changed, with its owner, mode and numbers; only a directory
\* whose name was taken is not one.  And no path has a capability that no line was
\* about.
THEOREM TableIsApplied == Spec => []TableApplied
  <1>1. MakedevsInv => TableApplied
    BY DEF MakedevsInv, TableApplied
  <1> QED BY <1>1, MakedevsInvariant, PTL
=============================================================================
