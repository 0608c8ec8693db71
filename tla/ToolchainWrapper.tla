-------------------------- MODULE ToolchainWrapper --------------------------
(***************************************************************************)
(* toolchain/toolchain-wrapper.c: the program installed in the place of    *)
(* the cross compiler.  It puts the options of the configuration in front  *)
(* of the caller's, refuses header and library directories of the build    *)
(* machine, and becomes the real compiler.                                 *)
(*                                                                         *)
(* An argument is a record: opt, the option text the program compares      *)
(* ("" when there is none), and val, the text that follows it.  "-I/x" is  *)
(* [opt |-> "-I", val |-> "/x"], "-I" and "/x" are two arguments.          *)
(***************************************************************************)
EXTENDS Naturals, Sequences, SequencesExt

CONSTANTS
    Builds,      \* the ways the wrapper is compiled: the BR_* macros, as records
    Arguments,   \* the arguments a caller may pass
    HostPaths,   \* the texts that begin with an entry of unsafe_paths
    MaxArgs      \* bound: how many arguments a caller passes

\* The macros of a wrapper.  The configuration has one architecture, and BR_FLOAT_ABI is
\* an ARM target's where BR_FP32_MODE is a MIPS one's (arch/Config.in.arm:902, .mips:199).
ASSUME BuildsAssumption ==
    \A b \in Builds : b.predefined \in Nat /\ ~(b.floatAbi /\ b.fp32)
ASSUME ArgumentsAssumption == MaxArgs \in Nat

VARIABLES
    build,       \* the macros of this wrapper
    epoch,       \* SOURCE_DATE_EPOCH in the environment
    argv,        \* the caller's arguments, argv[0] left out
    args,        \* the vector for the compiler: what the wrapper adds, then argv
    i,           \* the argument the check of paths has reached
    wrapper      \* where main() is: "idle", "start", "check", "exec", "refused", "help"

wrapperVars == <<build, epoch, argv, args, i, wrapper>>

Flag(text) == [opt |-> text, val |-> ""]
Given(texts) == \E a \in 1..Len(argv) : argv[a].opt \in texts

----------------------------------------------------------------------------
(* The options the wrapper adds, each block as the macros select it.       *)

ExclusiveForgotten == 9     \* slip: one option added and not counted
EXCLUSIVE_ARGS == 10

FloatAbi ==
    IF build.floatAbi /\ ~Given({"-mfloat-abi=", "-msoft-float", "-mhard-float"})
    THEN <<Flag("-mfloat-abi=")>> ELSE <<>>

\* The last of -msoft-float and -mhard-float decides.
Fp32Mode ==
    LET floats == SelectSeq(argv, LAMBDA a : a.opt \in {"-msoft-float", "-mhard-float"})
    IN  IF build.fp32 /\ (floats = <<>> \/ Last(floats).opt = "-mhard-float")
        THEN <<Flag("-mfp")>> ELSE <<>>

ArchCpu ==
    IF Given({"-march=", "-mtune=", "-mcpu="}) THEN <<>>
    ELSE (IF build.arch THEN <<Flag("-march=")>> ELSE <<>>)
      \o (IF build.cpu THEN <<Flag("-mcpu=")>> ELSE <<>>)

BadEpoch == build.needEpoch /\ epoch = "invalid"
Dates == IF build.needEpoch /\ epoch = "valid"
         THEN <<Flag("-D__TIME__="), Flag("-D__DATE__="), Flag("-Wno-builtin-macro-redefined")>>
         ELSE <<>>

Freestanding == {"-D__KERNEL__", "-D__UBOOT__"}
NoPie == Freestanding \union
         {"-r", "-Wl,-r", "-static", "-fno-pie", "-fno-PIE", "-no-pie"}
Pie ==
    IF ~build.pie \/ Given(NoPie) THEN <<>>
    ELSE (IF Given({"-fpie", "-fPIE", "-fpic", "-fPIC"}) THEN <<>> ELSE <<Flag("-fPIE")>>)
      \o (IF Given({"-shared"}) THEN <<>> ELSE <<Flag("-pie")>>)

Relro ==
    IF Given(Freestanding) THEN <<>>
    ELSE (IF build.relro = "full" THEN <<Flag("-Wl,-z,now")>> ELSE <<>>)
      \o (IF build.relro = "none" THEN <<>> ELSE <<Flag("-Wl,-z,relro")>>)

Predefined == [a \in 1..build.predefined |-> Flag("predefined")]
Extra == FloatAbi \o Fp32Mode \o ArchCpu \o Dates \o Pie \o Relro

\* What malloc() reserves: argc counts argv[0], whose place NULL takes.
Capacity == build.predefined + Len(argv) + 1 + EXCLUSIVE_ARGS

----------------------------------------------------------------------------
(* The check of paths.  After an option with its path in the next argument *)
(* the loop over unsafe_opts goes on with that next argument.              *)

unsafe_opts == <<"-I", "-idirafter", "-iquote", "-isystem", "-L">>

\* Slip: the path in the argument after the option is stepped over unchecked.
TrySkipping(s, opt) ==
    IF s.i > Len(argv) \/ s.unsafe \/ argv[s.i].opt # opt THEN s
    ELSE IF argv[s.i].val # "" THEN [s EXCEPT !.unsafe = argv[s.i].val \in HostPaths]
    ELSE [s EXCEPT !.i = @ + 1]

TryOption(s, opt) ==
    IF s.i > Len(argv) \/ s.unsafe \/ argv[s.i].opt # opt THEN s
    ELSE IF argv[s.i].val # "" THEN [s EXCEPT !.unsafe = argv[s.i].val \in HostPaths]
    ELSE IF s.i = Len(argv) THEN [s EXCEPT !.i = @ + 1]
    ELSE [i |-> s.i + 1,
          unsafe |-> argv[s.i + 1].opt = "" /\ argv[s.i + 1].val \in HostPaths]

\* Each of the five options is tried in turn on the argument.
CheckArgument(at) ==
    LET o == unsafe_opts
        begin == [i |-> at, unsafe |-> FALSE]
    IN  TryOption(TryOption(TryOption(TryOption(TryOption(begin, o[1]), o[2]), o[3]), o[4]), o[5])

----------------------------------------------------------------------------
\* A caller of the wrapper: make, a configure script, a person.
WrapperInit ==
    /\ build \in Builds
    /\ epoch \in {"unset", "valid", "invalid"}
    /\ argv \in UNION {[1..n -> Arguments] : n \in 0..MaxArgs}
    /\ args = <<>> /\ i = 1 /\ wrapper = "start"

\* The compiler's own help: nothing is added and nothing is checked.
Help ==
    /\ wrapper = "start" /\ Given({"--help"})
    /\ args' = argv /\ wrapper' = "help"
    /\ UNCHANGED <<build, epoch, argv, i>>

RefuseEpoch ==
    /\ wrapper = "start" /\ ~Given({"--help"}) /\ BadEpoch
    /\ wrapper' = "refused"
    /\ UNCHANGED <<build, epoch, argv, args, i>>

AddOptions ==
    /\ wrapper = "start" /\ ~Given({"--help"}) /\ ~BadEpoch
    /\ args' = Predefined \o Extra
    /\ wrapper' = "check"
    /\ UNCHANGED <<build, epoch, argv, i>>

CheckPath ==
    /\ wrapper = "check" /\ i <= Len(argv)
    /\ LET s == CheckArgument(i)
       IN  /\ i' = s.i + 1
           /\ wrapper' = IF s.unsafe THEN "refused" ELSE "check"
    /\ UNCHANGED <<build, epoch, argv, args>>

\* The vector begins with ccache; without ccache its first entry is skipped.
Exec ==
    /\ wrapper = "check" /\ i > Len(argv)
    /\ args' = args \o argv \o <<Flag("NULL")>>
    /\ wrapper' = "exec"
    /\ UNCHANGED <<build, epoch, argv, i>>

WrapperNext == Help \/ RefuseEpoch \/ AddOptions \/ CheckPath \/ Exec

----------------------------------------------------------------------------
(* Properties.                                                             *)

\* How gcc reads the command line: R is where it sees one of the five options,
\* and not the directory that the option before it asks for.
ReadAsOptions(R) ==
    \A a \in 1..Len(argv) :
        a \in R <=> /\ argv[a].opt \in ToSet(unsafe_opts)
                   /\ ~(a - 1 \in R /\ argv[a - 1].val = "")

\* The directories those options name, in the same argument or in the next one.
SearchedDirs(R) ==
    {argv[a].val : a \in {o \in R : argv[o].val # ""}}
        \union {argv[a + 1].val : a \in {o \in R : o < Len(argv) /\ argv[o].val = ""}}

\* A directory called like an option ("-I -L") is read differently by the
\* loop and by gcc; no caller names a directory so.
NoDirLooksLikeOption ==
    \A a \in 1..Len(argv) - 1 :
        argv[a].opt \in ToSet(unsafe_opts) /\ argv[a].val = ""
            => argv[a + 1].opt = ""

\* The compiler never runs with a search directory of the build machine among
\* the directories that gcc, reading the command line its own way, would
\* search: whatever the order of options and the way the path is attached,
\* check_unsafe_path() has seen it.
UnsafePathsStop ==
    wrapper = "exec" /\ NoDirLooksLikeOption =>
        \A R \in SUBSET (1..Len(argv)) :
            ReadAsOptions(R) => SearchedDirs(R) \intersect HostPaths = {}

\* The vector for the compiler stays in the memory main() reserved for it, in
\* every configuration and for every command line: EXCLUSIVE_ARGS counts the
\* options that can be added together.
ArgumentsFit == wrapper \in {"check", "exec"} => Len(args) <= Capacity
=============================================================================
