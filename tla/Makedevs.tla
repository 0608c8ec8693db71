------------------------------ MODULE Makedevs ------------------------------
(***************************************************************************)
(* package/makedevs/makedevs.c: gives the files of a root file system      *)
(* their owners and modes, and creates its device nodes, from a table.     *)
(* fs/common.mk runs it under fakeroot before an image is made; its exit   *)
(* status decides whether the image is built.                              *)
(*                                                                         *)
(* A path is a sequence of names.  Owner and group are one value here: the *)
(* two are looked up, set and kept together.  A node's number is the pair  *)
(* of major and minor.                                                     *)
(***************************************************************************)
EXTENDS Naturals, Sequences, SequencesExt, TLC

CONSTANTS
    RootFs,       \* the file systems the table may be applied to: path -> object
    TableLines,   \* the lines a table may have, as records
    Users,        \* the names the host passwd and group files know
    Xattrs,       \* TRUE when built with EXTENDED_ATTRIBUTES
    MaxLines      \* bound: how many lines a table has

VARIABLES
    rootfs,       \* what was there before the table
    fs,           \* path -> object
    table,        \* the lines read so far
    full_name,    \* the path of the last line that had one, if any: a set
    ret,          \* "success" or "failure", once set it stays
    makedevs      \* "idle", "reading", "died", "ended"

makedevsVars == <<rootfs, fs, table, full_name, ret, makedevs>>

KeepMode == "-1"
NamedTypes == {"d", "f", "F", "r", "node", "unsupported"}
Died == makedevs' = "died"

----------------------------------------------------------------------------
(* What the C library does on the file system; links dangle or lead to a   *)
(* path.  An object: kind, owner, mode, caps and, for a link, to.          *)

Exists(f, p) == p \in DOMAIN f
Follow(f, p) == IF Exists(f, p) /\ f[p].kind = "link" THEN f[p].to ELSE p
Is(f, p, kind) == Exists(f, Follow(f, p)) /\ f[Follow(f, p)].kind = kind
Object(kind, owner, mode) ==
    [kind |-> kind, owner |-> owner, mode |-> mode, caps |-> {}, rdev |-> <<>>]

\* chown() and chmod() follow a link, lchown() does not.
Chown(f, p, owner) == [f EXCEPT ![p].owner = owner]
Chmod(f, p, mode) == IF mode = KeepMode THEN f ELSE [f EXCEPT ![p].mode = mode]

\* mkdir() of each missing leading directory, with every permission, then of
\* the last one with the wanted mode.  Nothing past an obstacle is made.
Leading(p) == {SubSeq(p, 1, n) : n \in 1..Len(p)}
Blocked(f, p) == \E q \in Leading(p) : Exists(f, q) /\ ~Is(f, q, "dir")
bb_make_directory(f, p, mode) ==
    IF Blocked(f, p)
    THEN LET free == {q \in Leading(p) :
                        \A b \in Leading(q) : Exists(f, b) => Is(f, b, "dir")}
         IN  [q \in DOMAIN f \union free |->
                IF q \in DOMAIN f THEN f[q] ELSE Object("dir", "root", "777")]
    ELSE [q \in DOMAIN f \union Leading(p) |->
            IF q \in DOMAIN f THEN f[q]
            ELSE Object("dir", "root", IF q = p THEN mode ELSE "777")]

Below(f, p) == {q \in DOMAIN f : IsPrefix(p, q)}
Dangling(f, p) == f[p].kind = "link" /\ ~Exists(f, f[p].to)

----------------------------------------------------------------------------
\* The table has one more line.
Reads(line) ==
    /\ makedevs = "reading" /\ Len(table) < MaxLines
    /\ table' = Append(table, line)
    /\ UNCHANGED rootfs

Fails == ret' = "failure" /\ UNCHANGED makedevs
ForgetsFailure == ret' = "success" /\ UNCHANGED makedevs    \* slip: ret of the last line
Succeeds == UNCHANGED <<ret, makedevs>>

\* A comment or an empty line.
Blank(line) ==
    /\ line.type = "blank" /\ Reads(line)
    /\ UNCHANGED <<fs, full_name>> /\ Succeeds

\* Too few fields, or a number past 0xfffff: full_name is the earlier line's.
Invalid(line) ==
    /\ line.type = "invalid" /\ Reads(line)
    /\ UNCHANGED <<fs, full_name>> /\ Fails

\* A capability for the path of the line before; libcap wants a regular file.
Xattr(line) ==
    /\ line.type = "xattr" /\ Reads(line)
    /\ UNCHANGED <<full_name, ret>>
    /\ LET files == {p \in full_name \intersect DOMAIN fs : fs[p].kind = "file"}
       IN  IF Xattrs /\ files # {}
           THEN /\ fs' = [p \in DOMAIN fs |->
                            IF p \in files THEN [fs[p] EXCEPT !.caps = @ \union {line.cap}] ELSE fs[p]]
                /\ UNCHANGED makedevs
           ELSE UNCHANGED fs /\ Died

\* A line with a name starts with the owner; from then on its path is the
\* one an attribute line is about.
UnknownOwner(line) ==
    /\ line.type \in NamedTypes /\ Reads(line)
    /\ line.owner \notin Users /\ Died
    /\ UNCHANGED <<fs, full_name, ret>>

Named(line) ==
    /\ Reads(line) /\ line.owner \in Users
    /\ full_name' = {line.name}

\* The outcome of bb_make_directory() is not looked at.
Directory(line) ==
    /\ line.type = "d" /\ Named(line)
    /\ LET made == bb_make_directory(fs, line.name, line.mode)
           target == Follow(made, line.name)
       IN  IF Exists(made, target)
           THEN fs' = Chmod(Chown(made, target, line.owner), target, line.mode) /\ Succeeds
           ELSE fs' = made /\ Fails

File(line) ==
    /\ line.type \in {"f", "F"} /\ Named(line)
    /\ LET target == Follow(fs, line.name)
       IN  IF Is(fs, line.name, "file")
           THEN fs' = Chmod(Chown(fs, target, line.owner), target, line.mode) /\ Succeeds
           ELSE UNCHANGED fs /\ IF line.type = "F" THEN Succeeds ELSE Fails

\* nftw(): a parent before what is below it, links not followed, the order of
\* siblings the directory's.  The first failure ends the walk, wherever it was.
\* A link that leads somewhere is passed over by chmod(); a dangling one is not,
\* and chmod() of it fails.
Walked(f, visited, line) ==
    [q \in DOMAIN f |->
        IF q \notin visited THEN f[q]
        ELSE [f[q] EXCEPT
                !.owner = line.owner,
                !.mode = IF line.mode = KeepMode \/ f[q].kind = "link" THEN @ ELSE line.mode]]

Obstacles(f, line) ==
    IF line.mode = KeepMode THEN {} ELSE {q \in Below(f, line.name) : Dangling(f, q)}

Recursive(line) ==
    /\ line.type = "r" /\ Named(line)
    /\ IF ~Exists(fs, line.name) THEN UNCHANGED fs /\ Fails
       ELSE IF Obstacles(fs, line) = {}
       THEN fs' = Walked(fs, Below(fs, line.name), line) /\ Succeeds
       ELSE \E stop \in Obstacles(fs, line) :
            \E visited \in SUBSET (Below(fs, line.name) \ (Obstacles(fs, line) \ {stop})) :
               /\ stop \in visited
               /\ \A q \in visited : \A p \in Leading(q) \intersect Below(fs, line.name) :
                      p \in visited
               /\ fs' = Walked(fs, visited, line) /\ Fails

----------------------------------------------------------------------------
\* count is counted down before the loop, and a batch of one has no number
\* after its name.
Last_(line) == IF line.count = 0 THEN line.start ELSE line.start + line.count - 1
NodeName(line, n) ==
    IF line.count > 1 THEN Append(Front(line.name), Last(line.name) \o ToString(n)) ELSE line.name
NodeNames(line) == {NodeName(line, n) : n \in line.start..Last_(line)}
MinorFromZero(line, n) == line.minor + n * line.increment    \* slip
Minor(line, n) == line.minor + (n - line.start) * line.increment
Node(line, n) == [Object("node", line.owner, line.mode)
                    EXCEPT !.rdev = <<line.node, line.major, Minor(line, n)>>]

\* A node that is there already fails; the rest of the batch is made.
Nodes(line) ==
    /\ line.type = "node" /\ Named(line)
    /\ LET wanted == line.start..Last_(line)
           parent == Front(line.name)
           made == {n \in wanted : ~Exists(fs, NodeName(line, n)) /\ Is(fs, parent, "dir")}
       IN  /\ fs' = [q \in DOMAIN fs \union {NodeName(line, n) : n \in made} |->
                        IF q \in DOMAIN fs THEN fs[q]
                        ELSE Node(line, CHOOSE n \in made : NodeName(line, n) = q)]
           /\ IF made = wanted THEN Succeeds ELSE Fails

\* What there is has an owner, a mode and capabilities, a link leads somewhere.
WellFormed(object) ==
    /\ {"kind", "owner", "mode", "caps", "rdev"} \subseteq DOMAIN object
    /\ object.kind = "link" => "to" \in DOMAIN object
ASSUME RootFsAssumption == \A f \in RootFs : \A p \in DOMAIN f : WellFormed(f[p])

\* The numbers of a line are unsigned, and different numbers are written differently.
ASSUME LinesAssumption ==
    \A line \in TableLines :
        /\ line.type \in NamedTypes \union {"blank", "invalid", "xattr"}
        /\ line.type = "node" =>
              /\ {line.minor, line.start, line.increment, line.count} \subseteq Nat
              /\ \A m, n \in line.start..Last_(line) : NodeName(line, m) = NodeName(line, n) => m = n

Unsupported(line) ==
    /\ line.type = "unsupported" /\ Named(line)
    /\ UNCHANGED fs /\ Fails

EndOfTable ==
    /\ makedevs = "reading"
    /\ makedevs' = "ended"
    /\ UNCHANGED <<rootfs, fs, table, full_name, ret>>

MakedevsInit ==
    /\ rootfs \in RootFs /\ fs = rootfs
    /\ table = <<>> /\ full_name = {}
    /\ ret = "success" /\ makedevs = "reading"

MakedevsNext ==
    \/ \E line \in TableLines :
          \/ Blank(line) \/ Invalid(line) \/ Xattr(line) \/ UnknownOwner(line)
          \/ Directory(line) \/ File(line) \/ Recursive(line)
          \/ Nodes(line) \/ Unsupported(line)
    \/ EndOfTable

----------------------------------------------------------------------------
(* The property.                                                           *)

\* The paths a line is about.
Covered(f, line) ==
    CASE line.type \in {"d", "f"} -> {Follow(f, line.name)}
      [] line.type = "F" -> IF Is(f, line.name, "file") THEN {Follow(f, line.name)} ELSE {}
      [] line.type = "r" -> Below(f, line.name)
      [] line.type = "node" -> NodeNames(line)
      [] OTHER -> {}

\* The line number n is the last one about the path p.
Latest(n, p) ==
    /\ p \in Covered(fs, table[n])
    /\ \A later \in n + 1..Len(table) : p \notin Covered(fs, table[later])

\* What is made by the table after line n, and so was not below it then.
MadeAfter(n, p) ==
    /\ p \notin DOMAIN rootfs
    /\ \E later \in n + 1..Len(table) :
          \/ table[later].type = "node" /\ p \in NodeNames(table[later])
          \/ table[later].type = "d" /\ p \in Leading(table[later].name)

\* The line an attribute line is about: the nearest one before it with a name.
NamedUpTo(n) == {k \in 1..n : table[k].type \in NamedTypes}
About(n) == CHOOSE k \in NamedUpTo(n) : \A other \in NamedUpTo(n) : other <= k

\* Something that is not a directory had the path p before line n: it was in
\* the root file system, or a line made a node of it.
InTheWay(n, p) ==
    \/ p \in DOMAIN rootfs /\ rootfs[p].kind # "dir"
    \/ \E k \in 1..n - 1 : table[k].type = "node" /\ p \in NodeNames(table[k])

\* A line f or F is about a regular file, a batch about nodes.  A line d is about
\* a directory, but for one that could not be made because its name was taken:
\* nobody looks at the outcome, and what is there gets the owner and the mode.
RightKind(n, p) ==
    /\ table[n].type \in {"f", "F"} => fs[p].kind = "file"
    /\ table[n].type = "node" => fs[p].kind = "node"
    /\ table[n].type = "d" => fs[p].kind = "dir" \/ InTheWay(n, p)

\* Line n is applied: every path it is about is there, of the kind it names and
\* with the owner and the mode it gives, unless a later line is about it, too;
\* every node of a batch has its own number (the only node of a batch of one has
\* the bare name); and a capability is on the file of the line before.
Applied(n) ==
    /\ \A p \in Covered(fs, table[n]) :
          /\ Exists(fs, p) /\ RightKind(n, p)
          /\ Latest(n, p) /\ ~MadeAfter(n, p) =>
                /\ fs[p].owner = table[n].owner
                /\ table[n].mode = KeepMode \/ fs[p].kind = "link" \/ fs[p].mode = table[n].mode
    /\ table[n].type = "node" =>
          \A k \in 0..Last_(table[n]) - table[n].start :
              fs[NodeName(table[n], table[n].start + k)].rdev
                  = <<table[n].node, table[n].major, table[n].minor + k * table[n].increment>>
    /\ table[n].type = "xattr" =>
          /\ NamedUpTo(n) # {}
          /\ Exists(fs, table[About(n)].name)
          /\ table[n].cap \in fs[table[About(n)].name].caps

\* The capability c of the path p was there before, or a line put it there.
Granted(p, c) ==
    \/ p \in DOMAIN rootfs /\ c \in rootfs[p].caps
    \/ \E k \in 1..Len(table) :
          table[k].type = "xattr" /\ table[k].cap = c /\ p = table[About(k)].name

\* When makedevs exits with 0, every line of its table is applied as above: with
\* the kind, the owner, the mode and the numbers it names, but for a directory
\* whose name was taken.  And no path has got a capability from a line that is not
\* about it.  A failure of one line, forgotten when a later one succeeds, would
\* put an image together with wrong owners, or without a node.
TableApplied ==
    makedevs = "ended" /\ ret = "success" =>
        /\ \A n \in 1..Len(table) : Applied(n)
        /\ \A p \in DOMAIN fs : \A c \in fs[p].caps : Granted(p, c)
=============================================================================
