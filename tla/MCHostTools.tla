----------------------------- MODULE MCHostTools -----------------------------
(* A small instance of HostTools for TLC. *)
EXTENDS HostTools

Wrapped(float, fp32, cpu) ==
    [predefined |-> 3, floatAbi |-> float, fp32 |-> fp32, arch |-> TRUE, cpu |-> cpu,
     needEpoch |-> TRUE, pie |-> TRUE, relro |-> "full"]

\* An ARM target has a float ABI, a MIPS one an FP32 mode; both with everything
\* else switched on; and a target with nothing.
MCBuilds ==
    {Wrapped(TRUE, FALSE, TRUE), Wrapped(FALSE, TRUE, TRUE),
     [predefined |-> 2, floatAbi |-> FALSE, fp32 |-> FALSE, arch |-> FALSE, cpu |-> FALSE,
      needEpoch |-> FALSE, pie |-> FALSE, relro |-> "partial"]}

\* /usr/lib64 begins with /usr/lib, /opt/lib with none of the unsafe paths.
MCHostPaths == {"/usr/include", "/usr/lib64"}
MCArguments ==
    {Flag(text) : text \in {"--help", "-I", "-isystem", "-L", "-msoft-float", "-mhard-float",
                            "-D__KERNEL__", "-fPIC", "-shared"}}
    \union {[opt |-> "-I", val |-> "/usr/include"], [opt |-> "-L", val |-> "/opt/lib"],
            [opt |-> "-mcpu=", val |-> "m"],
            [opt |-> "", val |-> "/usr/lib64"], [opt |-> "", val |-> "/opt/lib"]}

----------------------------------------------------------------------------
Dir == Object("dir", "root", "755")
Plain == Object("file", "root", "644")
Link(path) == [kind |-> "link", owner |-> "root", mode |-> "777", caps |-> {},
               rdev |-> <<>>, to |-> path]

\* The skeleton: /, /dev, and /srv with a file, a link to it and a dangling one.
MCRootFs ==
    LET Tree == [p \in {<<>>, <<"dev">>, <<"srv">>} |-> Dir]
        Srv(with) == [p \in {<<"srv", "f">>, <<"srv", "l">>} \union with |->
                         CASE p = <<"srv", "f">> -> Plain
                           [] p = <<"srv", "l">> -> Link(<<"srv", "f">>)
                           [] OTHER -> Link(<<"run", "x">>)]
    IN  {Tree @@ Srv({}), Tree @@ Srv({<<"srv", "x">>})}

Line(type, name, mode, owner) ==
    [type |-> type, name |-> name, mode |-> mode, owner |-> owner]
Batch(start, count) ==
    [type |-> "node", name |-> <<"dev", "hda">>, mode |-> "640", owner |-> "root",
     node |-> "b", major |-> 3, minor |-> 1, start |-> start, increment |-> 2, count |-> count]

MCTableLines ==
    {[type |-> "blank"], [type |-> "invalid"],
     [type |-> "xattr", cap |-> "cap_net_raw"],
     Line("d", <<"var", "www">>, "755", "www"), Line("d", <<"srv", "f">>, "755", "www"),
     Line("d", <<"srv", "x">>, "755", "root"), Line("d", <<"srv">>, "700", "root"),
     Line("f", <<"srv", "l">>, "4755", "root"), Line("f", <<"srv", "f">>, "600", "www"), Line("f", <<"var">>, "600", "root"),
     Line("F", <<"var">>, "600", "www"), Line("F", <<"srv", "f">>, "-1", "www"),
     Line("r", <<"srv">>, "-1", "www"), Line("r", <<"srv">>, "750", "nobody"),
     Line("r", <<"var">>, "700", "www"), Line("unsupported", <<"srv">>, "700", "www"),
     Line("d", <<"dev", "hda">>, "755", "root"),
     Batch(0, 0), Batch(1, 1), Batch(1, 2), Batch(2, 2)}
=============================================================================
