------------------------------ MODULE HostTools ------------------------------
(***************************************************************************)
(* The two C programs of its own that Buildroot runs while it builds: the  *)
(* wrapper around the cross compiler, started by every package, and        *)
(* makedevs, started for every image.  Each run of one is a process alone; *)
(* a behaviour is one such process.                                        *)
(***************************************************************************)
EXTENDS ToolchainWrapper, Makedevs

WrapperIdle ==
    /\ build = CHOOSE b \in Builds : TRUE
    /\ epoch = "unset" /\ argv = <<>> /\ args = <<>> /\ i = 1 /\ wrapper = "idle"

MakedevsIdle ==
    /\ rootfs = CHOOSE f \in RootFs : TRUE
    /\ fs = rootfs /\ table = <<>> /\ full_name = {}
    /\ ret = "success" /\ makedevs = "idle"

Init == \/ WrapperInit /\ MakedevsIdle
        \/ MakedevsInit /\ WrapperIdle

Next == \/ WrapperNext /\ UNCHANGED makedevsVars
        \/ MakedevsNext /\ UNCHANGED wrapperVars

vars == <<wrapperVars, makedevsVars>>

Spec == Init /\ [][Next]_vars
=============================================================================
