SPECIFICATION Spec
CHECK_DEADLOCK FALSE
CONSTANTS
    Builds <- MCBuilds
    Arguments <- MCArguments
    HostPaths <- MCHostPaths
    MaxArgs = 3
    RootFs <- MCRootFs
    TableLines <- MCTableLines
    Users = {"root", "www"}
    Xattrs = TRUE
    MaxLines = 3
INVARIANTS
    UnsafePathsStop
    ArgumentsFit
    TableApplied
