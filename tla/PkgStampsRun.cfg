SPECIFICATION Spec
CONSTANTS
    lib = lib
    app = app
    Pkgs = {lib, app}
    Deps <- MCDeps
    RecursiveDeps <- MCDeps
    Override = {app}
    Installs <- MCInstalls
    NumPatches <- MCNumPatches
    Commands <- MCCommands
    NoProduct = NoProduct
    UserEvents = {"edit", "break", "torn dirclean"}
    MaxRev = 2
    MaxBreaks = 1
INVARIANTS
    TypeOK
    PatchedOnce
    OnlyInstallsRepeat
PROPERTIES
    SuccessIsSettled
    DependenciesFirst
    FailsOnlyWhenTorn
    RebuildCopies
