SPECIFICATION Spec
CONSTANTS
    Boards = {b1, b2}
    Toolchains = {t1}
    ToolchainOf <- MCShared
    Preinstalled = {b1, b2}
    Runs = {b1, b2}
    BoardOf <- MCOwnBoard
    MaxVersion = 1
    RelBin <- MCSameLayout
    Events = {"drop", "redrop"}
    UserWaits = TRUE
    MaxEvents = 2
PROPERTIES
    FailureJustified
