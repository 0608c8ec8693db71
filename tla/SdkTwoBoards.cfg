SPECIFICATION Spec
CONSTANTS
    Boards = {b1, b2}
    Toolchains = {t1}
    ToolchainOf <- MCShared
    Preinstalled = {b1, b2}
    Runs = {b1, b2}
    BoardOf <- MCOwnBoard
    MaxVersion = 2
    RelBin <- MCMovedTools
    Events = {"drop", "remove", "upgrade", "cleanhost", "distclean"}
    UserWaits = TRUE
    MaxEvents = 2
PROPERTIES
    FailureJustified
    Fresh
