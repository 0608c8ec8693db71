SPECIFICATION Spec
CONSTANTS
    Boards = {b1, b2}
    Toolchains = {t1}
    ToolchainOf <- MCShared
    Preinstalled = {b1}
    Runs = {b1, b2}
    BoardOf <- MCOwnBoard
    MaxVersion = 2
    RelBin <- MCMovedTools
    Events = {"kill", "interrupt", "drop", "redrop", "replace", "remove", "upgrade", "cleanhost", "distclean"}
    UserWaits = FALSE
    MaxEvents = 3
INVARIANTS
    TypeOK
    PublishedWhole
    ExtractedIsWhole
PROPERTIES
    SelfContained
