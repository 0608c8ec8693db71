SPECIFICATION SpecResizing
CHECK_DEADLOCK FALSE
CONSTANTS
    BoxWidth = 2
    MAX_LEN = 3
    Menus <- MCMenus
    Members <- MCMembers
    RootMenu = "main"
    Heights = {2, 3}
    TextMore = 1
    HelpLines = 3
    ResultLines = 6
    Found <- MCFound
    Values <- MCValues
    ListHeight = 2
    MaxDepth = 3
INVARIANTS
    RowIsTaken
