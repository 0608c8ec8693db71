SPECIFICATION Spec
CONSTANTS
    SymType <- MCSymType
    ConstSyms <- MCConst
    ModulesSym = "MODULES"
    Kconfigs <- MCKconfigs
    Files <- MCFiles
    Modes <- MCModes
    Habits <- MCHabits
    Edits <- MCEdits
    Picks <- MCPicks
    MaxRuns = 2
    MaxEdits = 1
    MayFail <- MCMayFail
CHECK_DEADLOCK FALSE
INVARIANTS
    ValuesAreRight
    AnswersCount
    EntriesCanBeReached
    SavedReadsBack
    DefconfigReadsBack
    LastSaveSurvives
    LoopsReported
PROPERTIES
    AutoConfLast
    FollowsFiles
    AskingEnds
