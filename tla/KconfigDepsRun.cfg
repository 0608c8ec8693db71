SPECIFICATION Spec
CONSTANTS
    SymType <- MCSymType
    ConstSyms <- MCConst
    Conditions <- MCConditions
    PropConds <- MCPropConds
    Worlds <- MCWorlds
    ModulesSym = "MODULES"
    MaxNesting = 2
CHECK_DEADLOCK FALSE
INVARIANTS
    SimplifiedMeansTheSame
    DependenceIsReal
    SupersetIsReal
    PrintedMeansTheSame
