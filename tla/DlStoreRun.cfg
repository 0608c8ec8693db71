SPECIFICATION FairSpec
CONSTANTS
    good = good
    bad = bad
    Complete = {good, bad}
    Torn = Torn
    NoFile = NoFile
    Builds = {b1, b2}
    HashFiles <- MCHashFiles
    NumUris = 2
    Legacy = NoFile
    Faults = {"kill", "errexit", "save", "rename"}
    MaxCuts = 2
INVARIANTS
    TypeOK
PROPERTIES
    ImplementsStore
    EveryRunEnds
