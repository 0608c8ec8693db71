SPECIFICATION Spec
CONSTANTS
    good = good
    bad = bad
    Complete = {good, bad}
    Torn = Torn
    NoFile = NoFile
    Builds = {b1, b2}
    HashFiles <- MCHashFiles
    NumUris = 2
    Legacy = bad
    Faults = {"kill", "errexit", "link", "copy", "save", "rename"}
    MaxCuts = 2
INVARIANTS
    NoClutter
    ServedStays
PROPERTIES
    HashedIsRight
