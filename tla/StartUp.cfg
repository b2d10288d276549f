SPECIFICATION FairSpec
CHECK_DEADLOCK FALSE
CONSTANTS
    None = None
    Instances = {i1, i2}
    Migrations = 2
    SeedRows = 3
    Titles <- MCTitles
    Questions = 2
    MaxTries = 2
    MaxFaults = 3
INVARIANTS
    SchemaComplete
    DataComplete
    CopiesUpToInstances
PROPERTIES
    AllServe
