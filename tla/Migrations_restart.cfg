CONSTANTS
    MaxRuns = 3
    MaxCrashes = 2
SPECIFICATION Spec
INVARIANTS
    TypeOK
    HeadMatchesModels
    RevisionTellsColumns
    UpgradesAlwaysRun
PROPERTY ReachesHead
CHECK_DEADLOCK FALSE
