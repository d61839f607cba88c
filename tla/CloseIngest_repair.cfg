SPECIFICATION Spec
CONSTANTS
    Blocks = {"daily", "adjust", "technical", "sectorFlow"}
    Short = {"daily", "adjust", "technical"}
    Fallible = {"daily", "sectorFlow"}
    Strict = {FALSE}
    Rebuild = {TRUE, FALSE}
    MaxRuns = 2
INVARIANTS
    RepairRefreshes
    RepairCloses
