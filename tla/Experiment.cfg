CONSTANTS
    Conditions = {full, asid}
    Runs = 2
    Output <- MCOutput
SPECIFICATION FairSpec
INVARIANTS
    ResultsFollowTasks
    RowIsOfThisRun
    NoEmulatorLeft
PROPERTIES
    Ends
