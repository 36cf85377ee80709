CONSTANTS
    Conditions = {full, asid}
    Runs = 1
    Output <- MCOutput
SPECIFICATION Spec
INVARIANTS
    ReportedMissingIsMissing
