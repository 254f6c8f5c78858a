CONSTANTS
    JobIds = {1}
    Accounts = {a}
    Polls = {p, q}
    RawEnds = {"completed", "failed", "cancelled"}
    MaxRestarts = 1
SPECIFICATION FairJobsSpec
INVARIANTS JobsInvariant EndsAreTrue 
PROPERTIES EndIsReported ImplementsOutcomes
CHECK_DEADLOCK FALSE
