\* The documented bound fails: iterations is counted by the planner only.
SPECIFICATION GraphSpec
CONSTANTS
    StepLimit = 25
    MaxIterations = 3

INVARIANTS
    RejectionsBounded

\* The workflow is over when execute_query has returned.
CHECK_DEADLOCK FALSE
