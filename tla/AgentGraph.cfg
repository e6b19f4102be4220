\* LangGraph's default limit of 25 supersteps and the limit of 3 iterations.
SPECIFICATION GraphSpec
CONSTANTS
    StepLimit = 25
    MaxIterations = 3

INVARIANTS
    AnswerUsesAllEvidence
    AnswerWasJudged

\* The workflow is over when execute_query has returned.
CHECK_DEADLOCK FALSE
