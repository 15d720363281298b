SPECIFICATION Spec
CONSTANTS
    Leftovers = {"none", "older"}
    Conditions = {"absent", "bad", "old"}
CHECK_DEADLOCK FALSE
INVARIANTS TypeOK CodeSurvives FailureRestores DoneIsWhole
