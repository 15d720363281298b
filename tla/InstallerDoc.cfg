SPECIFICATION Spec
CONSTANTS
    Leftovers = {"none"}
    Conditions = {"old"}
CHECK_DEADLOCK FALSE
INVARIANTS FailureRestoresAll
