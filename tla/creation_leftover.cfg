\* A run that leaves a Google agent behind, and the next one.
SPECIFICATION Spec
CONSTANTS
    UniqueTypes = {"google"}
    MaxSessions = 2
INVARIANT
    ExistingIsSetUp
\* The last run of the wizard ends.
CHECK_DEADLOCK FALSE
