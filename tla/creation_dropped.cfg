\* One run of the wizard.
SPECIFICATION Spec
CONSTANTS
    UniqueTypes = {}
    MaxSessions = 1
INVARIANT
    SavedResourceIsSetUp
CHECK_DEADLOCK FALSE
