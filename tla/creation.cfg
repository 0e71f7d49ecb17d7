\* Two runs of the wizard; the Google agent is unique, imap and pop3 are not.
SPECIFICATION FairSpec
CONSTANTS
    UniqueTypes = {"google"}
    MaxSessions = 2
INVARIANTS
    TypeOK
    Inv
    ReportedSuccessIsReal
    OneVerdictPerResource
    AgentIdentityExists
    IdentityTransportExists
    IdentityNamesDiffer
    NoSilentOrphan
PROPERTIES
    OnlyTheRunConfigures
    ManualResourceSettles
    ImplementsResourceSetup
\* The last run of the wizard ends.
CHECK_DEADLOCK FALSE
