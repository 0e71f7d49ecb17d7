\* Two runs of the wizard, two lookups in one of them or one in each.
SPECIFICATION WizardSpec
CONSTANTS
    a1 = a1
    g1 = g1
    Addresses = {a1, g1}
    OtherTexts = {}
    Trimmed <- MCTrimmed
    GmailMailboxes = {g1}
    GmailDomains = {g1}
    MaxSearches = 2
    Replies <- Helpful
    UniqueTypes = {"google"}
    MaxSessions = 2
INVARIANTS
    WizardTypeOK
    WizardInv
    OneAccountPerRun
    CalendarsAreForGmail
    PatientIdentitiesFitTheServers
\* The last run of the wizard ends.
CHECK_DEADLOCK FALSE
