\* One run of the wizard with two lookups.
SPECIFICATION WizardSpec
CONSTANTS
    a1 = a1
    g1 = g1
    Addresses = {a1, g1}
    OtherTexts = {}
    Trimmed <- MCTrimmed
    GmailMailboxes = {g1}
    GmailDomains = {g1}
    MaxSearches = 2
    Replies <- Helpful
    UniqueTypes = {"google"}
    MaxSessions = 1
INVARIANT
    IdentitiesFitTheServers
CHECK_DEADLOCK FALSE
