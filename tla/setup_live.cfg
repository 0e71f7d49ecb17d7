\* Three searches, polite sites, providers with a server.
SPECIFICATION FairSpec
CONSTANTS
    a1 = a1
    g1 = g1
    a1blank = a1blank
    Addresses = {a1, g1}
    OtherTexts = {a1blank}
    Trimmed <- MCTrimmed
    GmailMailboxes = {g1}
    GmailDomains = {g1}
    MaxSearches = 3
    Replies <- Helpful
INVARIANTS
    OneVerdictPerSearch
    ShownAnswerIsFinal
    SelectionIsNotStuck
PROPERTIES
    EverySearchIsSettled
    SelectionGetsEnabled
\* DetailsPage is the end of the wizard.
CHECK_DEADLOCK FALSE
