\* One search, every kind of reply.
SPECIFICATION Spec
CONSTANTS
    a1 = a1
    g1 = g1
    a1blank = a1blank
    Addresses = {a1, g1}
    OtherTexts = {a1blank}
    Trimmed <- MCTrimmed
    GmailMailboxes = {g1}
    GmailDomains = {g1}
    MaxSearches = 1
    Replies <- AnyReplies
INVARIANTS
    EmptyListHasPlaceholder
\* DetailsPage is the end of the wizard.
CHECK_DEADLOCK FALSE
