\* Two searches, every kind of reply.
SPECIFICATION FairSpec
CONSTANTS
    a1 = a1
    g1 = g1
    a1blank = a1blank
    Addresses = {a1, g1}
    OtherTexts = {a1blank}
    Trimmed <- MCTrimmed
    GmailMailboxes = {g1}
    GmailDomains = {g1}
    MaxSearches = 2
    Replies <- AnyReplies
INVARIANTS
    Inv
    OneAnswerAtATime
    FlagsDescribeTheList
    LatestAnswerIsForTheEmail
    PatientUserGetsOwnConfiguration
    CheckedHasARow
    GmailAccountHasNoPassword
PROPERTY
    ImplementsLookupChain
\* DetailsPage is the end of the wizard.
CHECK_DEADLOCK FALSE
