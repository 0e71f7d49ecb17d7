---------------------------- MODULE SetupManager ----------------------------
(***************************************************************************)
(* SetupManager, its ConfigurationModel and the pages that drive them:     *)
(* PersonalDataPage, ConfigurationSelectionPage and the way through        *)
(* ManualConfigurationPage (src/src/setupmanager.cpp,                      *)
(* src/src/ispdb/configurationmodel.cpp, src/src/qml).  The user edits the *)
(* address, asks for a lookup, looks at the offered configurations, may go *)
(* back and start again at any time; meanwhile IspdbService's replies      *)
(* arrive in any order.                                                    *)
(*                                                                         *)
(* Every step below is one event of the program's single thread: a user's  *)
(* action with all the QML handlers and slots it runs, or the finished     *)
(* handler of one network reply with the slots of the signal it emits.     *)
(***************************************************************************)
EXTENDS IspdbService, Integers, Sequences

CONSTANTS
    OtherTexts,         \* texts of the address field that are no valid address
    Trimmed,            \* [Texts -> Texts]: String.trim()
    GmailMailboxes,     \* trimmed texts that end with "@gmail.com"
    GmailDomains        \* addresses whose domain ends with "gmail.com"

Texts == Addresses \cup OtherTexts

ASSUME TextAssumption ==
    /\ Addresses \cap OtherTexts = {}
    /\ Trimmed \in [Texts -> Texts]
    /\ \A a \in Addresses : Trimmed[a] = a
    /\ \A t \in Texts : Trimmed[Trimmed[t]] = Trimmed[t]
    /\ GmailMailboxes \subseteq Texts
    /\ GmailDomains \subseteq Addresses
    /\ GmailMailboxes \cap Addresses \subseteq GmailDomains

Pages == {"personal", "selection", "manual", "details"}

\* configurationGroup.checkedButton: the delegates are numbered from 1.
NoButton     == -1
ManualButton == 0

\* struct Configuration; "search" and "addr" tell what it was looked up for.
Configuration ==
    [search : Searches, addr : Addresses, type : {"IMAP", "POP3"}, groupware : BOOLEAN]

Account ==
    [configuration : Configuration, email : Addresses, password : BOOLEAN,
     groupware : BOOLEAN]

VARIABLES
    email,                  \* mEmail, m_email and the text of the address field
    password,               \* whether mPassword is not empty
    configurations,         \* ConfigurationModel::m_configurations
    hasGroupwareSupport,    \* ConfigurationModel::m_hasGroupwareSupport
    foundMessage,           \* whether mSearchIspdbFoundMessage is not empty
    noConfigFound,          \* mNoConfigFound
    page,                   \* the page on top of the page stack
    checked,                \* configurationGroup.checkedButton
    created,                \* the automatic account, once it is asked for
    overlapped              \* history: the user changed the address or searched
                            \* again while a request was in flight

modelVars == <<configurations, hasGroupwareSupport, foundMessage, noConfigFound>>
uiVars    == <<email, password, page, checked, created, overlapped>>
vars      == <<ispdbVars, modelVars, uiVars>>

TypeOK ==
    /\ IspdbTypeOK
    /\ email \in Texts
    /\ password \in BOOLEAN
    /\ configurations \in Seq(Configuration)
    /\ hasGroupwareSupport \in BOOLEAN
    /\ foundMessage \in BOOLEAN
    /\ noConfigFound \in BOOLEAN
    /\ page \in Pages
    /\ checked \in Int
    /\ created \in SUBSET Account
    /\ overlapped \in BOOLEAN

\* The address comes from KEMailSettings and may be anything.
Init ==
    /\ IspdbInit
    /\ email \in Texts
    /\ password = FALSE
    /\ configurations = <<>>
    /\ hasGroupwareSupport = FALSE
    /\ foundMessage = FALSE
    /\ noConfigFound = FALSE
    /\ page = "personal"
    /\ checked = NoButton
    /\ created = {}
    /\ overlapped = FALSE
-----------------------------------------------------------------------------
IsGmail(text) == Trimmed[text] \in GmailMailboxes

\* Mutation: only the list is cleared, as ConfigurationModel::clear does.
ClearListOnly ==
    /\ configurations' = <<>>
    /\ UNCHANGED <<hasGroupwareSupport, foundMessage, noConfigFound>>

\* Mutation: the list is left out.
ClearFlagsOnly ==
    /\ foundMessage' = FALSE
    /\ noConfigFound' = FALSE
    /\ UNCHANGED <<configurations, hasGroupwareSupport>>

\* hasGroupwareSupport keeps its value until the next provider is found.
ClearConfiguration ==
    /\ configurations' = <<>>
    /\ foundMessage' = FALSE
    /\ noConfigFound' = FALSE
    /\ UNCHANGED hasGroupwareSupport

\* Mutation: the lookup's result outlives the address.
SetEmailKeepsConfiguration(text) ==
    /\ email' = text
    /\ UNCHANGED modelVars

\* An address that differs from the old one; setEmail ignores any other.
SetEmail(text) ==
    /\ email' = text
    /\ ClearConfiguration

NoteOverlap == overlapped' = (overlapped \/ inflight # {})

\* addressEmailField.onTextChanged: the password is emptied for Gmail.
EditEmail(text) ==
    /\ page = "personal"
    /\ text # email
    /\ SetEmail(text)
    /\ password' = (password /\ ~IsGmail(text))
    /\ NoteOverlap
    /\ UNCHANGED <<ispdbVars, page, checked, created>>

\* Mutation: the password field stays enabled.
EditPasswordAlways(filled) ==
    /\ page = "personal"
    /\ password' = filled
    /\ UNCHANGED <<ispdbVars, modelVars, email, page, checked, created, overlapped>>

\* passwordField.onTextChanged; the field is disabled for Gmail.
EditPassword(filled) ==
    /\ page = "personal"
    /\ ~IsGmail(email)
    /\ password' = filled
    /\ UNCHANGED <<ispdbVars, modelVars, email, page, checked, created, overlapped>>

\* SetupManager::searchConfiguration
SearchConfiguration(addr) ==
    /\ ClearConfiguration
    /\ Start(addr)

\* Mutation: the text stays as it was typed.
NextKeepsText ==
    /\ page = "personal"
    /\ Trimmed[email] \in Addresses
    /\ SearchConfiguration(Trimmed[email])
    /\ page' = "selection"
    /\ checked' = NoButton
    /\ NoteOverlap
    /\ UNCHANGED <<email, password, created>>

\* Next on PersonalDataPage: the address is trimmed, set and looked up, and a
\* new ConfigurationSelectionPage is pushed, on which nothing is checked.
NextFromPersonal ==
    /\ page = "personal"
    /\ Trimmed[email] \in Addresses
    /\ email' = Trimmed[email]
    /\ SearchConfiguration(Trimmed[email])
    /\ page' = "selection"
    /\ checked' = NoButton
    /\ NoteOverlap
    /\ UNCHANGED <<password, created>>

\* Mutation: DetailsPage has the button of the other pages.
PagesButFirst == Pages \ {"personal"}

\* The pages with a "Previous" button.
PagesWithPrevious == {"selection", "manual"}

\* Previous: the page is popped and destroyed, its radio buttons with it.
Previous ==
    /\ page \in PagesWithPrevious
    /\ page' = IF page = "manual" THEN "selection" ELSE "personal"
    /\ checked' = IF page = "manual" THEN checked ELSE NoButton
    /\ UNCHANGED <<ispdbVars, modelVars, email, password, created, overlapped>>

Check(button) ==
    /\ page = "selection"
    /\ button \in {ManualButton} \cup DOMAIN configurations
    /\ checked' = button
    /\ UNCHANGED <<ispdbVars, modelVars, email, password, page, created, overlapped>>

\* Next on ConfigurationSelectionPage with "Manual Configuration" checked.
NextToManual ==
    /\ page = "selection"
    /\ checked = ManualButton
    /\ page' = "manual"
    /\ UNCHANGED <<ispdbVars, modelVars, email, password, checked, created, overlapped>>

\* Next with a configuration checked: DetailsPage is pushed and
\* createAutomaticAccount(index, ConsoleLog, calendarCheck.checked) is called.
\* The switch is shown only if the model has groupware support.
CreateAutomaticAccount(enabled) ==
    /\ page = "selection"
    /\ checked \notin {NoButton, ManualButton}
    /\ enabled => hasGroupwareSupport
    /\ page' = "details"
    /\ LET c == configurations[checked] IN
       created' = {[configuration |-> c, email |-> email, password |-> password,
                    groupware |-> enabled /\ c.groupware]}
    /\ UNCHANGED <<ispdbVars, modelVars, email, password, checked, overlapped>>

\* "Create Account" on ManualConfigurationPage, which AccountConfiguration enables
\* for a complete form only; here it may come at any time.
CreateManualAccount ==
    /\ page = "manual"
    /\ page' = "details"
    /\ UNCHANGED <<ispdbVars, modelVars, email, password, checked, created, overlapped>>
-----------------------------------------------------------------------------
\* Mutation: the domain is not looked at.
GroupwareForAll(addr) == TRUE

\* EmailProvider::groupware is given to the domains of Gmail.
Groupware(addr) == addr \in GmailDomains

\* ConfigurationModel::setEmailProvider: the IMAP servers, then the POP ones.
Offered(r, reply) ==
    [i \in 1..(reply.imap + reply.pop) |->
        [search |-> r.search, addr |-> r.addr,
         type |-> IF i <= reply.imap THEN "IMAP" ELSE "POP3",
         groupware |-> Groupware(r.addr)]]

\* Mutation: the check mark stays where it was.
KeptChecked(list) == IF page = "personal" THEN NoButton ELSE checked

\* The model reset destroys the delegates and makes new ones, the first of
\* which is checked; "Manual Configuration" stays checked if there is none.
DelegatesReset(list) ==
    IF page = "personal" THEN NoButton
    ELSE IF list # <<>> THEN 1
    ELSE IF checked = ManualButton THEN ManualButton
    ELSE NoButton

\* Mutation: the list is not cleared before the servers are added.
AppendEmailProvider(r, reply) ==
    /\ configurations' = configurations \o Offered(r, reply)
    /\ hasGroupwareSupport' = Groupware(r.addr)
    /\ foundMessage' = TRUE
    /\ checked' = DelegatesReset(configurations')
    /\ UNCHANGED noConfigFound

\* Mutation: the groupware flag is only ever raised.
StickyGroupware(r, reply) ==
    /\ configurations' = Offered(r, reply)
    /\ hasGroupwareSupport' = (hasGroupwareSupport \/ Groupware(r.addr))
    /\ foundMessage' = TRUE
    /\ checked' = DelegatesReset(configurations')
    /\ UNCHANGED noConfigFound

\* noConfigFound is left as it was.
SetEmailProvider(r, reply) ==
    /\ configurations' = Offered(r, reply)
    /\ hasGroupwareSupport' = Groupware(r.addr)
    /\ foundMessage' = TRUE
    /\ checked' = DelegatesReset(configurations')
    /\ UNCHANGED noConfigFound

\* Mutation: the placeholder appears, but nothing is checked.
RaiseNoConfigOnly ==
    /\ noConfigFound' = TRUE
    /\ UNCHANGED <<configurations, hasGroupwareSupport, foundMessage, checked>>

\* configureManual.checked is bound to noConfigFound.
RaiseNoConfigFound ==
    /\ noConfigFound' = TRUE
    /\ checked' = IF page = "personal" THEN NoButton ELSE ManualButton
    /\ UNCHANGED <<configurations, hasGroupwareSupport, foundMessage>>

HandleReply(r, reply) ==
    /\ ReplyFinished(r, reply)
    /\ \/ Finished(r, reply) /\ SetEmailProvider(r, reply)
       \/ NotConfigFound(r, reply) /\ RaiseNoConfigFound
       \/ /\ ~Finished(r, reply)
          /\ ~NotConfigFound(r, reply)
          /\ UNCHANGED <<modelVars, checked>>
    /\ UNCHANGED <<email, password, page, created, overlapped>>

Settle(s) ==
    \E r \in inflight, reply \in Replies : r.search = s /\ HandleReply(r, reply)

Next ==
    \/ \E text \in Texts : EditEmail(text)
    \/ \E filled \in BOOLEAN : EditPassword(filled)
    \/ NextFromPersonal
    \/ Previous
    \/ \E button \in {ManualButton} \cup DOMAIN configurations : Check(button)
    \/ NextToManual
    \/ \E enabled \in BOOLEAN : CreateAutomaticAccount(enabled)
    \/ CreateManualAccount
    \/ \E s \in Searches : Settle(s)

Spec == Init /\ [][Next]_vars

\* The network answers every request; nothing is assumed of the user.
FairSpec == Spec /\ \A s \in Searches : WF_vars(Settle(s))
-----------------------------------------------------------------------------
\* The selection page never lists configurations of two lookups, however the
\* replies of overlapping searches interleave: setEmailProvider replaces the
\* whole list (configurationmodel.cpp:91-100).
OneAnswerAtATime ==
    \A i, j \in DOMAIN configurations :
        configurations[i].search = configurations[j].search

\* The calendar card, shown by a flag that outlives clear(), agrees with the
\* configurations it is shown beside, and configurations are never listed
\* without the banner that says where they were found
\* (configurationmodel.cpp:74-79, 102; setupmanager.cpp:128).
FlagsDescribeTheList ==
    \A i \in DOMAIN configurations :
        hasGroupwareSupport = configurations[i].groupware /\ foundMessage

\* What the latest search found is for the address the user asked for, even if
\* the user went back and forth meanwhile; a page that offers it is no page of
\* another address (PersonalDataPage.qml:18-27, setupmanager.cpp:76-85).
LatestAnswerIsForTheEmail ==
    page # "personal" =>
        \A i \in DOMAIN configurations :
            configurations[i].search = started => configurations[i].addr = email

\* A user who does not touch the address while a lookup is running is only
\* offered, and only gets, configurations of the own address.
PatientUserGetsOwnConfiguration ==
    ~overlapped =>
        /\ \A i \in DOMAIN configurations : configurations[i].addr = email
        /\ \A a \in created : a.configuration.addr = a.email

\* The radio button Next takes the index from has a row in the model:
\* createAutomaticAccount does not check it (configurationmodel.cpp:136).
CheckedHasARow ==
    page # "personal" => checked \in {NoButton, ManualButton} \cup DOMAIN configurations

\* The account of an address whose password field is disabled is created
\* without a password, though the password is typed, cleared and read on
\* different pages (PersonalDataPage.qml:68-76, configurationmodel.cpp:154).
GmailAccountHasNoPassword ==
    \A a \in created : a.email \in GmailMailboxes => ~a.password

\* Calendars are set up only for an account whose lookup offered them.
GroupwareIsForGmail ==
    \A a \in created : a.groupware => a.configuration.addr \in GmailDomains

\* With polite sites and a patient user, what the selection page shows is
\* final: nothing is on its way that would replace the list and the choice.
ShownAnswerIsFinal ==
    (PoliteReplies /\ ~overlapped) =>
        /\ configurations # <<>> \/ noConfigFound => inflight = {}
        /\ ~(configurations # <<>> /\ noConfigFound)

\* Sites are polite and every provider they describe has an incoming server.
Informative ==
    PoliteReplies /\ \A reply \in Replies :
                        reply.xml = "provider" => reply.imap + reply.pop > 0

\* With informative sites Next on the selection page gets enabled, whatever
\* the other searches do: something is checked by an answer or by its absence.
SelectionGetsEnabled ==
    Informative => (page = "selection" ~> page # "selection" \/ checked # NoButton)

\* With informative sites a page is never left without a choice: once the latest
\* search is over, something is listed or said to be missing, and something is
\* checked, whichever page the reply found and whatever earlier searches still do
\* (setupmanager.cpp:76-85, ConfigurationSelectionPage.qml:65-90).
SelectionIsNotStuck ==
    (Informative /\ page # "personal" /\ ~ \E r \in inflight : r.search = started) =>
        /\ configurations # <<>> \/ noConfigFound
        /\ checked # NoButton
-----------------------------------------------------------------------------
\* What the inductive invariant needs beside the properties above.

\* A configuration comes from a search that was started, and only Gmail's
\* lookups offer groupware.
ConfigurationsAreKnown ==
    \A i \in DOMAIN configurations :
        /\ configurations[i].search <= started
        /\ configurations[i].groupware => configurations[i].addr \in GmailDomains

\* After the first page the address is a trimmed, valid one, and the running
\* request of the latest search is for it.
SearchedEmail ==
    page # "personal" =>
        /\ email \in Addresses
        /\ \A r \in inflight : r.search = started => r.addr = email

\* No request of a patient user is for another address.
PatientRequests ==
    ~overlapped => \A r \in inflight : r.addr = email

PasswordFieldIsEmptyForGmail == IsGmail(email) => ~password

Inv ==
    /\ TypeOK
    /\ OneRequestPerSearch
    /\ OnlyStartedSearches
    /\ OneAnswerAtATime
    /\ FlagsDescribeTheList
    /\ ConfigurationsAreKnown
    /\ SearchedEmail
    /\ LatestAnswerIsForTheEmail
    /\ PatientRequests
    /\ PatientUserGetsOwnConfiguration
    /\ CheckedHasARow
    /\ PasswordFieldIsEmptyForGmail
    /\ GmailAccountHasNoPassword
    /\ GroupwareIsForGmail
-----------------------------------------------------------------------------
\* "No configuration found from the internet for this server."
\* (ConfigurationSelectionPage.qml:59) is shown only if none is listed.
PlaceholderMeansEmptyList == ~(noConfigFound /\ configurations # <<>>)

\* The same notice is shown when a lookup is over and nothing was found.
EmptyListHasPlaceholder ==
    (page = "selection" /\ inflight = {} /\ configurations = <<>>) => noConfigFound
=============================================================================
