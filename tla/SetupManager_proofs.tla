------------------------ MODULE SetupManager_proofs ------------------------
(***************************************************************************)
(* SetupManager's safety for every set of addresses and texts, every set   *)
(* of replies and every number of searches: Inv is inductive.  It carries, *)
(* beside the properties the runs check, what the running requests are for *)
(* (SearchedEmail, PatientRequests): a configuration is for the address of *)
(* the request that brought it, so nothing can be said of the list without *)
(* saying it of the requests first.                                        *)
(***************************************************************************)
EXTENDS SetupManager, IspdbService_proofs, FiniteSetTheorems

USE TextAssumption, RepliesAssumption

-----------------------------------------------------------------------------
\* What the operators the steps are built from return.

\* The offered configurations are all for the request they answer.
LEMMA OfferedFact ==
    ASSUME NEW r \in Requests, NEW reply \in Replies
    PROVE  /\ Offered(r, reply) \in Seq(Configuration)
           /\ \A i \in DOMAIN Offered(r, reply) :
                 /\ Offered(r, reply)[i].search = r.search
                 /\ Offered(r, reply)[i].addr = r.addr
                 /\ Offered(r, reply)[i].groupware = Groupware(r.addr)
<1> DEFINE n == reply.imap + reply.pop
<1>1. n \in Nat
  OBVIOUS
<1>2. \A i \in 1..n : Offered(r, reply)[i] \in Configuration
  BY DEF Offered, Groupware, Configuration, Requests
<1>3. Offered(r, reply) \in [1..n -> Configuration]
  BY <1>2 DEF Offered
<1>4. Offered(r, reply) \in Seq(Configuration)
  BY <1>1, <1>3
<1> QED
  BY <1>4 DEF Offered

\* What is checked after a reset of the model has a row in the new list.
LEMMA DelegatesResetFact ==
    ASSUME NEW list \in Seq(Configuration)
    PROVE  /\ DelegatesReset(list) \in Int
           /\ DelegatesReset(list) \in {NoButton, ManualButton} \cup DOMAIN list
  BY DEF DelegatesReset, NoButton, ManualButton

\* Every step of the wizard is a step of the lookups or leaves them alone.
LEMMA LookupStep == [Next]_vars => [IspdbNext]_ispdbVars
<1> SUFFICES ASSUME [Next]_vars PROVE [IspdbNext]_ispdbVars
  OBVIOUS
<1>1. CASE NextFromPersonal
  BY <1>1 DEF NextFromPersonal, SearchConfiguration, IspdbNext
<1>2. CASE \E s \in Searches : Settle(s)
  BY <1>2 DEF Settle, HandleReply, IspdbNext, Answered
<1>3. CASE UNCHANGED ispdbVars
  BY <1>3
<1> QED
  BY <1>1, <1>2, <1>3
  DEF Next, vars, EditEmail, EditPassword, Previous, Check, NextToManual,
      CreateAutomaticAccount, CreateManualAccount

-----------------------------------------------------------------------------
\* The invariant, action by action.

\* The wizard starts with the invariant, whatever the address is.
THEOREM Init_Inv == Init => Inv
<1> SUFFICES ASSUME Init PROVE Inv
  OBVIOUS
<1>1. IspdbInv
  BY IspdbInit_Inv DEF Init
<1>2. TypeOK
  <2>1. configurations \in Seq(Configuration) /\ checked \in Int
    BY DEF Init, NoButton
  <2> QED
    BY <1>1, <2>1, Zenon DEF Init, TypeOK, IspdbInv, Pages
<1> QED
  BY <1>1, <1>2
  DEF Init, Inv, IspdbInv, OneAnswerAtATime, FlagsDescribeTheList,
      ConfigurationsAreKnown, SearchedEmail, LatestAnswerIsForTheEmail,
      PatientRequests, PatientUserGetsOwnConfiguration, CheckedHasARow,
      PasswordFieldIsEmptyForGmail, GmailAccountHasNoPassword,
      GroupwareIsForGmail, IspdbInit

\* An empty list satisfies all that is said of lists.
LEMMA EmptyListFact ==
    ASSUME configurations' = <<>>
    PROVE  /\ configurations' \in Seq(Configuration)
           /\ OneAnswerAtATime' /\ FlagsDescribeTheList'
           /\ ConfigurationsAreKnown' /\ LatestAnswerIsForTheEmail'
           /\ \A i \in DOMAIN configurations' : FALSE
  BY DEF OneAnswerAtATime, FlagsDescribeTheList, ConfigurationsAreKnown,
         LatestAnswerIsForTheEmail

\* Editing the address empties the list, and the password for Gmail.
THEOREM EditEmail_Inv ==
    ASSUME Inv, IspdbInv', NEW text \in Texts, EditEmail(text)
    PROVE  Inv'
<1>1. /\ configurations' = <<>> /\ email' = text /\ page = "personal"
      /\ page' = page /\ inflight' = inflight /\ started' = started
      /\ created' = created /\ checked' = checked
      /\ overlapped' = (overlapped \/ inflight # {})
      /\ password' = (password /\ ~IsGmail(text))
      /\ hasGroupwareSupport' = hasGroupwareSupport
      /\ foundMessage' = FALSE /\ noConfigFound' = FALSE
  BY DEF EditEmail, SetEmail, ClearConfiguration, ispdbVars, NoteOverlap
<1>2. TypeOK'
  BY <1>1, EmptyListFact DEF Inv, TypeOK, IspdbInv
<1>3. SearchedEmail' /\ CheckedHasARow'
  BY <1>1 DEF SearchedEmail, CheckedHasARow
<1>4. PatientRequests' /\ PatientUserGetsOwnConfiguration'
  BY <1>1, EmptyListFact
  DEF Inv, PatientRequests, PatientUserGetsOwnConfiguration
<1>5. PasswordFieldIsEmptyForGmail'
  BY <1>1 DEF PasswordFieldIsEmptyForGmail, IsGmail
<1>6. GmailAccountHasNoPassword' /\ GroupwareIsForGmail'
  BY <1>1 DEF Inv, GmailAccountHasNoPassword, GroupwareIsForGmail
<1> QED
  BY <1>1, <1>2, <1>3, <1>4, <1>5, <1>6, EmptyListFact DEF Inv, IspdbInv

\* Next starts a search whose request is for the trimmed address.
THEOREM NextFromPersonal_Inv ==
    ASSUME Inv, IspdbInv', NextFromPersonal
    PROVE  Inv'
<1>1. /\ configurations' = <<>> /\ email' = Trimmed[email]
      /\ page' = "selection" /\ checked' = NoButton
      /\ created' = created /\ password' = password
      /\ overlapped' = (overlapped \/ inflight # {})
      /\ hasGroupwareSupport' = hasGroupwareSupport
      /\ foundMessage' = FALSE /\ noConfigFound' = FALSE
      /\ email \in Texts /\ Trimmed[email] \in Addresses
      /\ started' = started + 1 /\ started \in Nat
  BY DEF NextFromPersonal, SearchConfiguration, ClearConfiguration, Start,
         NoteOverlap, Inv, TypeOK, IspdbTypeOK
<1>2. inflight' = inflight \cup {RequestConfig(started', email', DataBase)}
  BY <1>1 DEF NextFromPersonal, SearchConfiguration, Start
<1>3. TypeOK'
  <2>1. checked' \in Int /\ configurations' \in Seq(Configuration)
    BY <1>1, EmptyListFact DEF NoButton
  <2>2. email' \in Texts /\ page' \in Pages
    BY <1>1 DEF Texts, Pages
  <2>3. overlapped' \in BOOLEAN
    BY <1>1
  <2> QED
    BY <1>1, <2>1, <2>2, <2>3 DEF Inv, TypeOK, IspdbInv, Groupware
<1>4. SearchedEmail'
  <2>1. \A r \in inflight : r.search <= started /\ r.search \in Nat
    BY DEF Inv, OnlyStartedSearches, TypeOK, IspdbTypeOK, Requests, Searches
  <2>2. \A r \in inflight : r.search # started'
    BY <1>1, <2>1
  <2> QED
    BY <1>1, <1>2, <2>2 DEF SearchedEmail, RequestConfig
<1>5. CheckedHasARow'
  BY <1>1 DEF CheckedHasARow
<1>6. PatientRequests'
  <2>1. RequestConfig(started', email', DataBase).addr = email'
    BY DEF RequestConfig
  <2>2. ~overlapped' => inflight = {}
    BY <1>1
  <2> QED
    BY <1>2, <2>1, <2>2 DEF PatientRequests
<1>7. PatientUserGetsOwnConfiguration'
  BY <1>1, EmptyListFact DEF Inv, PatientUserGetsOwnConfiguration
<1>8. PasswordFieldIsEmptyForGmail'
  BY <1>1 DEF Inv, PasswordFieldIsEmptyForGmail, IsGmail
<1>9. GmailAccountHasNoPassword' /\ GroupwareIsForGmail'
  BY <1>1 DEF Inv, GmailAccountHasNoPassword, GroupwareIsForGmail
<1> QED
  BY <1>1, <1>3, <1>4, <1>5, <1>6, <1>7, <1>8, <1>9, EmptyListFact
  DEF Inv, IspdbInv

\* The steps of the user that touch neither the lookups nor the model.
THEOREM Navigation_Inv ==
    ASSUME Inv, IspdbInv',
           \/ \E filled \in BOOLEAN : EditPassword(filled)
           \/ Previous
           \/ \E button \in {ManualButton} \cup DOMAIN configurations : Check(button)
           \/ NextToManual
           \/ CreateManualAccount
    PROVE  Inv'
<1>1. /\ configurations' = configurations /\ email' = email
      /\ inflight' = inflight /\ started' = started /\ created' = created
      /\ overlapped' = overlapped /\ foundMessage' = foundMessage
      /\ hasGroupwareSupport' = hasGroupwareSupport
      /\ noConfigFound' = noConfigFound
  BY DEF EditPassword, Previous, Check, NextToManual, CreateManualAccount,
         ispdbVars, modelVars
<1>2. page' \in Pages /\ (page' # "personal" => page # "personal")
  BY DEF EditPassword, Previous, Check, NextToManual, CreateManualAccount,
         PagesWithPrevious, Pages, Inv, TypeOK
<1>3. /\ checked' \in Int
      /\ page' # "personal" =>
            checked' \in {NoButton, ManualButton} \cup DOMAIN configurations
  BY DEF EditPassword, Previous, Check, NextToManual, CreateManualAccount,
         Inv, TypeOK, CheckedHasARow, ManualButton, NoButton
<1>4. password' \in BOOLEAN /\ (IsGmail(email) => ~password')
  BY DEF EditPassword, Previous, Check, NextToManual, CreateManualAccount,
         Inv, TypeOK, PasswordFieldIsEmptyForGmail
<1>5. TypeOK'
  BY <1>1, <1>2, <1>3, <1>4 DEF Inv, TypeOK, IspdbInv
<1>6. OneAnswerAtATime' /\ FlagsDescribeTheList' /\ ConfigurationsAreKnown'
  BY <1>1
  DEF Inv, OneAnswerAtATime, FlagsDescribeTheList, ConfigurationsAreKnown
<1>7. SearchedEmail' /\ LatestAnswerIsForTheEmail' /\ CheckedHasARow'
  BY <1>1, <1>2, <1>3
  DEF Inv, SearchedEmail, LatestAnswerIsForTheEmail, CheckedHasARow
<1>8. PatientRequests' /\ PatientUserGetsOwnConfiguration'
  BY <1>1 DEF Inv, PatientRequests, PatientUserGetsOwnConfiguration
<1>9. /\ PasswordFieldIsEmptyForGmail'
      /\ GmailAccountHasNoPassword' /\ GroupwareIsForGmail'
  BY <1>1, <1>4
  DEF Inv, PasswordFieldIsEmptyForGmail, IsGmail, GmailAccountHasNoPassword,
      GroupwareIsForGmail
<1> QED
  BY <1>5, <1>6, <1>7, <1>8, <1>9 DEF Inv, IspdbInv

\* The account is made of a row of the list and of the current address.
THEOREM CreateAutomaticAccount_Inv ==
    ASSUME Inv, IspdbInv', NEW enabled \in BOOLEAN, CreateAutomaticAccount(enabled)
    PROVE  Inv'
<1> DEFINE c == configurations[checked]
           account == [configuration |-> c, email |-> email,
                       password |-> password, groupware |-> enabled /\ c.groupware]
<1>1. /\ configurations' = configurations /\ email' = email
      /\ inflight' = inflight /\ started' = started
      /\ overlapped' = overlapped /\ foundMessage' = foundMessage
      /\ hasGroupwareSupport' = hasGroupwareSupport
      /\ noConfigFound' = noConfigFound /\ password' = password
      /\ checked' = checked /\ page = "selection" /\ page' = "details"
      /\ created' = {account}
  BY DEF CreateAutomaticAccount, ispdbVars, modelVars
<1>2. checked \in DOMAIN configurations
  BY DEF CreateAutomaticAccount, Inv, CheckedHasARow
<1>3. c \in Configuration
  BY <1>2 DEF Inv, TypeOK
<1>4. email \in Addresses /\ Trimmed[email] = email
  BY <1>1 DEF Inv, SearchedEmail
<1>5. account \in Account
  BY <1>3, <1>4 DEF Account, Inv, TypeOK, Configuration
<1>6. TypeOK'
  BY <1>1, <1>5 DEF Inv, TypeOK, IspdbInv, Pages
<1>7. OneAnswerAtATime' /\ FlagsDescribeTheList' /\ ConfigurationsAreKnown'
  BY <1>1
  DEF Inv, OneAnswerAtATime, FlagsDescribeTheList, ConfigurationsAreKnown
<1>8. SearchedEmail' /\ LatestAnswerIsForTheEmail' /\ CheckedHasARow'
  BY <1>1 DEF Inv, SearchedEmail, LatestAnswerIsForTheEmail, CheckedHasARow
<1>9. PatientRequests' /\ PatientUserGetsOwnConfiguration'
  BY <1>1, <1>2 DEF Inv, PatientRequests, PatientUserGetsOwnConfiguration
<1>10. PasswordFieldIsEmptyForGmail' /\ GmailAccountHasNoPassword'
  BY <1>1, <1>4
  DEF Inv, PasswordFieldIsEmptyForGmail, IsGmail, GmailAccountHasNoPassword
<1>11. GroupwareIsForGmail'
  BY <1>1, <1>2, <1>3
  DEF Inv, ConfigurationsAreKnown, GroupwareIsForGmail, Configuration
<1> QED
  BY <1>6, <1>7, <1>8, <1>9, <1>10, <1>11 DEF Inv, IspdbInv

\* A reply replaces the list, raises the placeholder or changes nothing, and the
\* request it may send is for the address of the one it answers.
THEOREM HandleReply_Inv ==
    ASSUME Inv, IspdbInv', NEW r \in inflight, NEW reply \in Replies,
           HandleReply(r, reply)
    PROVE  Inv'
<1>1. /\ email' = email /\ password' = password /\ page' = page
      /\ created' = created /\ overlapped' = overlapped /\ started' = started
      /\ inflight' = (inflight \ {r}) \cup Retried(r, reply)
  BY DEF HandleReply, ReplyFinished
<1>2. r \in Requests /\ r.search <= started
  BY DEF Inv, TypeOK, IspdbTypeOK, OnlyStartedSearches
<1>3. \A q \in Retried(r, reply) : q.search = r.search /\ q.addr = r.addr
  BY DEF Retried, RequestConfig
<1>4. SearchedEmail' /\ PatientRequests'
  BY <1>1, <1>3 DEF Inv, SearchedEmail, PatientRequests
<1>5. /\ PasswordFieldIsEmptyForGmail'
      /\ GmailAccountHasNoPassword' /\ GroupwareIsForGmail'
  BY <1>1
  DEF Inv, PasswordFieldIsEmptyForGmail, IsGmail, GmailAccountHasNoPassword,
      GroupwareIsForGmail
<1>6. CASE SetEmailProvider(r, reply)
  <2> DEFINE list == Offered(r, reply)
  <2>1. /\ configurations' = list /\ foundMessage' = TRUE
        /\ hasGroupwareSupport' = Groupware(r.addr)
        /\ checked' = DelegatesReset(list) /\ noConfigFound' = noConfigFound
    BY <1>6 DEF SetEmailProvider
  <2>2. /\ list \in Seq(Configuration)
        /\ \A i \in DOMAIN list :
              /\ list[i].search = r.search /\ list[i].addr = r.addr
              /\ list[i].groupware = Groupware(r.addr)
    BY <1>2, OfferedFact
  <2>3. /\ DelegatesReset(list) \in Int
        /\ DelegatesReset(list) \in {NoButton, ManualButton} \cup DOMAIN list
    BY <2>2, DelegatesResetFact
  <2> HIDE DEF list
  <2>4. TypeOK'
    BY <1>1, <2>1, <2>2, <2>3 DEF Inv, TypeOK, IspdbInv, Groupware
  <2>5. OneAnswerAtATime' /\ FlagsDescribeTheList' /\ ConfigurationsAreKnown'
    BY <1>1, <1>2, <2>1, <2>2
    DEF OneAnswerAtATime, FlagsDescribeTheList, ConfigurationsAreKnown, Groupware
  <2>6. LatestAnswerIsForTheEmail' /\ CheckedHasARow'
    BY <1>1, <2>1, <2>2, <2>3
    DEF Inv, SearchedEmail, LatestAnswerIsForTheEmail, CheckedHasARow
  <2>7. PatientUserGetsOwnConfiguration'
    BY <1>1, <2>1, <2>2
    DEF Inv, PatientRequests, PatientUserGetsOwnConfiguration
  <2> QED
    BY <1>4, <1>5, <2>4, <2>5, <2>6, <2>7 DEF Inv, IspdbInv
<1>7. CASE RaiseNoConfigFound \/ UNCHANGED <<modelVars, checked>>
  <2>1. /\ configurations' = configurations /\ foundMessage' = foundMessage
        /\ hasGroupwareSupport' = hasGroupwareSupport
        /\ noConfigFound' \in {TRUE, noConfigFound}
        /\ checked' \in {NoButton, ManualButton, checked}
    BY <1>7 DEF RaiseNoConfigFound, modelVars
  <2>2. TypeOK'
    <3>1. noConfigFound' \in BOOLEAN
      BY <2>1 DEF Inv, TypeOK
    <3>2. checked' \in Int
      BY <2>1 DEF Inv, TypeOK, NoButton, ManualButton
    <3> QED
      BY <1>1, <2>1, <3>1, <3>2 DEF Inv, TypeOK, IspdbInv
  <2>3. OneAnswerAtATime' /\ FlagsDescribeTheList' /\ ConfigurationsAreKnown'
    BY <1>1, <2>1
    DEF Inv, OneAnswerAtATime, FlagsDescribeTheList, ConfigurationsAreKnown
  <2>4. LatestAnswerIsForTheEmail' /\ CheckedHasARow'
    BY <1>1, <2>1 DEF Inv, LatestAnswerIsForTheEmail, CheckedHasARow
  <2>5. PatientUserGetsOwnConfiguration'
    BY <1>1, <2>1 DEF Inv, PatientUserGetsOwnConfiguration
  <2> QED
    BY <1>4, <1>5, <2>2, <2>3, <2>4, <2>5 DEF Inv, IspdbInv
<1> QED
  BY <1>6, <1>7 DEF HandleReply

\* Every step of the wizard keeps the invariant.
THEOREM Next_Inv == Inv /\ [Next]_vars => Inv'
<1> SUFFICES ASSUME Inv, [Next]_vars PROVE Inv'
  OBVIOUS
<1>1. IspdbInv'
  BY LookupStep, IspdbNext_Inv DEF Inv, TypeOK, IspdbInv
<1>2. CASE \E text \in Texts : EditEmail(text)
  BY <1>1, <1>2, EditEmail_Inv
<1>3. CASE NextFromPersonal
  BY <1>1, <1>3, NextFromPersonal_Inv
<1>4. CASE \/ \E filled \in BOOLEAN : EditPassword(filled)
           \/ Previous
           \/ \E button \in {ManualButton} \cup DOMAIN configurations : Check(button)
           \/ NextToManual
           \/ CreateManualAccount
  BY <1>1, <1>4, Navigation_Inv
<1>5. CASE \E enabled \in BOOLEAN : CreateAutomaticAccount(enabled)
  BY <1>1, <1>5, CreateAutomaticAccount_Inv
<1>6. CASE \E s \in Searches : Settle(s)
  BY <1>1, <1>6, HandleReply_Inv DEF Settle
<1>7. CASE UNCHANGED vars
  <2> USE <1>7 DEF vars, ispdbVars, modelVars, uiVars, Inv
  <2>1. TypeOK'
    BY DEF TypeOK, IspdbTypeOK
  <2>2. /\ OneAnswerAtATime' /\ FlagsDescribeTheList'
        /\ ConfigurationsAreKnown' /\ SearchedEmail'
    BY DEF OneAnswerAtATime, FlagsDescribeTheList, ConfigurationsAreKnown,
           SearchedEmail
  <2>3. /\ LatestAnswerIsForTheEmail' /\ PatientRequests'
        /\ PatientUserGetsOwnConfiguration' /\ CheckedHasARow'
    BY DEF LatestAnswerIsForTheEmail, PatientRequests,
           PatientUserGetsOwnConfiguration, CheckedHasARow
  <2>4. /\ PasswordFieldIsEmptyForGmail' /\ GmailAccountHasNoPassword'
        /\ GroupwareIsForGmail'
    BY DEF PasswordFieldIsEmptyForGmail, IsGmail, GmailAccountHasNoPassword,
           GroupwareIsForGmail
  <2> QED
    BY <1>1, <2>1, <2>2, <2>3, <2>4 DEF IspdbInv
<1> QED
  BY <1>2, <1>3, <1>4, <1>5, <1>6, <1>7 DEF Next

-----------------------------------------------------------------------------
\* Inv holds in every state of every run of the wizard.
THEOREM Spec_Inv == Spec => []Inv
  BY Init_Inv, Next_Inv, PTL DEF Spec

\* Whatever the pages do, the lookups walk the sites as LookupChain says
\* (ispdbservice.cpp:52-76, setupmanager.cpp:76-85).
THEOREM LookupsFollowTheChain == Spec => Chain!Spec
<1>1. Spec => IspdbSpec
  BY LookupStep, PTL DEF Spec, Init, IspdbSpec
<1> QED
  BY <1>1, ImplementsChain, PTL

\* Every variable keeps its type.
THEOREM TypeCorrect == Spec => []TypeOK
  BY Spec_Inv, PTL DEF Inv

\* However searches overlap, what the latest one found is for the address the
\* user asked for (PersonalDataPage.qml:18-27, setupmanager.cpp:107-131).
THEOREM LatestAnswerIsRight == Spec => []LatestAnswerIsForTheEmail
<1>1. Inv => LatestAnswerIsForTheEmail
  BY DEF Inv
<1> QED
  BY <1>1, Spec_Inv, PTL

\* A user who waits for the lookup is offered, and gets, configurations of the
\* own address only (setupmanager.cpp:76-85, 107-131).
THEOREM PatientUserIsServed == Spec => []PatientUserGetsOwnConfiguration
<1>1. Inv => PatientUserGetsOwnConfiguration
  BY DEF Inv
<1> QED
  BY <1>1, Spec_Inv, PTL

\* createAutomaticAccount is never called with an index the model does not have
\* (configurationmodel.cpp:136, ConfigurationSelectionPage.qml:19-27).
THEOREM IndexIsInRange == Spec => []CheckedHasARow
<1>1. Inv => CheckedHasARow
  BY DEF Inv
<1> QED
  BY <1>1, Spec_Inv, PTL

\* The list is one lookup's (configurationmodel.cpp:91-100).
THEOREM ListIsOneAnswer == Spec => []OneAnswerAtATime
<1>1. Inv => OneAnswerAtATime
  BY DEF Inv
<1> QED
  BY <1>1, Spec_Inv, PTL

\* The flag and the banner shown beside the list are of the list's lookup
\* (configurationmodel.cpp:74-79, 102; setupmanager.cpp:128).
THEOREM ListIsDescribed == Spec => []FlagsDescribeTheList
<1>1. Inv => FlagsDescribeTheList
  BY DEF Inv
<1> QED
  BY <1>1, Spec_Inv, PTL

\* An account with a Gmail mailbox never stores a password, and calendars are
\* set up only where the lookup offered them.
THEOREM GmailIsRight == Spec => [](GmailAccountHasNoPassword /\ GroupwareIsForGmail)
<1>1. Inv => GmailAccountHasNoPassword /\ GroupwareIsForGmail
  BY DEF Inv
<1> QED
  BY <1>1, Spec_Inv, PTL

-----------------------------------------------------------------------------
\* What polite sites add: a search has one verdict, and a patient user one
\* search.

SingleVerdicts ==
    \A s \in Searches :
        /\ outcome[s] \in {{}, {"finished"}, {"notConfigFound"}}
        /\ (\E r \in inflight : r.search = s) => outcome[s] = {}

PatientShown ==
    ~overlapped =>
        /\ \A q, r \in inflight : q = r
        /\ configurations # <<>> \/ noConfigFound => inflight = {}
        /\ ~(configurations # <<>> /\ noConfigFound)

\* A verdict ends the search: a site that has a provider says 200, and only the
\* last one is believed that there is none.
LEMMA PoliteReplyFact ==
    ASSUME PoliteReplies, NEW r \in Requests, NEW reply \in Replies
    PROVE  /\ ~(Finished(r, reply) /\ NotConfigFound(r, reply))
           /\ Finished(r, reply) => Retried(r, reply) = {}
           /\ NotConfigFound(r, reply) => Retried(r, reply) = {}
  BY DEF PoliteReplies, Finished, NotConfigFound, Retried, Last

\* With polite sites a reply either asks on or emits the search's only signal.
LEMMA SingleVerdicts_Inv ==
    ASSUME PoliteReplies, IspdbInv, SingleVerdicts, [IspdbNext]_ispdbVars
    PROVE  SingleVerdicts'
<1>1. CASE \E addr \in Addresses : Start(addr)
  <2>1. PICK addr \in Addresses : Start(addr)
    BY <1>1
  <2> DEFINE new == RequestConfig(started', addr, DataBase)
  <2>2. /\ outcome' = outcome /\ inflight' = inflight \cup {new}
        /\ new.search = started' /\ started' = started + 1 /\ started \in Nat
    BY <2>1 DEF Start, RequestConfig, IspdbInv, IspdbTypeOK
  <2> HIDE DEF new
  <2>3. started' \in Searches => outcome[started'] = {}
    BY <2>2 DEF IspdbInv, OnlyStartedSearches
  <2> QED
    BY <2>2, <2>3 DEF SingleVerdicts
<1>2. ASSUME NEW r \in inflight, NEW reply \in Replies, ReplyFinished(r, reply)
      PROVE  SingleVerdicts'
  <2>1. r \in Requests /\ r.search \in Searches
    BY DEF IspdbInv, IspdbTypeOK, Requests
  <2>2. /\ outcome[r.search] = {}
        /\ \A q \in inflight : q.search = r.search => q = r
    BY <2>1 DEF SingleVerdicts, IspdbInv, OneRequestPerSearch
  <2>3. /\ inflight' = (inflight \ {r}) \cup Retried(r, reply)
        /\ \A s \in Searches \ {r.search} : outcome'[s] = outcome[s]
        /\ outcome'[r.search] =
              outcome[r.search]
                  \cup {e \in {"finished"}       : Finished(r, reply)}
                  \cup {e \in {"notConfigFound"} : NotConfigFound(r, reply)}
    BY <1>2, <2>1 DEF ReplyFinished, IspdbInv, IspdbTypeOK
  <2>4. \A q \in Retried(r, reply) : q.search = r.search
    BY DEF Retried, RequestConfig
  <2>5. /\ outcome'[r.search] \in {{}, {"finished"}, {"notConfigFound"}}
        /\ Retried(r, reply) # {} => outcome'[r.search] = {}
    BY <2>1, <2>2, <2>3, PoliteReplyFact
  <2> QED
    BY <2>2, <2>3, <2>4, <2>5 DEF SingleVerdicts
<1>3. CASE UNCHANGED ispdbVars
  BY <1>3 DEF ispdbVars, SingleVerdicts
<1> QED
  BY <1>1, <1>2, <1>3 DEF IspdbNext, Answered

\* With polite sites and a patient user no second request is on its way when
\* something is shown.
LEMMA PatientShown_Inv ==
    ASSUME PoliteReplies, Inv, PatientShown, [Next]_vars
    PROVE  PatientShown'
<1>1. CASE \E text \in Texts : EditEmail(text)
  BY <1>1
  DEF PatientShown, EditEmail, SetEmail, ClearConfiguration, NoteOverlap, ispdbVars
<1>2. CASE NextFromPersonal
  <2>1. /\ configurations' = <<>> /\ noConfigFound' = FALSE
        /\ overlapped' = (overlapped \/ inflight # {})
        /\ inflight' = inflight \cup {RequestConfig(started', Trimmed[email], DataBase)}
    BY <1>2 DEF NextFromPersonal, SearchConfiguration, ClearConfiguration, Start,
       NoteOverlap
  <2> QED
    BY <2>1 DEF PatientShown
<1>3. ASSUME NEW r \in inflight, NEW reply \in Replies, HandleReply(r, reply)
      PROVE  PatientShown'
  <2>1. /\ overlapped' = overlapped
        /\ inflight' = (inflight \ {r}) \cup Retried(r, reply)
    BY <1>3 DEF HandleReply, ReplyFinished
  <2>2. ~overlapped => inflight = {r} /\ configurations = <<>> /\ ~noConfigFound
    BY DEF PatientShown, Inv, TypeOK
  <2>3. r \in Requests
    BY DEF Inv, TypeOK, IspdbTypeOK
  <2>4. \A p, q \in Retried(r, reply) : p = q
    BY DEF Retried
  <2>5. CASE Finished(r, reply) /\ SetEmailProvider(r, reply)
    BY <2>1, <2>2, <2>3, <2>5, PoliteReplyFact DEF PatientShown, SetEmailProvider
  <2>6. CASE NotConfigFound(r, reply) /\ RaiseNoConfigFound
    BY <2>1, <2>2, <2>3, <2>6, PoliteReplyFact DEF PatientShown, RaiseNoConfigFound
  <2>7. CASE UNCHANGED <<modelVars, checked>>
    BY <2>1, <2>2, <2>4, <2>7 DEF PatientShown, modelVars
  <2> QED
    BY <1>3, <2>5, <2>6, <2>7 DEF HandleReply
<1>4. CASE UNCHANGED <<inflight, configurations, noConfigFound, overlapped>>
  BY <1>4 DEF PatientShown
<1> QED
  BY <1>1, <1>2, <1>3, <1>4
  DEF Next, EditPassword, Previous, Check, NextToManual, CreateAutomaticAccount,
      CreateManualAccount, Settle, vars, ispdbVars, modelVars, uiVars

\* Both hold in every behaviour.
LEMMA PoliteInvariant ==
    ASSUME PoliteReplies PROVE Spec => [](SingleVerdicts /\ PatientShown)
<1>1. Init => SingleVerdicts /\ PatientShown
  BY DEF Init, IspdbInit, SingleVerdicts, PatientShown
<1>2. Inv /\ SingleVerdicts /\ PatientShown /\ [Next]_vars
         => (SingleVerdicts /\ PatientShown)'
  BY LookupStep, SingleVerdicts_Inv, PatientShown_Inv DEF Inv, TypeOK, IspdbInv
<1> QED
  BY <1>1, <1>2, Spec_Inv, PTL DEF Spec

\* If every site is polite a search ends with one signal, however many searches
\* overlap (ispdbservice.cpp:53-61, 71-76).
THEOREM SearchHasOneVerdict == Spec => []OneVerdictPerSearch
<1>1. CASE PoliteReplies
  <2>1. SingleVerdicts => OneVerdictPerSearch
    <3> SUFFICES ASSUME SingleVerdicts, NEW s \in Searches
                 PROVE  /\ Cardinality(outcome[s]) <= 1
                        /\ (\E r \in inflight : r.search = s) => outcome[s] = {}
      BY DEF OneVerdictPerSearch
    <3>1. \/ outcome[s] = {} \/ outcome[s] = {"finished"}
          \/ outcome[s] = {"notConfigFound"}
      BY DEF SingleVerdicts
    <3>2. Cardinality({}) = 0
      BY FS_EmptySet
    <3>3. Cardinality({"finished"}) = 1 /\ Cardinality({"notConfigFound"}) = 1
      BY FS_Singleton
    <3>4. Cardinality(outcome[s]) = 0 \/ Cardinality(outcome[s]) = 1
      BY <3>1, <3>2, <3>3, Zenon
    <3> QED
      BY <3>4 DEF SingleVerdicts
  <2> QED
    BY <1>1, <2>1, PoliteInvariant, PTL
<1>2. CASE ~PoliteReplies
  <2>1. OneVerdictPerSearch
    BY <1>2 DEF OneVerdictPerSearch
  <2> QED
    BY <2>1, PTL
<1> QED
  BY <1>1, <1>2

\* What a patient user of polite sites is shown is final
\* (setupmanager.cpp:107-131, ConfigurationSelectionPage.qml:65-90).
THEOREM ShownIsFinal == Spec => []ShownAnswerIsFinal
<1>1. CASE PoliteReplies
  <2>1. PatientShown => ShownAnswerIsFinal
    BY DEF PatientShown, ShownAnswerIsFinal
  <2> QED
    BY <1>1, <2>1, PoliteInvariant, PTL
<1>2. CASE ~PoliteReplies
  <2>1. ShownAnswerIsFinal
    BY <1>2 DEF ShownAnswerIsFinal
  <2> QED
    BY <2>1, PTL
<1> QED
  BY <1>1, <1>2
-----------------------------------------------------------------------------
\* With informative sites an answer always brings a choice.

\* The reply that ends a search has a signal, and a provider has a row.
LEMMA InformativeReplyFact ==
    ASSUME Informative, NEW r \in Requests, NEW reply \in Replies
    PROVE  /\ Retried(r, reply) = {} => Finished(r, reply) \/ NotConfigFound(r, reply)
           /\ Finished(r, reply) => Offered(r, reply) # <<>>
<1>1. /\ reply.xml \in XmlKinds /\ reply.imap \in Nat /\ reply.pop \in Nat
      /\ reply.xml # "other" /\ (reply.ok <=> reply.xml = "provider")
      /\ reply.xml = "provider" => reply.imap + reply.pop > 0
  BY DEF Informative, PoliteReplies
<1>2. Retried(r, reply) = {} => reply.ok \/ r.stage = Last
  BY DEF Retried
<1>3. ASSUME Finished(r, reply) PROVE Offered(r, reply) # <<>>
  <2>1. 1 \in DOMAIN Offered(r, reply)
    BY <1>1, <1>3 DEF Finished, Offered
  <2> QED
    BY <2>1
<1> QED
  BY <1>1, <1>2, <1>3 DEF Finished, NotConfigFound, XmlKinds, Last

\* What a reply that emits a signal leaves on a page of the selection.
LEMMA SignalBringsChoice ==
    ASSUME Informative, NEW r \in Requests, NEW reply \in Replies,
           HandleReply(r, reply), Finished(r, reply) \/ NotConfigFound(r, reply),
           page # "personal"
    PROVE  /\ configurations' # <<>> \/ noConfigFound'
           /\ checked' # NoButton
<1>1. CASE Finished(r, reply) /\ SetEmailProvider(r, reply)
  BY <1>1, InformativeReplyFact
  DEF SetEmailProvider, DelegatesReset, NoButton
<1>2. CASE NotConfigFound(r, reply) /\ RaiseNoConfigFound
  BY <1>2 DEF RaiseNoConfigFound, NoButton, ManualButton
<1> QED
  BY <1>1, <1>2 DEF HandleReply

\* No step takes the choice away: the latest search is running, or it has left
\* one that later replies only replace by another.
LEMMA NotStuck_Inv ==
    ASSUME Informative, Inv, SelectionIsNotStuck, [Next]_vars
    PROVE  SelectionIsNotStuck'
<1> SUFFICES ASSUME page' # "personal", ~ \E r \in inflight' : r.search = started'
             PROVE  /\ configurations' # <<>> \/ noConfigFound'
                    /\ checked' # NoButton
  BY DEF SelectionIsNotStuck
<1>1. ASSUME UNCHANGED <<ispdbVars, modelVars>>, page # "personal",
             checked' = checked
      PROVE  /\ configurations' # <<>> \/ noConfigFound'
             /\ checked' # NoButton
  BY <1>1 DEF SelectionIsNotStuck, ispdbVars, modelVars
<1>2. CASE \E text \in Texts : EditEmail(text)
  BY <1>2 DEF EditEmail
<1>3. CASE \E filled \in BOOLEAN : EditPassword(filled)
  BY <1>3 DEF EditPassword
<1>4. CASE NextFromPersonal
  <2>1. RequestConfig(started', Trimmed[email], DataBase) \in inflight'
    BY <1>4 DEF NextFromPersonal, SearchConfiguration, Start
  <2> QED
    BY <2>1 DEF RequestConfig
<1>5. CASE Previous
  BY <1>1, <1>5 DEF Previous, PagesWithPrevious
<1>6. ASSUME NEW button \in {ManualButton} \cup DOMAIN configurations, Check(button)
      PROVE  /\ configurations' # <<>> \/ noConfigFound'
             /\ checked' # NoButton
  <2>1. button # NoButton
    BY DEF Inv, TypeOK, NoButton, ManualButton
  <2> QED
    BY <1>6, <2>1 DEF Check, SelectionIsNotStuck, ispdbVars, modelVars
<1>7. CASE \/ NextToManual
           \/ \E enabled \in BOOLEAN : CreateAutomaticAccount(enabled)
           \/ CreateManualAccount
  BY <1>1, <1>7 DEF NextToManual, CreateAutomaticAccount, CreateManualAccount
<1>8. ASSUME NEW r \in inflight, NEW reply \in Replies, HandleReply(r, reply)
      PROVE  /\ configurations' # <<>> \/ noConfigFound'
             /\ checked' # NoButton
  <2>1. /\ page' = page /\ started' = started
        /\ inflight' = (inflight \ {r}) \cup Retried(r, reply)
    BY <1>8 DEF HandleReply, ReplyFinished
  <2>2. r \in Requests
    BY DEF Inv, TypeOK, IspdbTypeOK
  <2>3. CASE Finished(r, reply) \/ NotConfigFound(r, reply)
    BY <1>8, <2>1, <2>2, <2>3, SignalBringsChoice
  <2>4. CASE ~Finished(r, reply) /\ ~NotConfigFound(r, reply)
    <3>1. UNCHANGED <<modelVars, checked>>
      BY <1>8, <2>4 DEF HandleReply
    <3>2. r.search # started
      <4>1. Retried(r, reply) # {}
        BY <2>2, <2>4, InformativeReplyFact
      <4>2. \A q \in Retried(r, reply) : q.search = r.search
        BY DEF Retried, RequestConfig
      <4> QED
        BY <2>1, <4>1, <4>2
    <3>3. ~ \E q \in inflight : q.search = started
      BY <2>1, <3>2
    <3> QED
      BY <2>1, <3>1, <3>3 DEF SelectionIsNotStuck, modelVars
  <2> QED
    BY <2>3, <2>4
<1>9. CASE UNCHANGED vars
  BY <1>1, <1>9 DEF vars, uiVars
<1> QED
  BY <1>2, <1>3, <1>4, <1>5, <1>6, <1>7, <1>8, <1>9 DEF Next, Settle

\* With informative sites a page never stays without a choice once the latest
\* search is over (setupmanager.cpp:76-85, 107-131;
\* ConfigurationSelectionPage.qml:65-90).
THEOREM NobodyIsStuck == Spec => []SelectionIsNotStuck
<1>1. CASE Informative
  <2>1. Init => SelectionIsNotStuck
    BY DEF Init, SelectionIsNotStuck
  <2>2. Inv /\ SelectionIsNotStuck /\ [Next]_vars => SelectionIsNotStuck'
    BY <1>1, NotStuck_Inv
  <2> QED
    BY <2>1, <2>2, Spec_Inv, PTL DEF Spec
<1>2. CASE ~Informative
  <2>1. SelectionIsNotStuck
    BY <1>2 DEF SelectionIsNotStuck
  <2> QED
    BY <2>1, PTL
<1> QED
  BY <1>1, <1>2
=============================================================================
