--------------------------- MODULE Wizard_proofs ---------------------------
(***************************************************************************)
(* The safety of the wizard as a whole, for every number of runs, searches *)
(* and addresses: what the lookup knew of an address is what Akonadi and   *)
(* the identities are told, though save() works on a copy, in parts, while *)
(* late replies go on changing the model the copy was made of.             *)
(***************************************************************************)
EXTENDS Wizard, SetupManager_proofs

CreationProofs == INSTANCE AccountCreation_refinement

-----------------------------------------------------------------------------
\* The wizard starts with the invariant.
THEOREM WizardInit_Inv == WizardInit => WizardInv
<1> SUFFICES ASSUME WizardInit PROVE WizardInv
  OBVIOUS
<1>1. Inv
  BY Init_Inv DEF WizardInit
<1>2. page = "personal" /\ saving = "no" /\ requests = {} /\ identities = {}
  BY DEF WizardInit, Init, Creation!Init
<1> QED
  BY <1>1, <1>2
  DEF WizardInv, OneAccountPerRun, CalendarsAreForGmail,
      PatientIdentitiesFitTheServers, RunIsKnown, NothingIsLeft,
      RequestsAreTyped, WizardInit, Creation!Init

\* While nothing is saved the user and the replies leave save()'s state alone.
THEOREM Browse_Inv == WizardInv /\ Browse => WizardInv'
<1> SUFFICES ASSUME WizardInv, Browse PROVE WizardInv'
  OBVIOUS
<1>1. Inv'
  BY Next_Inv DEF WizardInv, Browse
<1>2. /\ saving \in {"no", "done"}
      /\ UNCHANGED <<requests, identities, session, saving, form, runs>>
  BY DEF Browse, creationVars
<1>3. page = "details" => page' = "details"
  BY DEF Browse, Next, EditEmail, EditPassword, NextFromPersonal, Previous,
         PagesWithPrevious, Check, NextToManual, CreateAutomaticAccount,
         CreateManualAccount, Settle, HandleReply
<1>4. page' = "details" <=> page = "details"
  BY <1>3 DEF Browse
<1> QED
  BY <1>1, <1>2, <1>4
  DEF WizardInv, OneAccountPerRun, CalendarsAreForGmail,
      PatientIdentitiesFitTheServers, RunIsKnown, NothingIsLeft, RequestsAreTyped

\* The first part of save(): no agent of Google's is asked for and no identity
\* saved, and the run is entered in the history.
LEMMA SaveForFact ==
    ASSUME WizardInv, NEW f \in Creation!Forms, NEW servers, SaveFor(f, servers),
           page' = "details",
           ~overlapped => servers = email,
           f.groupware => servers \in GmailDomains
    PROVE  /\ OneAccountPerRun' /\ CalendarsAreForGmail'
           /\ PatientIdentitiesFitTheServers' /\ RunIsKnown' /\ NothingIsLeft'
           /\ RequestsAreTyped'
<1> DEFINE run == [session |-> session, for |-> email, servers |-> servers,
                   patient |-> ~overlapped]
<1>1. /\ saving' = "transport" /\ form' = f /\ identities' = identities
      /\ session' = session /\ runs' = runs \cup {run}
  BY DEF SaveFor, Creation!SaveResource
<1>2. /\ run.session = session
      /\ run.patient => run.for = run.servers
      /\ f.groupware => run.servers \in GmailDomains
  OBVIOUS
<1>3. \A q \in requests' : q \in requests \/ q.type # "google"
  <2>1. f.protocol # "google"
    BY DEF Creation!Forms
  <2> QED
    BY <2>1 DEF SaveFor, Creation!SaveResource, Creation!CreateResource, Creation!TypeOf
<1>4. RequestsAreTyped'
  <2>1. Creation!TypeOf("incoming", f) \in Creation!Types
    BY DEF Creation!Forms, Creation!Types, Creation!TypeOf
  <2>2. "incoming" \in Creation!Slots
    BY DEF Creation!Slots
  <2> HIDE DEF run
  <2> QED
    BY <1>1, <2>1, <2>2
    DEF WizardInv, RequestsAreTyped, SaveFor, Creation!SaveResource,
        Creation!CreateResource
<1> HIDE DEF run
<1> QED
  BY <1>1, <1>2, <1>3, <1>4
  DEF WizardInv, OneAccountPerRun, CalendarsAreForGmail,
      PatientIdentitiesFitTheServers, RunIsKnown, NothingIsLeft

\* An automatic account enters the history with the address of its configuration.
THEOREM SaveAutomaticAccount_Inv == WizardInv /\ SaveAutomaticAccount => WizardInv'
<1> SUFFICES ASSUME WizardInv, SaveAutomaticAccount PROVE WizardInv'
  OBVIOUS
<1>1. PICK enabled \in BOOLEAN : CreateAutomaticAccount(enabled)
  BY DEF SaveAutomaticAccount
<1>2. PICK a \in created' : \E f \in FormOf(a) : SaveFor(f, a.configuration.addr)
  BY DEF SaveAutomaticAccount
<1>3. PICK f \in FormOf(a) : SaveFor(f, a.configuration.addr)
  BY <1>2
<1>4. Inv'
  BY <1>1, Next_Inv DEF WizardInv, Next
<1>5. /\ page' = "details" /\ overlapped' = overlapped /\ a.email = email
  BY <1>1 DEF CreateAutomaticAccount
<1>6. ~overlapped => a.configuration.addr = email
  BY <1>4, <1>5 DEF Inv, PatientUserGetsOwnConfiguration
<1>7. f \in Creation!Forms /\ (f.groupware => a.configuration.addr \in GmailDomains)
  BY <1>4 DEF Inv, GroupwareIsForGmail, FormOf
<1> QED
  BY <1>3, <1>4, <1>5, <1>6, <1>7, SaveForFact DEF WizardInv

\* A manual account asks for no calendars.
THEOREM SaveManualAccount_Inv == WizardInv /\ SaveManualAccount => WizardInv'
<1> SUFFICES ASSUME WizardInv, SaveManualAccount PROVE WizardInv'
  OBVIOUS
<1>1. PICK f \in ManualForms : SaveFor(f, email)
  BY DEF SaveManualAccount
<1>2. Inv'
  BY Next_Inv DEF WizardInv, SaveManualAccount, Next
<1>3. page' = "details"
  BY DEF SaveManualAccount, CreateManualAccount
<1>4. f \in Creation!Forms /\ ~f.groupware
  BY DEF ManualForms, Creation!Forms
<1> QED
  BY <1>1, <1>2, <1>3, <1>4, SaveForFact DEF WizardInv

\* Akonadi's answer changes the state of a request only.
LEMMA AnswerFact ==
    ASSUME RequestsAreTyped, NEW request \in requests, Creation!AkonadiAnswers(request)
    PROVE  /\ requests' \subseteq
                [session : Nat, slot : Creation!Slots, type : Creation!Types,
                 state : {"sent", "created", "refused"}]
           /\ \A q \in requests' : \E p \in requests :
                 q.type = p.type /\ q.session = p.session
<1> DEFINE Answer(state) == [request EXCEPT !.state = state]
<1>1. PICK state \in {"created", "refused"} :
         requests' = (requests \ {request}) \cup {Answer(state)}
  BY DEF Creation!AkonadiAnswers
<1>2. /\ Answer(state) \in [session : Nat, slot : Creation!Slots,
                            type : Creation!Types, state : {"sent", "created", "refused"}]
      /\ Answer(state).type = request.type /\ Answer(state).session = request.session
  BY DEF RequestsAreTyped
<1> HIDE DEF Answer
<1> QED
  BY <1>1, <1>2 DEF RequestsAreTyped

\* The rest of save(), the event loop and Akonadi: a Google agent is asked for if
\* the form says so, and the identity is saved for the same run.
THEOREM Create_Inv == WizardInv /\ Create => WizardInv'
<1> SUFFICES ASSUME WizardInv, Create PROVE WizardInv'
  OBVIOUS
<1>1. UNCHANGED <<vars, runs>>
  BY DEF Create
<1>2. Inv'
  BY <1>1, Next_Inv DEF WizardInv
<1>3. UNCHANGED <<page, configurations, created, inflight, password>>
  BY <1>1 DEF vars, ispdbVars, modelVars, uiVars
<1>4. /\ session' = session /\ form' = form
      /\ \/ saving' \notin {"no", "off"} /\ saving \notin {"no", "off"}
         \/ saving' = saving
      /\ saving' \in {"transport", "groupware", "identity"} =>
            saving \in {"transport", "groupware", "identity"}
  BY DEF Create, Creation!SaveGoesOn, Creation!SaveTransport, Creation!SaveGroupware,
         Creation!SaveIdentity, Creation!DeferredDelete, Creation!AkonadiAnswers,
         Creation!InstanceCreateResult, Creation!persistent, Creation!volatile
<1>5. CalendarsAreForGmail'
  <2>1. CASE Creation!SaveGroupware
    <3>1. \A q \in requests' :
             q \in requests \/ (q.session = session /\ form.groupware)
      BY <2>1 DEF Creation!SaveGroupware, Creation!CreateResource
    <3>2. saving = "groupware"
      BY <2>1 DEF Creation!SaveGroupware
    <3> QED
      BY <1>1, <3>1, <3>2 DEF WizardInv, CalendarsAreForGmail, RunIsKnown
  <2>2. ASSUME NEW request \in requests, Creation!AkonadiAnswers(request)
        PROVE  CalendarsAreForGmail'
    <3>1. \A q \in requests' : \E p \in requests : q.type = p.type /\ q.session = p.session
      BY <2>2, AnswerFact DEF WizardInv
    <3> QED
      BY <1>1, <3>1 DEF WizardInv, CalendarsAreForGmail
  <2>3. CASE UNCHANGED requests
    BY <1>1, <2>3 DEF WizardInv, CalendarsAreForGmail
  <2> QED
    BY <2>1, <2>2, <2>3
    DEF Create, Creation!SaveGoesOn, Creation!SaveTransport, Creation!SaveIdentity,
        Creation!DeferredDelete, Creation!InstanceCreateResult, Creation!persistent
<1>6. PatientIdentitiesFitTheServers'
  <2>1. CASE Creation!SaveIdentity
    <3>1. /\ saving = "identity"
          /\ \A i \in identities' : i \in identities \/ i.session = session
      BY <2>1 DEF Creation!SaveIdentity, Creation!NewIdentity
    <3> QED
      BY <1>1, <3>1 DEF WizardInv, PatientIdentitiesFitTheServers, RunIsKnown
  <2>2. CASE UNCHANGED identities
    BY <1>1, <2>2 DEF WizardInv, PatientIdentitiesFitTheServers
  <2> QED
    BY <2>1, <2>2
    DEF Create, Creation!SaveGoesOn, Creation!SaveTransport, Creation!SaveGroupware,
        Creation!DeferredDelete, Creation!AkonadiAnswers,
        Creation!InstanceCreateResult, Creation!persistent
<1>7. OneAccountPerRun' /\ RunIsKnown' /\ NothingIsLeft'
  BY <1>1, <1>3, <1>4 DEF WizardInv, OneAccountPerRun, RunIsKnown, NothingIsLeft
<1>8. RequestsAreTyped'
  <2>1. CASE Creation!SaveGroupware
    <3>1. "google" \in Creation!Slots /\ Creation!TypeOf("google", form) \in Creation!Types
      BY DEF Creation!Slots, Creation!Types, Creation!TypeOf
    <3> QED
      BY <1>4, <2>1, <3>1
      DEF WizardInv, RequestsAreTyped, Creation!SaveGroupware, Creation!CreateResource
  <2>2. ASSUME NEW request \in requests, Creation!AkonadiAnswers(request)
        PROVE  RequestsAreTyped'
    BY <1>4, <2>2, AnswerFact DEF WizardInv, RequestsAreTyped
  <2>3. CASE UNCHANGED requests
    BY <1>4, <2>3 DEF WizardInv, RequestsAreTyped
  <2> QED
    BY <2>1, <2>2, <2>3
    DEF Create, Creation!SaveGoesOn, Creation!SaveTransport, Creation!SaveIdentity,
        Creation!DeferredDelete, Creation!InstanceCreateResult, Creation!persistent
<1> QED
  BY <1>2, <1>5, <1>6, <1>7, <1>8 DEF WizardInv

\* The process ends: nothing of it is left but what save() wrote.
THEOREM Stop_Inv == WizardInv /\ Stop => WizardInv'
<1> SUFFICES ASSUME WizardInv, Stop PROVE WizardInv'
  OBVIOUS
<1>1. /\ inflight' = {} /\ outcome' = [s \in Searches |-> {}]
      /\ configurations' = <<>> /\ hasGroupwareSupport' = FALSE
      /\ foundMessage' = FALSE /\ noConfigFound' = FALSE /\ password' = FALSE
      /\ page' = "personal" /\ checked' = NoButton /\ created' = {}
      /\ overlapped' = FALSE
      /\ UNCHANGED <<started, email, runs>>
  BY DEF Stop
<1>2. saving' = "off" /\ UNCHANGED <<requests, identities, session>>
  BY DEF Stop, Creation!Stop, Creation!persistent
<1>3. TypeOK' /\ OneRequestPerSearch' /\ OnlyStartedSearches'
  <2>1. outcome' \in [Searches -> SUBSET Signals] /\ checked' \in Int
    BY <1>1 DEF NoButton
  <2>2. IspdbTypeOK'
    BY <1>1, <2>1 DEF WizardInv, Inv, TypeOK, IspdbTypeOK
  <2>3. configurations' \in Seq(Configuration) /\ page' \in Pages
    BY <1>1, EmptyListFact DEF Pages
  <2> QED
    BY <1>1, <2>1, <2>2, <2>3
    DEF WizardInv, Inv, TypeOK, OneRequestPerSearch, OnlyStartedSearches
<1>4. Inv'
  BY <1>1, <1>3, EmptyListFact
  DEF Inv, SearchedEmail, PatientRequests, PatientUserGetsOwnConfiguration,
      CheckedHasARow, PasswordFieldIsEmptyForGmail, GmailAccountHasNoPassword,
      GroupwareIsForGmail
<1> QED
  BY <1>1, <1>2, <1>4
  DEF WizardInv, OneAccountPerRun, CalendarsAreForGmail,
      PatientIdentitiesFitTheServers, RunIsKnown, NothingIsLeft, RequestsAreTyped

\* The next process begins where the first one began.
THEOREM Restart_Inv == WizardInv /\ Restart => WizardInv'
<1> SUFFICES ASSUME WizardInv, Restart PROVE WizardInv'
  OBVIOUS
<1>1. /\ email' \in Texts
      /\ UNCHANGED <<ispdbVars, modelVars, password, page, checked, created,
                     overlapped, runs>>
  BY DEF Restart
<1>2. /\ saving = "off" /\ saving' = "no" /\ session' = session + 1
      /\ UNCHANGED <<requests, identities>>
  BY DEF Restart, Creation!Restart, Creation!persistent
<1>3. /\ page = "personal" /\ configurations = <<>> /\ created = {}
      /\ inflight = {} /\ ~password
  BY <1>2 DEF WizardInv, NothingIsLeft
<1>4. TypeOK' /\ OneRequestPerSearch' /\ OnlyStartedSearches'
  BY <1>1 DEF WizardInv, Inv, TypeOK, IspdbTypeOK, OneRequestPerSearch,
     OnlyStartedSearches, ispdbVars, modelVars
<1>5. configurations' = <<>>
  BY <1>1, <1>3 DEF modelVars
<1>6. Inv'
  BY <1>1, <1>3, <1>4, <1>5, EmptyListFact
  DEF Inv, SearchedEmail, PatientRequests, PatientUserGetsOwnConfiguration,
      CheckedHasARow, PasswordFieldIsEmptyForGmail, GmailAccountHasNoPassword,
      GroupwareIsForGmail, ispdbVars
<1> QED
  BY <1>1, <1>2, <1>3, <1>6
  DEF WizardInv, OneAccountPerRun, CalendarsAreForGmail,
      PatientIdentitiesFitTheServers, RunIsKnown, NothingIsLeft, RequestsAreTyped

\* WizardInv is inductive.
THEOREM WizardNext_Inv == WizardInv /\ [WizardNext]_wizardVars => WizardInv'
<1> SUFFICES ASSUME WizardInv, [WizardNext]_wizardVars PROVE WizardInv'
  OBVIOUS
<1>1. CASE WizardNext
  BY <1>1, Browse_Inv, SaveAutomaticAccount_Inv, SaveManualAccount_Inv, Create_Inv,
     Stop_Inv, Restart_Inv DEF WizardNext
<1>2. CASE UNCHANGED wizardVars
  <2>1. UNCHANGED vars
    BY <1>2 DEF wizardVars
  <2>2. Inv'
    BY <2>1, Next_Inv DEF WizardInv
  <2>3. UNCHANGED <<requests, identities, session, saving, form, runs, page,
                    configurations, created, inflight, password>>
    BY <1>2 DEF wizardVars, creationVars, vars, ispdbVars, modelVars, uiVars
  <2> QED
    BY <2>2, <2>3
    DEF WizardInv, OneAccountPerRun, CalendarsAreForGmail,
        PatientIdentitiesFitTheServers, RunIsKnown, NothingIsLeft, RequestsAreTyped
<1> QED
  BY <1>1, <1>2

-----------------------------------------------------------------------------
\* Every reachable state of the wizard satisfies the invariant.
THEOREM WizardInvariant == WizardSpec => []WizardInv
  BY WizardInit_Inv, WizardNext_Inv, PTL DEF WizardSpec

\* A run of the wizard makes one account
\* (ConfigurationSelectionPage.qml:19-30, ManualConfigurationPage.qml:25-32).
THEOREM OneAccount == WizardSpec => []OneAccountPerRun
<1>1. WizardInv => OneAccountPerRun
  BY DEF WizardInv
<1> QED
  BY <1>1, WizardInvariant, PTL

\* Akonadi is asked for a Google agent only by a run whose lookup was for Gmail
\* (configurationmodel.cpp:102, 182-184; accountconfiguration.cpp:247-252).
THEOREM CalendarsAreRight == WizardSpec => []CalendarsAreForGmail
<1>1. WizardInv => CalendarsAreForGmail
  BY DEF WizardInv
<1> QED
  BY <1>1, WizardInvariant, PTL

\* The identity of a user who waited for the lookup is for the address its
\* servers were looked up for (configurationmodel.cpp:136-157,
\* accountconfiguration.cpp:253).
THEOREM PatientIdentitiesAreRight == WizardSpec => []PatientIdentitiesFitTheServers
<1>1. WizardInv => PatientIdentitiesFitTheServers
  BY DEF WizardInv
<1> QED
  BY <1>1, WizardInvariant, PTL

-----------------------------------------------------------------------------
\* The wizard implements AccountCreation.  Creation and CreationProofs are the
\* same module: the lemmas lead from the actions of the one to those of the other,
\* about which the theorems are.

\* The constants of the wizard are those of an AccountCreation.
LEMMA CreationAssumptionFact == CreationProofs!CreationAssumption
BY WizardAssumption
DEF Creation!Types, CreationProofs!CreationAssumption, CreationProofs!Types

\* save() in the wizard is SaveResource of AccountCreation.
LEMMA SaveResourceFact ==
    ASSUME NEW f \in Creation!Forms, Creation!SaveResource(f)
    PROVE  CreationProofs!Next
<1>1. f \in CreationProofs!Forms
  BY DEF Creation!Forms, CreationProofs!Forms
<1>2. Creation!UniqueName = CreationProofs!UniqueName
  BY DEF Creation!UniqueName, Creation!Taken, Creation!Cardinality,
         CreationProofs!UniqueName, CreationProofs!Taken, CreationProofs!Cardinality
<1>3. Creation!Entry("identity", "success") = CreationProofs!Entry("identity", "success")
  BY DEF Creation!Entry, CreationProofs!Entry
<1>4. ASSUME NEW before, Creation!CreateResource("incoming", f, before)
      PROVE  CreationProofs!CreateResource("incoming", f, before)
  BY <1>4
  DEF Creation!CreateResource, Creation!TypeOf, Creation!Entry,
      CreationProofs!CreateResource, CreationProofs!TypeOf, CreationProofs!Entry
<1>5. CreationProofs!SaveResource(f)
  BY <1>2, <1>3, <1>4 DEF Creation!SaveResource, CreationProofs!SaveResource
<1> QED
  BY <1>1, <1>5 DEF CreationProofs!Next

\* So are the parts that follow, the event loop's delete and the answers.
LEMMA CreateFact ==
    ASSUME Create
    PROVE  CreationProofs!Next
<1>1. ASSUME Creation!SaveGroupware
      PROVE  CreationProofs!SaveGroupware
  <2>1. ASSUME Creation!CreateResource("google", form, log)
        PROVE  CreationProofs!CreateResource("google", form, log)
    BY <2>1
    DEF Creation!CreateResource, Creation!TypeOf, Creation!Entry,
        CreationProofs!CreateResource, CreationProofs!TypeOf, CreationProofs!Entry
  <2> QED
    BY <1>1, <2>1 DEF Creation!SaveGroupware, CreationProofs!SaveGroupware
<1>2. ASSUME Creation!SaveTransport
      PROVE  CreationProofs!SaveTransport
  BY <1>2
  DEF Creation!SaveTransport, Creation!NewTransport, Creation!Entry,
      CreationProofs!SaveTransport, CreationProofs!NewTransport, CreationProofs!Entry
<1>3. ASSUME Creation!SaveIdentity
      PROVE  CreationProofs!SaveIdentity
  BY <1>3
  DEF Creation!SaveIdentity, Creation!NewIdentity, Creation!AfterSave,
      CreationProofs!SaveIdentity, CreationProofs!NewIdentity, CreationProofs!AfterSave
<1>4. ASSUME Creation!DeferredDelete
      PROVE  CreationProofs!DeferredDelete
  BY <1>4
  DEF Creation!DeferredDelete, Creation!persistent, Creation!Slots,
      CreationProofs!DeferredDelete, CreationProofs!persistent, CreationProofs!Slots
<1>5. ASSUME NEW request \in requests, Creation!AkonadiAnswers(request)
      PROVE  CreationProofs!AkonadiAnswers(request)
  BY <1>5
  DEF Creation!AkonadiAnswers, Creation!volatile,
      CreationProofs!AkonadiAnswers, CreationProofs!volatile
<1>6. ASSUME NEW slot \in Creation!Slots, Creation!InstanceCreateResult(slot)
      PROVE  CreationProofs!InstanceCreateResult(slot) /\ slot \in CreationProofs!Slots
  BY <1>6
  DEF Creation!InstanceCreateResult, Creation!Entry, Creation!Waiting, Creation!RequestsOf,
      Creation!SetupOutcomes, Creation!Configure, Creation!OfThisJob, Creation!Reported,
      Creation!Slots,
      CreationProofs!InstanceCreateResult, CreationProofs!Entry, CreationProofs!Waiting,
      CreationProofs!RequestsOf, CreationProofs!SetupOutcomes, CreationProofs!Configure,
      CreationProofs!OfThisJob, CreationProofs!Reported, CreationProofs!Slots
<1> QED
  BY <1>1, <1>2, <1>3, <1>4, <1>5, <1>6
  DEF Create, Creation!SaveGoesOn, CreationProofs!Next, CreationProofs!SaveGoesOn

\* A step of the wizard is a step of AccountCreation or leaves it alone.
THEOREM WizardStep_Creates ==
    [WizardNext]_wizardVars => [CreationProofs!Next]_(CreationProofs!vars)
<1> SUFFICES ASSUME [WizardNext]_wizardVars
             PROVE  [CreationProofs!Next]_(CreationProofs!vars)
  OBVIOUS
<1>1. UNCHANGED creationVars => UNCHANGED CreationProofs!vars
  BY DEF creationVars, CreationProofs!vars, CreationProofs!persistent,
         CreationProofs!volatile
<1>2. CASE Browse
  BY <1>1, <1>2 DEF Browse
<1>3. CASE SaveAutomaticAccount
  BY <1>3, SaveResourceFact DEF SaveAutomaticAccount, FormOf, SaveFor
<1>4. CASE SaveManualAccount
  BY <1>4, SaveResourceFact DEF SaveManualAccount, ManualForms, SaveFor
<1>5. CASE Create
  BY <1>5, CreateFact
<1>6. CASE Stop
  BY <1>6
  DEF Stop, Creation!Stop, Creation!Idle, Creation!Slots, Creation!persistent,
      CreationProofs!Next, CreationProofs!Stop, CreationProofs!Idle,
      CreationProofs!Slots, CreationProofs!persistent
<1>7. CASE Restart
  BY <1>7
  DEF Restart, Creation!Restart, Creation!NoForm, Creation!persistent,
      CreationProofs!Next, CreationProofs!Restart, CreationProofs!NoForm,
      CreationProofs!persistent
<1>8. CASE UNCHANGED wizardVars
  BY <1>1, <1>8 DEF wizardVars
<1> QED
  BY <1>2, <1>3, <1>4, <1>5, <1>6, <1>7, <1>8 DEF WizardNext

\* Whatever the pages and the lookups do, accounts come into being as
\* AccountCreation says.
THEOREM WizardCreates == WizardSpec => CreationProofs!Spec
<1>1. WizardInit => CreationProofs!Init
  BY DEF WizardInit, Creation!Init, Creation!NoForm, Creation!Idle, Creation!Slots,
         CreationProofs!Init, CreationProofs!NoForm, CreationProofs!Idle,
         CreationProofs!Slots
<1> QED
  BY <1>1, WizardStep_Creates, PTL DEF WizardSpec, CreationProofs!Spec

\* So nothing save() promises by itself is lost in the wizard.
THEOREM WizardKeepsCreation ==
    WizardSpec =>
        /\ [](CreationProofs!Inv)
        /\ CreationProofs!OnlyTheRunConfigures
        /\ CreationProofs!Setup!Spec
<1>1. CreationProofs!Spec => [](CreationProofs!Inv)
  BY CreationAssumptionFact, CreationProofs!CreationInvariant
<1>2. CreationProofs!Spec => CreationProofs!OnlyTheRunConfigures
  BY CreationAssumptionFact, CreationProofs!OnlyTheRunWrites
<1>3. CreationProofs!Spec => CreationProofs!Setup!Spec
  BY CreationAssumptionFact, CreationProofs!SetupRefined
<1> QED
  BY <1>1, <1>2, <1>3, WizardCreates, PTL

-----------------------------------------------------------------------------
\* The types of the wizard.

\* The history is of runs that were started and of addresses.
THEOREM RunsAreTyped == WizardSpec => [](runs \in SUBSET Runs)
<1> DEFINE Typed == runs \in SUBSET Runs
<1>1. WizardInit => Typed
  BY DEF WizardInit
<1>2. Typed /\ WizardInv /\ CreationProofs!TypeOK /\ [WizardNext]_wizardVars => Typed'
  <2> SUFFICES ASSUME Typed, WizardInv, CreationProofs!TypeOK, [WizardNext]_wizardVars
               PROVE  runs' \in SUBSET Runs
    BY DEF Runs, Creation!Sessions
  <2>1. ASSUME NEW f, NEW servers \in Addresses, SaveFor(f, servers), email \in Addresses
        PROVE  runs' \in SUBSET Runs
    <3>1. session \in Creation!Sessions
      BY DEF CreationProofs!TypeOK, CreationProofs!Sessions, Creation!Sessions
    <3>2. overlapped \in BOOLEAN
      BY DEF WizardInv, Inv, TypeOK
    <3> DEFINE run == [session |-> session, for |-> email, servers |-> servers,
                       patient |-> ~overlapped]
    <3>3. run \in Runs
      BY <2>1, <3>1, <3>2 DEF Runs
    <3> QED
      BY <2>1, <3>3 DEF SaveFor
  <2>2. CASE SaveAutomaticAccount
    <3>1. PICK enabled \in BOOLEAN : CreateAutomaticAccount(enabled)
      BY <2>2 DEF SaveAutomaticAccount
    <3>2. PICK a \in created' : \E f \in FormOf(a) : SaveFor(f, a.configuration.addr)
      BY <2>2 DEF SaveAutomaticAccount
    <3>3. Inv'
      BY <3>1, Next_Inv DEF WizardInv, Next
    <3>4. a.configuration.addr \in Addresses
      BY <3>2, <3>3 DEF Inv, TypeOK, Account, Configuration
    <3>5. email \in Addresses
      BY <3>1 DEF WizardInv, Inv, SearchedEmail, CreateAutomaticAccount
    <3> QED
      BY <2>1, <3>2, <3>4, <3>5
  <2>3. CASE SaveManualAccount
    <3>1. email \in Addresses
      BY <2>3 DEF WizardInv, Inv, SearchedEmail, SaveManualAccount,
                        CreateManualAccount
    <3> QED
      BY <2>1, <2>3, <3>1 DEF SaveManualAccount
  <2>4. CASE UNCHANGED runs
    BY <2>4
  <2> QED
    BY <2>2, <2>3, <2>4
    DEF WizardNext, Browse, Create, Stop, Restart, wizardVars
<1>3. CreationProofs!Inv => CreationProofs!TypeOK
  BY DEF CreationProofs!Inv
<1> HIDE DEF Typed
<1>4. WizardSpec => []Typed
  BY <1>1, <1>2, <1>3, WizardInvariant, WizardKeepsCreation, PTL DEF WizardSpec
<1> QED
  BY <1>4 DEF Typed

\* Every variable of the wizard keeps its type, those of the pages, of save() and
\* of Akonadi.
THEOREM WizardTypeCorrect == WizardSpec => []WizardTypeOK
<1>1. WizardInv => TypeOK
  BY DEF WizardInv, Inv
<1>2. CreationProofs!Inv => Creation!TypeOK
  BY DEF CreationProofs!Inv, CreationProofs!TypeOK, CreationProofs!Requests,
         CreationProofs!Instances, CreationProofs!Identities, CreationProofs!Sessions,
         CreationProofs!Slots, CreationProofs!Types, CreationProofs!Names,
         CreationProofs!Forms, CreationProofs!NoForm, CreationProofs!Entries,
         Creation!TypeOK, Creation!Requests, Creation!Instances, Creation!Identities,
         Creation!Sessions, Creation!Slots, Creation!Types, Creation!Names,
         Creation!Forms, Creation!NoForm, Creation!Entries
<1>3. TypeOK /\ Creation!TypeOK /\ runs \in SUBSET Runs => WizardTypeOK
  BY DEF WizardTypeOK
<1> QED
  BY <1>1, <1>2, <1>3, WizardInvariant, WizardKeepsCreation, RunsAreTyped, PTL
=============================================================================
