------------------------------- MODULE Wizard -------------------------------
(***************************************************************************)
(* The wizard as one program: the pages and the lookup of SetupManager, and*)
(* AccountCreation, which begins when a page pushes DetailsPage and calls  *)
(* save() in the same handler (src/src/qml/ConfigurationSelectionPage.qml, *)
(* src/src/qml/ManualConfigurationPage.qml).  Both run in one thread, so   *)
(* no reply is handled inside save(), but late ones are handled after it.  *)
(* The process may end anywhere, and the next one knows nothing of the     *)
(* pages and lookups of the last.                                          *)
(***************************************************************************)
EXTENDS SetupManager

CONSTANTS UniqueTypes, MaxSessions

VARIABLES
    requests, agents, transports, identities,
    session, saving, form, identity, account, client, log,
    runs                \* history: for each run that called save(), the address
                        \* it was for, the address its servers were looked up
                        \* for, and whether the user was a patient one

Creation == INSTANCE AccountCreation

ASSUME WizardAssumption == UniqueTypes \subseteq Creation!Types /\ MaxSessions \in Nat \ {0}

creationVars ==
    <<requests, agents, transports, identities,
      session, saving, form, identity, account, client, log>>

wizardVars == <<vars, creationVars, runs>>

Runs ==
    [session : Creation!Sessions, for : Addresses, servers : Addresses, patient : BOOLEAN]

WizardTypeOK == TypeOK /\ Creation!TypeOK /\ runs \in SUBSET Runs

WizardInit == Init /\ Creation!Init /\ runs = {}
-----------------------------------------------------------------------------
\* The user and the replies, while DetailsPage is not pushed by it and save() is
\* not running.
Browse ==
    /\ saving \in {"no", "done"}
    /\ Next
    /\ page' = "details" => page = "details"
    /\ UNCHANGED <<creationVars, runs>>

\* How createAutomaticAccount copies a configuration into an AccountConfiguration;
\* SetupManager does not say whether an outgoing server was found.
FormOf(a) ==
    {f \in Creation!Forms :
        /\ f.path = "automatic"
        /\ f.protocol = (IF a.configuration.type = "IMAP" THEN "imap" ELSE "pop3")
        /\ f.groupware = a.groupware}

ManualForms == {f \in Creation!Forms : f.path = "manual"}

SaveFor(f, servers) ==
    /\ Creation!SaveResource(f)
    /\ runs' = runs \cup {[session |-> session, for |-> email, servers |-> servers,
                           patient |-> ~overlapped]}

SaveAutomaticAccount ==
    /\ \E enabled \in BOOLEAN : CreateAutomaticAccount(enabled)
    /\ \E a \in created' : \E f \in FormOf(a) : SaveFor(f, a.configuration.addr)

SaveManualAccount ==
    /\ CreateManualAccount
    /\ \E f \in ManualForms : SaveFor(f, email)

\* save() goes on, the event loop delivers, Akonadi answers.
Create ==
    /\ \/ Creation!SaveGoesOn
       \/ Creation!DeferredDelete
       \/ \E request \in requests : Creation!AkonadiAnswers(request)
       \/ \E slot \in Creation!Slots : Creation!InstanceCreateResult(slot)
    /\ UNCHANGED <<vars, runs>>

\* The process ends and its requests are dropped with it; the searches of all
\* runs are numbered through.
Stop ==
    /\ Creation!Stop
    /\ inflight' = {} /\ outcome' = [s \in Searches |-> {}]
    /\ configurations' = <<>> /\ hasGroupwareSupport' = FALSE
    /\ foundMessage' = FALSE /\ noConfigFound' = FALSE
    /\ password' = FALSE
    /\ page' = "personal" /\ checked' = NoButton /\ created' = {}
    /\ overlapped' = FALSE
    /\ UNCHANGED <<started, email, runs>>

Restart ==
    /\ Creation!Restart
    /\ email' \in Texts
    /\ UNCHANGED <<ispdbVars, modelVars, password, page, checked, created, overlapped, runs>>

WizardNext ==
    \/ Browse
    \/ SaveAutomaticAccount
    \/ SaveManualAccount
    \/ Create
    \/ Stop
    \/ Restart

WizardSpec == WizardInit /\ [][WizardNext]_wizardVars
-----------------------------------------------------------------------------
\* save() was called if and only if DetailsPage is on top: no way leads from an
\* account that is being made back to a page that makes another one in the same
\* run (ConfigurationSelectionPage.qml:19-30, ManualConfigurationPage.qml:25-32).
OneAccountPerRun == page = "details" <=> saving \notin {"no", "off"}

\* Akonadi is asked for a Google agent only by a run whose servers were looked up
\* for a Gmail address, though the switch is shown by a flag that outlives the
\* lookup, read when the account is made and acted on in the last part of save()
\* (configurationmodel.cpp:102, 182-184; accountconfiguration.cpp:247-252).
CalendarsAreForGmail ==
    \A q \in requests : q.type = "google" =>
        \E r \in runs : r.session = q.session /\ r.servers \in GmailDomains

\* What a run leaves in the identities, whenever it ended, is for the address its
\* servers were looked up for, if the user waited for the lookup
\* (configurationmodel.cpp:136-157, accountconfiguration.cpp:253).
PatientIdentitiesFitTheServers ==
    \A i \in identities :
        \E r \in runs : r.session = i.session /\ (r.patient => r.for = r.servers)
-----------------------------------------------------------------------------
\* What the inductive invariant needs beside the properties above.

\* The account whose save() is not over has its entry in the history.
RunIsKnown ==
    saving \in {"transport", "groupware", "identity"} =>
        \E r \in runs :
            /\ r.session = session
            /\ r.patient => r.for = r.servers
            /\ form.groupware => r.servers \in GmailDomains

\* Nothing of a process outlives it but what save() wrote.
NothingIsLeft ==
    saving = "off" =>
        /\ page = "personal" /\ configurations = <<>> /\ created = {}
        /\ inflight = {} /\ ~password

\* The type of the requests, for any number of runs.
RequestsAreTyped ==
    /\ session \in Nat
    /\ requests \subseteq
          [session : Nat, slot : Creation!Slots, type : Creation!Types,
           state : {"sent", "created", "refused"}]

WizardInv ==
    /\ Inv
    /\ RequestsAreTyped
    /\ OneAccountPerRun
    /\ CalendarsAreForGmail
    /\ PatientIdentitiesFitTheServers
    /\ RunIsKnown
    /\ NothingIsLeft
-----------------------------------------------------------------------------
\* "To use your current email address ... This wizard will automatically search
\* for a working and recommended server configuration."
\* (PersonalDataPage.qml:49): the servers of the account were looked up for the
\* address of its identity.
IdentitiesFitTheServers ==
    \A i \in identities : \E r \in runs : r.session = i.session /\ r.for = r.servers
=============================================================================
