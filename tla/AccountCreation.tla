-------------------------- MODULE AccountCreation --------------------------
(***************************************************************************)
(* How an account comes into being: AccountConfiguration::save             *)
(* (src/src/accountconfiguration.cpp), the Resource objects it makes       *)
(* (src/src/resource.cpp), the life of the AccountConfiguration that owns  *)
(* them (ConfigurationModel::createAutomaticAccount, the page of           *)
(* ManualConfigurationPage.qml), Akonadi, which creates the agent          *)
(* instances asynchronously, and the end of the wizard, which may come at  *)
(* any moment and leaves behind what was written so far.  The wizard may   *)
(* then be started again.                                                  *)
(*                                                                         *)
(* Steps of the program: the handler that calls save, cut where it writes  *)
(* something that survives the process; a deferred delete; the result of   *)
(* an AgentInstanceCreateJob.  The result handler only makes blocking      *)
(* D-Bus calls and is one step.                                            *)
(***************************************************************************)
EXTENDS Integers, Sequences, FiniteSets

CONSTANTS
    UniqueTypes,        \* agent types with the capability "Unique"
    MaxSessions         \* bound: how often the wizard is started

Types == {"imap", "pop3", "google"}
Slots == {"incoming", "google"}     \* the resources of an account
Sessions == 1..MaxSessions

ASSUME CreationAssumption ==
    UniqueTypes \subseteq Types /\ MaxSessions \in Nat \ {0}

\* What the configuration that is saved looks like.  Only a configuration
\* found by the lookup can lack an SMTP server or ask for groupware.
Forms ==
    {f \in [path : {"automatic", "manual"}, protocol : {"imap", "pop3"},
            hasTransport : BOOLEAN, groupware : BOOLEAN] :
        f.path = "manual" => f.hasTransport /\ ~f.groupware}

NoForm == [path |-> "none"]

\* ConsoleLog's entries; "exists" is the success "... is already set up".
Entries ==
    [about : {"identity", "transport"} \cup Slots,
     kind  : {"info", "success", "exists", "error"}]

VARIABLES
    \* Akonadi, the identities and the transports survive the process.
    requests,       \* AgentInstanceCreateJobs, as Akonadi sees them
    agents,         \* agent instances; setup: what was written to /Settings
    transports,     \* the sessions whose mail transport is saved
    identities,     \* saved identities
    \* The process.
    session,        \* number of the wizard's run; history
    saving,         \* the next part of save(), or before, after, or not running
    form,           \* the configuration being saved
    identity,       \* mIdentity: its name and whether a transport is set
    account,        \* the AccountConfiguration object
    client,         \* [Slots -> state of the Resource object]
    log             \* ConsoleLog

persistent == <<requests, agents, transports, identities>>
volatile   == <<session, saving, form, identity, account, client, log>>
vars       == <<persistent, volatile>>

\* Identity names: 0 stands for the one made of name and host, n > 0 for the
\* n-th variant makeUnique derives from it.
Names == Nat

Requests ==
    [session : Sessions, slot : Slots, type : Types,
     state : {"sent", "created", "refused"}]

Instances ==
    [session : Sessions, slot : Slots, type : Types,
     setup : {"bare", "touched", "saved"}]

Identities == [session : Sessions, name : Names, transport : BOOLEAN]

TypeOK ==
    /\ requests \subseteq Requests
    /\ agents \subseteq Instances
    /\ transports \subseteq Sessions
    /\ identities \subseteq Identities
    /\ session \in Sessions
    /\ saving \in {"no", "transport", "groupware", "identity", "done", "off"}
    /\ form \in Forms \cup {NoForm}
    /\ identity \in [name : Names, transport : BOOLEAN]
    /\ account \in {"none", "alive", "doomed", "gone"}
    /\ client \in [Slots -> {"none", "waiting", "settled", "destroyed"}]
    /\ log \in Seq(Entries)

Idle == [s \in Slots |-> "none"]

Init ==
    /\ requests = {} /\ agents = {} /\ transports = {} /\ identities = {}
    /\ session = 1
    /\ saving = "no"
    /\ form = NoForm
    /\ identity = [name |-> 0, transport |-> FALSE]
    /\ account = "none"
    /\ client = Idle
    /\ log = <<>>
-----------------------------------------------------------------------------
Entry(about, kind) == [about |-> about, kind |-> kind]

\* Mutation: the identifier of the POP3 agent is mistyped.
TypeMistyped(slot, f) ==
    IF slot = "google" THEN "google" ELSE IF f.protocol = "imap" THEN "imap" ELSE "pop"

\* The type identifier of the resource that is asked for.
TypeOf(slot, f) == IF slot = "google" THEN "google" ELSE f.protocol

\* Resource::createResource, given the log that precedes it.  Each disjunct is
\* one of its returns: the type is not installed, a unique type has an
\* instance, the job is started.  The information save() passes is always valid.
CreateResource(slot, f, before) ==
    LET type == TypeOf(slot, f)
        exists == type \in UniqueTypes /\ \E a \in agents : a.type = type
    IN  \/ /\ client' = [client EXCEPT ![slot] = "settled"]
           /\ log' = Append(before, Entry(slot, "error"))
           /\ UNCHANGED requests
        \/ /\ exists
           /\ client' = [client EXCEPT ![slot] = "settled"]
           /\ log' = Append(before, Entry(slot, "exists"))
           /\ UNCHANGED requests
        \/ /\ ~exists
           /\ client' = [client EXCEPT ![slot] = "waiting"]
           /\ log' = Append(before, Entry(slot, "info"))
           /\ requests' = requests \cup
                 {[session |-> session, slot |-> slot, type |-> type, state |-> "sent"]}

Taken == {i.name : i \in identities}

\* Mutation: isUnique and makeUnique are not consulted.
AnyName == 0

\* The name save() gives the identity: a fresh variant if it is taken.
UniqueName ==
    IF 0 \notin Taken THEN 0
    ELSE CHOOSE n \in 1..(Cardinality(Taken) + 1) : n \notin Taken

\* The first part of save(): the identity is named and announced, and the
\* incoming resource is asked for.
SaveResource(f) ==
    /\ saving = "no"
    /\ form' = f
    /\ account' = "alive"
    /\ identity' = [name |-> UniqueName, transport |-> FALSE]
    /\ CreateResource("incoming", f, Append(log, Entry("identity", "success")))
    /\ saving' = "transport"
    /\ UNCHANGED <<agents, transports, identities, session>>

\* Mutation: the transport's id is taken, but the transport is not stored.
NoTransport == {}

NewTransport == {s \in {session} : form.hasTransport}

SaveTransport ==
    /\ saving = "transport"
    /\ saving' = "groupware"
    /\ transports' = transports \cup NewTransport
    /\ identity' = [identity EXCEPT !.transport = form.hasTransport]
    /\ log' = IF form.hasTransport
              THEN Append(log, Entry("transport", "success")) ELSE log
    /\ UNCHANGED <<requests, agents, identities, session, form, account, client>>

SaveGroupware ==
    /\ saving = "groupware"
    /\ saving' = "identity"
    /\ \/ form.groupware /\ CreateResource("google", form, log)
       \/ ~form.groupware /\ UNCHANGED <<requests, client, log>>
    /\ UNCHANGED <<agents, transports, identities, session, form, identity, account>>

\* Mutation: save() ends without the last line.
NoIdentity == {}

NewIdentity ==
    {[session |-> session, name |-> identity.name, transport |-> identity.transport]}

\* Mutation: the object of the manual page is deleted like the automatic one.
AlwaysDoomed == "doomed"

\* createAutomaticAccount goes on with deleteLater, the page of the manual
\* configuration keeps its object.
AfterSave == IF form.path = "automatic" THEN "doomed" ELSE "alive"

\* saveIdentity, the last line of save().
SaveIdentity ==
    /\ saving = "identity"
    /\ saving' = "done"
    /\ identities' = identities \cup NewIdentity
    /\ account' = AfterSave
    /\ UNCHANGED <<requests, agents, transports, session, form, identity, client, log>>

\* The event loop deletes the AccountConfiguration, its child Resources and
\* their jobs.
DeferredDelete ==
    /\ saving = "done"
    /\ account = "doomed"
    /\ account' = "gone"
    /\ client' = [s \in Slots |-> IF client[s] = "waiting" THEN "destroyed" ELSE client[s]]
    /\ UNCHANGED <<persistent, session, saving, form, identity, log>>
-----------------------------------------------------------------------------
\* Akonadi answers a job, whether or not somebody still waits for it.
AkonadiAnswers(request) ==
    /\ request \in requests
    /\ request.state = "sent"
    /\ \/ /\ requests' = (requests \ {request}) \cup {[request EXCEPT !.state = "created"]}
          /\ agents' = agents \cup
                {[session |-> request.session, slot |-> request.slot,
                  type |-> request.type, setup |-> "bare"]}
       \/ /\ requests' = (requests \ {request}) \cup {[request EXCEPT !.state = "refused"]}
          /\ UNCHANGED agents
    /\ UNCHANGED <<transports, identities, volatile>>

\* Mutation: the results of the D-Bus calls are not looked at.
UncheckedOutcomes ==
    {[setup |-> setup, kind |-> "success"] : setup \in {"bare", "touched", "saved"}}

\* How far instanceCreateResult gets: the /Settings interface is not there, a
\* setting is refused (maybe the first), they are not saved, all is done.
SetupOutcomes ==
    {[setup |-> "bare", kind |-> "error"], [setup |-> "touched", kind |-> "error"],
     [setup |-> "saved", kind |-> "success"]}

\* Mutation: a setting that is refused ends the loop without a word.
ReportedUnlessRefused(slot, outcome) ==
    IF outcome.setup = "touched" THEN <<>> ELSE <<Entry(slot, outcome.kind)>>

Reported(slot, outcome) == <<Entry(slot, outcome.kind)>>

\* Mutation: the instance is looked up by its type.
OfThatType(a, slot) == a.type = TypeOf(slot, form)

OfThisJob(a, slot) == a.session = session /\ a.slot = slot

Configure(slot, outcome) ==
    /\ agents' = {IF OfThisJob(a, slot) THEN [a EXCEPT !.setup = outcome.setup] ELSE a :
                      a \in agents}
    /\ log' = Append(log, Entry(slot, "info")) \o Reported(slot, outcome)

RequestsOf(slot) ==
    {request \in requests : request.session = session /\ request.slot = slot}

\* Mutation: the job and its slot outlive the Resource.
WaitedFor(slot) == client[slot] \in {"waiting", "destroyed"}

Waiting(slot) == client[slot] = "waiting"

\* Resource::instanceCreateResult.  The job may report an error whatever
\* Akonadi did or will do, for instance that the answer took too long.
InstanceCreateResult(slot) ==
    /\ saving = "done"
    /\ Waiting(slot)
    /\ \/ /\ log' = Append(log, Entry(slot, "error"))
          /\ UNCHANGED agents
       \/ /\ \E request \in RequestsOf(slot) : request.state = "created"
          /\ \E outcome \in SetupOutcomes : Configure(slot, outcome)
    /\ client' = [client EXCEPT ![slot] = "settled"]
    /\ UNCHANGED <<requests, transports, identities, session, saving, form,
                   identity, account>>
-----------------------------------------------------------------------------
\* Finish, the window is closed, or the process dies, also inside save().
Stop ==
    /\ saving # "off"
    /\ saving' = "off"
    /\ account' = "none"
    /\ client' = Idle
    /\ log' = <<>>
    /\ UNCHANGED <<persistent, session, form, identity>>

\* The wizard is started again.
Restart ==
    /\ saving = "off"
    /\ session < MaxSessions
    /\ session' = session + 1
    /\ saving' = "no"
    /\ form' = NoForm
    /\ identity' = [name |-> 0, transport |-> FALSE]
    /\ UNCHANGED <<persistent, account, client, log>>

SaveGoesOn == SaveTransport \/ SaveGroupware \/ SaveIdentity

Next ==
    \/ \E f \in Forms : SaveResource(f)
    \/ SaveGoesOn
    \/ DeferredDelete
    \/ \E request \in requests : AkonadiAnswers(request)
    \/ \E slot \in Slots : InstanceCreateResult(slot)
    \/ Stop
    \/ Restart

Spec == Init /\ [][Next]_vars

\* A handler that has begun goes on, the event loop delivers, Akonadi answers;
\* the user need not do anything.
FairSpec ==
    /\ Spec
    /\ WF_vars(SaveGoesOn)
    /\ WF_vars(DeferredDelete)
    /\ \A slot \in Slots :
          /\ WF_vars(/\ \E request \in RequestsOf(slot) : request.state # "sent"
                     /\ InstanceCreateResult(slot))
          /\ WF_vars(\E request \in RequestsOf(slot) : AkonadiAnswers(request))
-----------------------------------------------------------------------------
Agent(slot) == {a \in agents : a.session = session /\ a.slot = slot}

VerdictsIn(entries, slot) ==
    {i \in DOMAIN entries : entries[i].about = slot /\ entries[i].kind # "info"}

Verdicts(slot) == VerdictsIn(log, slot)

\* What DetailsPage reports as completed is completed: the agent of this run was
\* given all its settings.  What it reports as set up already is there; whether
\* it is set up is ExistingIsSetUp (resource.cpp:85, 150-180).
ReportedSuccessIsReal ==
    \A slot \in Slots : \A i \in Verdicts(slot) :
        /\ log[i].kind = "success" => \E a \in Agent(slot) : a.setup = "saved"
        /\ log[i].kind = "exists" => \E a \in agents : a.type = TypeOf(slot, form)

\* A resource is reported on once, and the Resource object that waits has not
\* been reported on: no return of createResource or instanceCreateResult is
\* silent, and none lets the other speak again.
OneVerdictPerResource ==
    \A slot \in Slots :
        /\ Cardinality(Verdicts(slot)) <= 1
        /\ client[slot] = "settled" <=> Verdicts(slot) # {}

\* An IMAP agent is told the uoid of the identity (AccountIdentity, the first
\* of its settings) before anybody knows that the identity will be saved:
\* saveIdentity is the last line of save().  No crash leaves an agent that
\* names an identity that does not exist (accountconfiguration.cpp:128, 253).
AgentIdentityExists ==
    \A a \in agents : a.setup # "bare" => \E i \in identities : i.session = a.session

\* An identity never refers to a transport that is not stored, wherever save()
\* was cut off (accountconfiguration.cpp:227-253).
IdentityTransportExists ==
    \A i \in identities : i.transport => i.session \in transports

\* Identities of any number of runs of the wizard have different names.
IdentityNamesDiffer ==
    \A i, j \in identities : i.name = j.name => i = j

AccountedFor(slot) ==
    \A a \in Agent(slot) :
        \/ a.setup = "saved"
        \/ client[slot] = "waiting"
        \/ \E i \in Verdicts(slot) : log[i].kind = "error"

\* On the manual path every agent this run left in Akonadi is configured, is
\* about to be, or is reported as an error: the object that waits for it lives
\* until the process ends.
NoSilentOrphan ==
    (saving \notin {"no", "off"} /\ form.path = "manual") =>
        \A slot \in Slots : AccountedFor(slot)

\* No agent is configured without its object's report, and a run that is over
\* never touches an agent again.
OnlyTheRunConfigures ==
    [][\A a \in agents' :
          (a.setup # "bare" /\ a \notin agents) =>
              /\ a.session = session
              /\ client[a.slot] = "waiting" /\ client'[a.slot] = "settled"]_vars

\* On the manual path every resource that was asked for gets its verdict, or
\* the wizard ends.
ManualResourceSettles ==
    \A slot \in Slots :
        (form.path = "manual" /\ client[slot] = "waiting")
            ~> (client[slot] = "settled" \/ saving = "off")

\* What ResourceSetup speaks of: the requests and the agents of this run, and the
\* last word of the log or of the Resource object.
Asked == {slot \in Slots : RequestsOf(slot) # {}}

Told ==
    [slot \in Slots |->
        CASE client[slot] = "waiting"   -> "waiting"
          [] client[slot] = "destroyed" -> "lost"
          [] client[slot] = "none"      -> "nothing"
          [] OTHER -> log[CHOOSE i \in Verdicts(slot) : TRUE].kind]

AgentState ==
    [slot \in Slots |->
        IF Agent(slot) = {} THEN "absent" ELSE (CHOOSE a \in Agent(slot) : TRUE).setup]

Setup ==
    INSTANCE ResourceSetup
        WITH asked <- Asked, told <- Told, agent <- AgentState, over <- (saving = "off")

\* What the run of the wizard tells of its resources and does to their agents is
\* what ResourceSetup promises, wherever save() is, however late Akonadi answers
\* and whatever the job reports.
ImplementsResourceSetup == Setup!FairSpec

-----------------------------------------------------------------------------
\* What the inductive invariant needs beside the properties above.

\* A run asks for an agent of each slot once, an agent is the answer to such a
\* request, and the runs to come have asked for nothing.
OneAgentPerRequest ==
    /\ \A q \in requests : q.session <= session
    /\ \A p, q \in requests : p.session = q.session /\ p.slot = q.slot => p = q
    /\ \A a, b \in agents : a.session = b.session /\ a.slot = b.slot => a = b
    /\ \A a \in agents : \E q \in requests :
          q.session = a.session /\ q.slot = a.slot /\ q.state = "created"
    /\ \A q \in requests : q.state = "created" =>
          \E a \in agents : a.session = q.session /\ a.slot = q.slot

\* The log, the Resource objects and what they asked for begin empty in each run;
\* an agent is bare while its object waits or is gone.
ClientsAreCurrent ==
    /\ saving \in {"no", "off"} => client = Idle /\ log = <<>>
    /\ saving \in {"transport", "groupware"} => client["google"] = "none"
    /\ saving \notin {"no", "off"} => form \in Forms /\ client["incoming"] # "none"
    /\ \A slot \in Slots :
          /\ client[slot] = "none" /\ saving # "off" => RequestsOf(slot) = {}
          /\ client[slot] \in {"waiting", "destroyed"} =>
                \A a \in Agent(slot) : a.setup = "bare"

\* A part of save() that is over has stored what the rest relies on.
SavedSoFar ==
    /\ saving \in {"transport", "groupware", "identity"} => identity.name \notin Taken
    /\ saving \in {"groupware", "identity"} /\ identity.transport => session \in transports
    /\ saving = "done" => \E i \in identities : i.session = session

\* The object of the manual page is not deleted; a request of the page that has
\* no answer yet is waited for, or was reported as an error.
ManualIsWatched ==
    (saving \notin {"no", "off"} /\ form.path = "manual") =>
        /\ account = "alive"
        /\ \A slot \in Slots : \A q \in RequestsOf(slot) : q.state = "sent" =>
              \/ client[slot] = "waiting"
              \/ \E i \in Verdicts(slot) : log[i].kind = "error"

Inv ==
    /\ TypeOK
    /\ OneAgentPerRequest
    /\ ClientsAreCurrent
    /\ SavedSoFar
    /\ ManualIsWatched
    /\ ReportedSuccessIsReal
    /\ OneVerdictPerResource
    /\ AgentIdentityExists
    /\ IdentityTransportExists
    /\ IdentityNamesDiffer
    /\ NoSilentOrphan
    /\ IsFiniteSet(identities)

-----------------------------------------------------------------------------
\* "Save the mail transport and resource" (accountconfiguration.h:64): the agent
\* save() asked for gets its settings, or the log says that it could not.
SavedResourceIsSetUp == saving = "done" => \A slot \in Slots : AccountedFor(slot)

\* "Resource '%1' is already set up." (resource.cpp:85): when the log says so, an
\* agent of that type was given its settings; an earlier run may have been ended
\* before, or have destroyed the object that would have written them.
ExistingIsSetUp ==
    \A slot \in Slots : \A i \in Verdicts(slot) :
        log[i].kind = "exists" =>
            \E a \in agents : a.type = TypeOf(slot, form) /\ a.setup = "saved"
=============================================================================
