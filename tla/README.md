# kmail-account-wizard in TLA+

Specifications of the account wizard (`src/src`), checked with TLC and, where that is
possible, proved with TLAPS. The wizard asks for a mail address, looks up the provider's
servers on the internet, offers what it found or a form to fill in, and then creates an
Akonadi resource, a mail transport and an identity.

It is a program with one thread, but hardly a sequential one: network replies, server
tests, Akonadi's agent creation and deferred deletes all come back through the event loop,
in an order nobody chose, while the user keeps going back and forth between pages; and what
it writes survives it when it is closed half way. That is what the models are about.

## Inventory

| part | state | operations | talks to |
|---|---|---|---|
| `IspdbService` (`ispdbservice.cpp`) | none but the requests in the network manager; stage and address travel in the reply's lambda | `start`, one `finished` lambda per reply, `handleReply` | emits `finished` / `notConfigFound` to `SetupManager` |
| provider document (`serverconfiguration.cpp`, `handleReply`) | `Server` under construction, `EmailProvider` | `fromDomElement`, `replacePlaceholders`, the loops over servers | hands `EmailProvider` to `ConfigurationModel` |
| `SetupManager`, `ConfigurationModel` | address, password, list of configurations, groupware flag, "found" message, "nothing found" flag | setters, `searchConfiguration`, `setEmailProvider`, `noConfigFound`, `createAutomaticAccount` | read and written by the pages; makes an `AccountConfiguration` |
| pages (`qml/*.qml`) | page stack, checked radio button, field texts | Next, Previous, edits, checking a button, Finish | everything above |
| `AccountConfiguration`, the form (`accountconfiguration.cpp`) | both servers, valid flag, offline mode, test in progress | setters that call each other, `checkServer`, `slotTestResult`, `slotTestFail` | `ServerTest` |
| `ServerTest` (`servertest.cpp`) | MailTransport's test | `test`, `testFinished` | signals to the form |
| `AccountConfiguration::save` and `Resource` (`resource.cpp`) | identity, transport, Resource objects | `save`, `createResource`, `instanceCreateResult` | Akonadi, the identity and transport managers, `ConsoleLog` |
| `ConsoleLog` | list of entries | `addEntry` | shown by `DetailsPage` |

What is hard, and what makes each part correct:

* **Lookups overlap.** Nothing cancels a search. Its reply is applied to whatever address
  and page there is by then. Correct: one request per search; sites in order; one verdict
  per search; a list that is of one lookup, with flags that belong to it; the right address.
* **Replies are handled twice.** A status other than 200 continues the chain *and* the body
  is used. Correct only if the sites are polite; the runs separate the two cases.
* **The model changes under the user.** Radio buttons, the groupware switch and the index
  Next passes on refer to a list a reply may replace at any time, also while an account is
  being made of it.
* **Creation outlives its creator.** `createAutomaticAccount` deletes the
  `AccountConfiguration` whose children wait for Akonadi. Correct: what was asked for is
  configured or reported.
* **Partial failure and interruption.** A refused setting, an end of the process inside
  `save()`, a second run of the wizard over the leftovers of the first. Correct: reports are
  true, references (agent → identity → transport) never dangle, names do not collide, a run
  does not touch what another one asked for.
* **Setters that call each other.** The port, the encryption and the protocol reset one
  another; a test result arrives in the middle, or after its page was closed. Correct: the
  stored flags are current, one test at a time, port and encryption fit, the account is the
  one that was shown and found.

PROJECT.json lists these hazards with their lines.

## Modules

```
LookupChain    <--implements--  IspdbService     <--EXTENDS--  SetupManager
                                                                    ^ EXTENDS
ResourceSetup  <--implements--  AccountCreation  <--INSTANCE--   Wizard

AccountForm    <--EXTENDS--     AccountConfiguration      (the manual form)
               <--EXTENDS--     ServerConfiguration       (document -> account)
```

Proofs are in modules of their own: `X_proofs` for the invariant of X and the facts about
its operators, `AccountCreation_refinement` for a refinement. They build on each other as the
models do. The `MC...` modules hold the instances that need definitions.

**LookupChain** — the abstract promise of the lookups: each search walks four sites in
order, never goes back, ends, and gives up only when it leaves the last site.

**IspdbService** — `inflight` is the set of unanswered requests with the address and stage
the lambda captured. `ReplyFinished` is the whole lambda: `Retried` is the request it may
send before `handleReply`, `Finished` and `NotConfigFound` are the conditions of the two
signals. A reply is abstracted to whether its status is 200 and what `QDomDocument` makes of
its body. `started`, the numbers of the searches and `outcome` are history: they change
nothing. Refinement mapping: the position of a search is the stage of its request plus one.

**SetupManager** — extends IspdbService with the wizard up to the moment an account is asked
for. A step is one event: a user's action with all handlers and slots it runs
(`EditEmail` runs `setEmail`, which clears the list; `NextFromPersonal` trims, searches and
pushes a page), or one reply with the slots of its signal (`HandleReply`).
An address is an atom; `Trimmed`, `GmailMailboxes` (the test of `PersonalDataPage.qml:70`)
and `GmailDomains` (the test of `ispdbservice.cpp:139`) say of it what the code asks.
`password` is whether there is one. `checked` models the button group: the delegates are
destroyed and rebuilt on every model reset (`DelegatesReset`), the manual button is bound to
`noConfigFound` (`RaiseNoConfigFound`). `overlapped` is history: the address was changed, or
another search was started, while a request was in flight. `PagesWithPrevious` are the pages
whose "Previous" is visible; DetailsPage has no way back.

**AccountForm** — the setters as functions of a record with the incoming server, the flags
and the mail transport, composed by the two modules below as the code composes them.
`requiresAuth` is whether `setRequiresAuthentication(true)` was called. `Automatic` is
`createAutomaticAccount` up to `save()`.

**AccountConfiguration** — ManualConfigurationPage on its AccountConfiguration: each field is
an action, and so are the server test, its result, Create Account, and leaving the page and
opening it again, which makes a new object and deletes the test with the old one
(`TestsLeft`). The incoming fields go through setters; the outgoing ones are written by QML,
which asks for the check itself where it does. `verdict`, `touched` and `ownPort` are
history. Mechanisms are the default ones and APOP, the only one the page lists for one
protocol alone.

**ServerConfiguration** — reads a document element by element. `Read` is one turn of
`fromDomElement`'s loop, `CloseServer` the end of a server in `handleReply`,
`ExamineOutgoing` one turn of the loop that picks the outgoing server, `SetEmailProvider`
the rest of that function, `Shown` and `Tags` what the selection page shows, `AccountOf` the
account, through AccountForm's setters. Texts consist of one placeholder or contain none.
What `QString::toInt` makes of a text is the text's model; a negative number that becomes
unsigned is represented by one number above all ports. Both loops are taken turn by turn,
which no other event interrupts, so that their results can be proved by an invariant of the
loop, for documents of any length. What a server means is said by the places of its elements
(`Describes`), not by another loop.

**ResourceSetup** — the abstract promise of account creation, without jobs, logs or the parts
of `save()`: each resource is asked for once; the user is told one end, and success only in
the step that gives the agent its settings; an agent is written only while somebody waits
for it; the waiting ends, if only because the object or the run does.

**AccountCreation** — `save()` cut where it writes something that survives the process:
`SaveResource` (identity named, agent requested), `SaveTransport`, `SaveGroupware`,
`SaveIdentity`. They run in one handler, so no other event of the process comes between them
(`DeferredDelete` and `InstanceCreateResult` require `saving = "done"`), but Akonadi, another
process, and the end of the wizard do. `InstanceCreateResult` is one step because its D-Bus
calls block. `Stop` is Finish, closing the window, or a crash; `Restart` begins the next run,
one at a time (`KDBusService::Unique`, main.cpp:58). `log` is ConsoleLog without wording. An
information record passed to `createResource` always has a name, a type and settings, so its
first return is unreachable and left out; so is `save()`'s `default` case. Refinement
mapping: `Asked` are the slots of this run's requests, `Told` is the state of the Resource
object or, once it has reported, the kind of its report, `AgentState` what this run's agent
was given. On the automatic path the deferred delete is ResourceSetup's `Abandon`: the
abstract specification allows it, `NoSilentOrphan` says that the manual path does not do it.

**Wizard** — both halves as one program. `save()` begins in the handler that pushes
DetailsPage, so `SaveAutomaticAccount` and `SaveManualAccount` are one step of SetupManager
together with one of AccountCreation; `FormOf` copies the chosen configuration. `Browse` is
everything else of SetupManager, late replies on DetailsPage included; it waits while
`save()` runs, as there is one thread. `Create` is the rest of AccountCreation. `Stop` ends
the process with its requests, list and pages; the next run starts from KEMailSettings'
address, which may be any. Searches are numbered over all runs. `runs` is history: the
address, and the address of the servers, that each `save()` was called with.

The definitions under "Mutation:" comments are plausible slips in the definition below them.
They are used to confirm that each property can fail, and by nothing else.

## Runs

Every cfg has `CHECK_DEADLOCK FALSE`: in each system the user may stop at a page, the last
run of the wizard ends, or a document is over.

| run | question | bounds |
|---|---|---|
| `setup_any` | list, flags, checked button, password and account against the address, and the chain of sites, under any replies | a plain and a Gmail address, a text with a blank, 2 searches, 7 kinds of reply |
| `setup_live` | with helpful sites: one signal per search, what a waiting user sees is final, every search settles, Next on the selection page gets enabled, and no page is without an answer and a choice once the latest search is over | same, 3 searches |
| `creation` | log, agents, transports and identities across interruptions; is every resource of a manual account reported on; is ResourceSetup implemented | 2 runs of the wizard, Google agent unique |
| `form` | the manual form under any edits, with a test running or left behind; does a test end | 2 hosts, 1 user name, ports 1143 and 465 beside the defaults |
| `document` | does the element loop mean what a declarative reading says; what is offered, shown and made of it | 4 elements spread over any number of servers, all texts, 3 ports |
| `wizard` | the composed program | 2 runs, 2 searches in all, one plain and one Gmail address, an IMAP or a POP server |

The inductive invariants `Inv` (SetupManager, AccountCreation) and `WizardInv` are checked as
invariants of their runs, too. Those of AccountConfiguration and ServerConfiguration consist
of properties of `form` and `document` and of two named parts each; they hold on these
instances as well, but are not listed in the cfg.

Why the bounds are enough. Two searches let a late reply meet a younger search, three let it
meet two; nothing in the code counts searches. The two addresses differ in the only thing the
code asks of an address. Two runs of the wizard give a run that finds leftovers; in `wizard`
the two searches may fall into one run or one into each. Two hosts and one custom port give
an edited and a tested value that differ; four elements are enough to repeat one kind of
element with another in between, and to tell two outgoing servers' encryptions apart or leave
them equal. The safety properties of the passing runs do not rest on bounds at all: they are
proved.

Polite sites answer 200 exactly when they have a provider document, and otherwise an
unparsable (for instance empty) body; helpful ones (`Helpful`) name an incoming server in
that document too. It is what the chain is written for. The five properties of `setup_live`
hold under these conditions only and name them in their statement (`PoliteReplies`,
`Informative`); the violation runs show what happens with other sites.

### What the violation runs show

* `wizard_mixed` — the answer to an earlier lookup fills the list of a new address, and what
  is saved is an identity of the new address with the old provider's servers.
  `PatientIdentitiesFitTheServers` shows that this is the only way it happens.
* `setup_placeholder` — a status other than 200 with a provider document fills the list and
  lets the chain go on; its end raises the "nothing found" notice beside the list.
* `setup_silent_end` — a site that answers 200 with something else ends the chain without a
  signal: an empty page, no notice, Next disabled.
* `creation_dropped` — `deleteLater` destroys the Resource objects of an automatic account
  before Akonadi answers: the agent is created but gets no settings, and the log ends with
  "Creating resource instance". `NoSilentOrphan` and `ManualResourceSettles` show that the
  manual path, whose object lives as long as its page, does not have the problem.
* `creation_leftover` — for an agent type with the capability "Unique" an instance that an
  earlier run asked for, and that never got its settings, is reported as already set up: the
  agent appears, the run ends (or the deferred delete of `creation_dropped` comes first), the
  next run finds it and leaves it as it is. `ReportedSuccessIsReal` shows that the other
  success report, "Resource setup completed", is true, and that the instance exists. Which
  types are unique is Akonadi's to say; the run takes the Google agent, and resource.cpp:77
  notes that IMAP and POP3 are not.
* `document_port` — a STARTTLS or plain server on its own port loses that port, because the
  encryption is set last and resets it.

Other peculiarities are in the models as the code has them, without a finding of their own.
`SafestOutgoingIsOffered` takes the highest enumerator for the safest, StartTLS before SSL, as
the code and the server test do; ManualConfigurationPage.qml:123 recommends SSL/TLS. ServerTest
emits `testFail` also for a server it reached without encryption (servertest.h:31 speaks of one
that cannot be reached), and the comment of its `test` names `pop3` where the form asks for
`pop`. A test's result is applied to a form whose host has changed meanwhile; the calendar
switch stays beside an empty list; a late reply of an overlapping lookup takes the place of the
user's choice; a new form has SSL and port 587 for sending. Two more are part of
`AccountIsTheOneFound`: a document without an incoming user name leaves the account with an
empty one, although `setEmail` had filled in the address; and a login for sending is required
only if the document has an outgoing user name, although the transport keeps the address as one.

## Fairness

* Lookups: weak fairness of "some request of search s is answered", for each s. Every
  QNetworkReply finishes, be it with an error. There is no transfer timeout in
  `ispdbservice.cpp`, so this rests on the transport's own; it is the assumption to question
  first.
* Form: MailTransport::ServerTest ends its connections with a timeout.
* Creation: a handler that has begun goes on, a deferred delete is delivered, Akonadi answers
  each request, and a result whose answer is there is handled. `Stop` needs no fairness and
  is an escape the property names. ResourceSetup's own fairness, that waiting ends, follows
  from these and is checked with the refinement.
* Wizard has no liveness property and no fairness of its own.
* The user is never assumed to do anything.

## Proofs

Checked by TLAPS for every value of the constants that satisfies the named assumptions
(`RepliesAssumption`, `SearchBoundAssumption`, `TextAssumption`, `CreationAssumption`,
`WizardAssumption`, `FormAssumption`, `DocumentAssumption`). Every invariant and action
property of the passing runs is a theorem.

**IspdbService_proofs.** `IspdbInvariant`: type correctness and one request per search.
The inductive invariant `IspdbInv` adds `OnlyStartedSearches`: a new search gets a number no
request has, without which its request could be a second one. `ImplementsChain`: every step
is a step of LookupChain or a stutter; since a search has one request, the `CHOOSE` in the
refinement mapping is determined, and a reply moves that search's position and no other.
`LookupsFollowTheChain` carries it over to SetupManager.

**SetupManager_proofs.** `Inv` is inductive (`Next_Inv`, one theorem per action or group of
actions). Nothing can be said of the list without saying it of the requests that will fill
it, hence `SearchedEmail` and `PatientRequests`; nothing of a Gmail account's password
without the field's (`PasswordFieldIsEmptyForGmail`); nothing of calendars without
`ConfigurationsAreKnown`. `LookupStep` shows that each step of the wizard is a step of the
lookups, so IspdbService's invariant is reused and not proved again. The properties of the
run follow one by one. `SearchHasOneVerdict` and `ShownIsFinal` hold for polite sites only;
their invariants (`SingleVerdicts`, `PatientShown`) are proved beside `Inv` under that
assumption, which, being a statement about constants, is either always or never true. `NobodyIsStuck` is
the safety half of `SelectionGetsEnabled`: `SelectionIsNotStuck` is inductive beside `Inv`,
because with informative sites the reply that ends a search has a signal and each signal
leaves something checked (`InformativeReplyFact`, `SignalBringsChoice`); what is left to
liveness is that the latest search ends.

**AccountCreation_proofs.** `Inv` is inductive, one theorem per action. The properties alone
are not: that an agent's identity exists needs that nothing is configured before `save()` is
over and that bare agents are those nobody has reported on (`ClientsAreCurrent`,
`SavedSoFar`); that reports are true and single needs one request and one agent for each slot
of a run (`OneAgentPerRequest`), which also keeps a run from writing another run's agent; the
manual path needs that its object stays alive and that an unanswered request is waited for or
was reported (`ManualIsWatched`). Fresh names rest on the pigeonhole principle over the
finite set of identities (`UniqueNameFact`): an unbounded number of runs never runs out.

**AccountCreation_refinement.** `SetupRefined`: `Spec => Setup!Spec`. `Follows` says that the
two `CHOOSE`s of the mapping are determined, because a slot has one verdict and one agent;
each action then has its own `..._Maps` theorem. An answer of Akonadi for a run that is over
is a stutter: ResourceSetup speaks of the current run.

**Wizard_proofs.** `WizardInv` is inductive. `Browse` and the two save steps are steps of
SetupManager, so `Inv` is inherited from `Next_Inv`; what the composition adds is that the
account being saved is in the history with what it was made of (`RunIsKnown`), from which the
requests and identities get theirs, and that a process leaves nothing but what `save()` wrote
(`NothingIsLeft`), without which a crash could hand a list to the next run. `WizardCreates`
shows that the composition implements AccountCreation, each step being one of its steps or a
stutter, so all that is proved of `save()`, its refinement of ResourceSetup included, holds in
the whole program (`WizardKeepsCreation`) and is not proved twice. AccountCreation's theorems
come in through `INSTANCE AccountCreation_refinement`; `CreationAssumptionFact` discharges
their assumption. `WizardTypeCorrect` then only has to type the history: that `save()` is
called for a valid address is `SearchedEmail` of SetupManager.

**AccountForm_proofs.** One lemma per setter, then one per composition of setters: which
fields the result has, in groups (server, login, mode, page), and that the flag is current
again. Records and setters are not expanded outside these lemmas. `IncomingFact` and
`OutgoingFact` are `createAutomaticAccount`'s two halves; the port in the first says why the
order of the setters matters: it is the one that was found only if the encryption does not
change.

**AccountConfiguration_proofs.** `Inv` is inductive, one theorem per action or group of alike
ones. The properties alone are not: a result is for the form's host only if the running test
was (`UntouchedTest`), and a test that ends leaves none running only if it was the only one
(`OneTest`, which says `Cardinality(tests) <= 1` without counting).
`PortIsRight` needs the setters in their order: a result sets the encryption and then the
port once more, for the protocol the form has by then.

**ServerConfiguration_proofs.** `Inv` relates each loop to what it has seen. For
`fromDomElement`, `ServerIsWhatTheDocumentSays` is its own invariant: one more element adds
the last place to one of the sets of places (`DescribesFact`), which changes the last of them
always and the first only if there was none; the mechanism is PLAIN exactly while `NotPlain`
is empty. For `setEmailProvider` it is `PreferredIsSafestSoFar` with `SafestFact`, and
`ChoiceIsMade` hands the result on to the configurations. `AccountFact` composes the lemmas
about the setters; `AccountIsShown` and `AccountIsFound` need of the state only that a
configuration has one outgoing server at most, and the types of both.

Only model-checked: all liveness (`EverySearchIsSettled`, `SelectionGetsEnabled`,
`ManualResourceSettles`, `TestEnds`, and the fairness of `ImplementsLookupChain` and
`ImplementsResourceSetup`, whose safety parts are proved). Temporal reasoning about fairness
and ENABLED is beyond the prover.

## Not modelled

The full name and display names, wording of log entries, the item models' roles other than
what is shown of servers, `SetupManager::details` (nothing connects its slots), texts with a
placeholder in the middle, the password's later life in the resource, the agents' settings
one by one, `main`'s application data, translations and tests (ldaptest.cpp belongs to code
that is no longer there). Delegates are taken to be rebuilt within the step that resets the
model. The tool bar's back button keeps a page until the next one is pushed, when it is
removed all the same; the models let "Previous" remove it at once.

## Plan

Done: all components with a state, both abstract specifications, the composition, the proofs
of every safety property. What could follow: a model of one agent's settings in their order,
to say which of them an interrupted `instanceCreateResult` leaves; texts made of several
placeholders, which are replaced one after the other; the measures that each reply, each
test result and each answer of Akonadi lowers, as action properties and theorems.
