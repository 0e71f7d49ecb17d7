------------------------ MODULE AccountConfiguration ------------------------
(***************************************************************************)
(* ManualConfigurationPage.qml on its AccountConfiguration                 *)
(* (src/src/accountconfiguration.cpp): the user edits the fields, each of  *)
(* which calls a setter of AccountForm or of the mail transport, and has   *)
(* the incoming server tested (src/src/servertest.cpp); the result arrives *)
(* while the user goes on editing, or has asked for the account.           *)
(***************************************************************************)
EXTENDS AccountForm, FiniteSets

CONSTANTS
    Hosts,              \* the names of servers the user types
    Users,              \* the user names
    Ports,              \* the ports of incoming servers
    SmtpPorts           \* the ports of outgoing servers

ASSUME FormAssumption ==
    Blank \notin Hosts \cup Users /\ Ports \cup SmtpPorts \subseteq 1..65535

\* Of the mechanisms: the one that is listed for POP3 only and the defaults.
Mechanisms     == {"LOGIN", "APOP"}
SmtpMechanisms == {"PLAIN", "LOGIN"}
DefaultPorts   == {110, 143, 993, 995}

Transports ==
    [host : Hosts \cup {Blank}, user : Users \cup {Blank},
     port : SmtpPorts \cup {587}, encryption : Encryptions,
     auth : SmtpMechanisms, requiresAuth : {FALSE}]

Forms ==
    [host : Hosts \cup {Blank}, user : Users \cup {Blank}, protocol : Protocols,
     security : Encryptions, port : Ports \cup DefaultPorts, auth : Mechanisms,
     disconnected : BOOLEAN, hasDisconnectedMode : BOOLEAN, valid : BOOLEAN,
     inProgress : BOOLEAN, hasTransport : {TRUE}, smtp : Transports]

\* MailTransport::ServerTest: what it was asked to test.
Tests == [host : Hosts, protocol : {"imap", "pop"}]

VARIABLES
    form,           \* the AccountConfiguration of the page
    tests,          \* the test that is running
    saved,          \* the account save() was called for
    verdict,        \* history: the last test that succeeded and what the server
                    \* offered, until host, protocol, security or port change
    touched,        \* history: host or protocol changed since the test began
    ownPort         \* history: the port was typed, or is that of a protocol
                    \* changed while the encryption was not SSL

vars == <<form, tests, saved, verdict, touched, ownPort>>

Verdicts == [test : Tests, offered : SUBSET Encryptions]

TypeOK ==
    /\ form \in Forms
    /\ tests \in SUBSET Tests
    /\ saved \in SUBSET Forms
    /\ verdict \in SUBSET Verdicts
    /\ touched \in BOOLEAN
    /\ ownPort \in BOOLEAN

Init ==
    /\ \E host \in Hosts, user \in Users : form = NewPage(user, host)
    /\ tests = {} /\ saved = {} /\ verdict = {}
    /\ touched = FALSE /\ ownPort = FALSE
-----------------------------------------------------------------------------
Editing == saved = {}

\* The user gives a field another value, after which the form is f.
Edit(f) ==
    /\ Editing
    /\ f # form
    /\ form' = f
    /\ UNCHANGED <<tests, saved>>

EditHost(host) ==
    /\ Edit(SetIncomingHostName(form, host))
    /\ verdict' = {} /\ touched' = TRUE
    /\ UNCHANGED ownPort

EditProtocol(protocol) ==
    /\ Edit(SetIncomingProtocol(form, protocol))
    /\ verdict' = {} /\ touched' = TRUE
    /\ ownPort' = (form.security # "SSL")

EditSecurity(security) ==
    /\ Edit(SetIncomingSecurityProtocol(form, security))
    /\ verdict' = {} /\ ownPort' = FALSE
    /\ UNCHANGED touched

EditPort(port) ==
    /\ Edit(SetIncomingPort(form, port))
    /\ verdict' = {} /\ ownPort' = TRUE
    /\ UNCHANGED touched

\* Fields no server test looks at or sets.
EditUntested(f) == Edit(f) /\ UNCHANGED <<verdict, touched, ownPort>>

EditUserName(user) == EditUntested(SetIncomingUserName(form, user))

\* APOP is in the list for POP3 only; it stays chosen when the protocol is
\* changed afterwards.
EditAuthentication(auth) ==
    /\ auth = "APOP" => form.protocol = "POP3"
    /\ EditUntested(SetIncomingAuthenticationProtocol(form, auth))

EditDisconnectedMode(enabled) ==
    /\ form.hasDisconnectedMode
    /\ EditUntested(SetDisconnectedModeEnabled(form, enabled))

\* The fields of the transport are written by QML itself, which asks for the
\* check where it does.
EditSmtpHost(host) ==
    EditUntested(CheckConfiguration([form EXCEPT !.smtp.host = host]))

EditSmtpUserName(user) ==
    EditUntested(CheckConfiguration([form EXCEPT !.smtp.user = user]))

EditSmtpPort(port) ==
    EditUntested(CheckConfiguration([form EXCEPT !.smtp.port = port]))

EditSmtpSecurity(security) ==
    EditUntested([form EXCEPT !.smtp.encryption = security])

EditSmtpAuthentication(auth) ==
    EditUntested([form EXCEPT !.smtp.auth = auth])

\* Mutation: "Recheck" is not disabled while a test is running.
CanCheckAgain == form.valid

CanCheck == form.valid /\ ~form.inProgress

\* "Recheck"
CheckServer ==
    /\ Editing
    /\ CanCheck
    /\ form' = [form EXCEPT !.inProgress = TRUE]
    /\ tests' = tests \cup
          {[host |-> form.host, protocol |-> IF form.protocol = "POP3" THEN "pop" ELSE "imap"]}
    /\ verdict' = {} /\ touched' = FALSE
    /\ UNCHANGED <<saved, ownPort>>

\* ServerTest::testFinished: StartTLS is preferred, no encryption is a failure.
Preferred(offered) == IF "TLS" \in offered THEN "TLS" ELSE "SSL"

TestFinished(test, offered) ==
    /\ test \in tests
    /\ tests' = tests \ {test}
    /\ \/ /\ offered \subseteq {"None"}
          /\ form' = SlotTestFail(form)
          /\ verdict' = {}
          /\ UNCHANGED ownPort
       \/ /\ ~(offered \subseteq {"None"})
          /\ form' = SlotTestResult(form, Preferred(offered))
          /\ verdict' = {[test |-> test, offered |-> offered]}
          /\ ownPort' = FALSE
    /\ UNCHANGED <<saved, touched>>

\* "Create Account"; the test goes on.
Save ==
    /\ Editing
    /\ form.valid
    /\ saved' = {form}
    /\ UNCHANGED <<form, tests, verdict, touched, ownPort>>

\* Mutation: the test of the old page goes on.
KeptTests == tests

\* The test is deleted with the AccountConfiguration of the old page.
TestsLeft == {}

\* "Previous", and Next again: a new page with a new AccountConfiguration.
Reopen ==
    /\ Editing
    /\ \E host \in Hosts, user \in Users : form' = NewPage(user, host)
    /\ tests' = TestsLeft
    /\ verdict' = {} /\ touched' = FALSE /\ ownPort' = FALSE
    /\ UNCHANGED saved

EditIncoming ==
    \/ \E host \in Hosts \cup {Blank} : EditHost(host)
    \/ \E user \in Users \cup {Blank} : EditUserName(user)
    \/ \E protocol \in Protocols : EditProtocol(protocol)
    \/ \E security \in Encryptions : EditSecurity(security)
    \/ \E port \in Ports : EditPort(port)
    \/ \E auth \in Mechanisms : EditAuthentication(auth)
    \/ \E enabled \in BOOLEAN : EditDisconnectedMode(enabled)

EditOutgoing ==
    \/ \E host \in Hosts \cup {Blank} : EditSmtpHost(host)
    \/ \E user \in Users \cup {Blank} : EditSmtpUserName(user)
    \/ \E port \in SmtpPorts : EditSmtpPort(port)
    \/ \E security \in Encryptions : EditSmtpSecurity(security)
    \/ \E auth \in SmtpMechanisms : EditSmtpAuthentication(auth)

EndTest == \E test \in tests, offered \in SUBSET Encryptions : TestFinished(test, offered)

Next == EditIncoming \/ EditOutgoing \/ CheckServer \/ EndTest \/ Save \/ Reopen

Spec == Init /\ [][Next]_vars

\* MailTransport::ServerTest times its connections out.
FairSpec == Spec /\ WF_vars(EndTest)
-----------------------------------------------------------------------------
\* The two flags that are stored beside the fields and recomputed by every
\* setter on its own say what the fields are: the one that enables "Create
\* Account" and "Recheck", and the one that shows the offline mode.  What was
\* saved was complete (accountconfiguration.cpp:305-314, 383-398).
FlagsAreCurrent ==
    /\ form.valid <=> Blank \notin {form.user, form.host, form.smtp.host, form.smtp.user}
    /\ form.hasDisconnectedMode <=> form.protocol = "IMAP"
    /\ \A f \in saved : Blank \notin {f.user, f.host, f.smtp.host, f.smtp.user}

\* The form waits if and only if its one test is running: no result is waited
\* for in vain, no two tests race (accountconfiguration.cpp:256-303).
WaitsForItsTest ==
    /\ form.inProgress <=> tests # {}
    /\ Cardinality(tests) <= 1

\* After a test that succeeded, and until the user changes them, the tested
\* server offers the encryption; without an edit during the test that server is
\* the one in the form (accountconfiguration.cpp:286-303).
DetectionFitsTheForm ==
    \A v \in verdict :
        /\ form.security \in v.offered
        /\ ~touched => v.test.host = form.host

\* The port is the default of protocol and encryption, whichever of them was
\* changed last, by the user or by a test, unless the user typed the port or
\* changed the protocol of a form without SSL
\* (accountconfiguration.cpp:286-303, 351-398, accountconfigurationtest.cpp:240-245).
PortFitsTheEncryption == ~ownPort => form.port = PortOf(form.protocol, form.security)

\* A test that is running ends, so "Recheck" gets enabled again.
TestEnds == form.inProgress ~> ~form.inProgress

-----------------------------------------------------------------------------
\* What the inductive invariant needs beside the properties above.

\* Any two tests are the same one.
OneTest == \A s, t \in tests : s = t

\* The test that is running is the form's, until host or protocol change.
UntouchedTest == ~touched => \A test \in tests : test.host = form.host

Inv ==
    /\ TypeOK
    /\ FlagsAreCurrent
    /\ WaitsForItsTest
    /\ DetectionFitsTheForm
    /\ PortFitsTheEncryption
    /\ OneTest
    /\ UntouchedTest
=============================================================================
