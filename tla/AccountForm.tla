---------------------------- MODULE AccountForm ----------------------------
(***************************************************************************)
(* The properties of an AccountConfiguration and their setters, which call *)
(* each other (src/src/accountconfiguration.cpp).  A setter is a function  *)
(* of the form, so that the handler of a field, the slot of a server test  *)
(* and ConfigurationModel::createAutomaticAccount are compositions of      *)
(* setters, in the order of the code.                                      *)
(***************************************************************************)
EXTENDS Integers

CONSTANT Blank          \* an empty or blank text

Protocols   == {"IMAP", "POP3"}
Encryptions == {"None", "SSL", "TLS"}

\* Mutation: the user names and the outgoing server are not looked at.
HasHost(f) == f.host # Blank

Complete(f) == Blank \notin {f.user, f.host, f.smtp.host, f.smtp.user}

CheckConfiguration(f) == [f EXCEPT !.valid = Complete(f)]

\* The body of the plain setters: a new value is stored and the form checked.
Assign(f, property, value) ==
    IF f[property] = value THEN f
    ELSE CheckConfiguration([f EXCEPT ![property] = value])

SetIncomingHostName(f, host) == Assign(f, "host", host)

SetIncomingUserName(f, user) == Assign(f, "user", user)

SetIncomingPort(f, port) == Assign(f, "port", port)

SetIncomingAuthenticationProtocol(f, auth) == Assign(f, "auth", auth)

SetDisconnectedModeEnabled(f, enabled) == Assign(f, "disconnected", enabled)

\* Mutation: there is no port for an unencrypted server.
NoPlainPort(protocol, security) ==
    CASE security = "None" -> 0
      [] security = "SSL"  -> IF protocol = "POP3" THEN 995 ELSE 993
      [] OTHER             -> IF protocol = "POP3" THEN 110 ELSE 143

PortOf(protocol, security) ==
    IF security = "SSL"
    THEN IF protocol = "POP3" THEN 995 ELSE 993
    ELSE IF protocol = "POP3" THEN 110 ELSE 143

\* The port is reset to the default of the encryption.
SetIncomingSecurityProtocol(f, security) ==
    IF f.security = security THEN f
    ELSE CheckConfiguration(
            SetIncomingPort([f EXCEPT !.security = security],
                            PortOf(f.protocol, security)))

\* Mutation: the check box for offline use is not hidden and shown.
SetProtocolOnly(f, protocol) ==
    IF f.protocol = protocol THEN f
    ELSE SetIncomingPort([f EXCEPT !.protocol = protocol], PortOf(protocol, "SSL"))

\* The port becomes that of SSL, whatever the encryption is.
SetIncomingProtocol(f, protocol) ==
    IF f.protocol = protocol THEN f
    ELSE CheckConfiguration(
            [SetIncomingPort([f EXCEPT !.protocol = protocol], PortOf(protocol, "SSL"))
                EXCEPT !.hasDisconnectedMode = (protocol = "IMAP")])

\* Mutation: the port is left to setIncomingSecurityProtocol.
TestResultKeepsPort(f, security) ==
    [SetIncomingSecurityProtocol(f, security) EXCEPT !.inProgress = FALSE]

\* slotTestResult, with the protocol the form has by now.
SlotTestResult(f, security) ==
    [SetIncomingPort(SetIncomingSecurityProtocol(f, security),
                     PortOf(f.protocol, security))
        EXCEPT !.inProgress = FALSE]

\* Mutation: a failed test leaves the form waiting.
FailKeepsWaiting(f) == f

SlotTestFail(f) == [f EXCEPT !.inProgress = FALSE]

\* The mail transport as the constructor sets it up; "requiresAuth" tells
\* whether setRequiresAuthentication(true) was called.
FreshTransport ==
    [host |-> Blank, port |-> 587, user |-> Blank, encryption |-> "SSL",
     auth |-> "PLAIN", requiresAuth |-> FALSE]

\* The members of a new AccountConfiguration.
Fresh ==
    [host |-> Blank, user |-> Blank, protocol |-> "IMAP", security |-> "SSL",
     port |-> 993, auth |-> "LOGIN", disconnected |-> TRUE,
     hasDisconnectedMode |-> TRUE, valid |-> FALSE, inProgress |-> FALSE,
     hasTransport |-> TRUE, smtp |-> FreshTransport]

\* AccountConfiguration::setEmail: the domain of the address becomes the host
\* and the address the user name of both servers; the outgoing ones are not
\* checked.
WithEmail(address, domain) ==
    [SetIncomingUserName(SetIncomingHostName(Fresh, domain), address)
        EXCEPT !.smtp.host = domain, !.smtp.user = address]

\* A new page: setEmail, after which the text fields call checkConfiguration.
NewPage(address, domain) == CheckConfiguration(WithEmail(address, domain))
-----------------------------------------------------------------------------
\* createAutomaticAccount, with the servers of a configuration of the lookup.

\* The int of the document becomes an unsigned number; Wrapped stands for those
\* above 2^31, of which no port is any.
Wrapped == 65536
Unsigned(port) == IF port < 0 THEN Wrapped ELSE port

\* The setters that follow setIncomingProtocol, in their order.
Described(f, server) ==
    LET named  == SetIncomingHostName(f, server.hostname)
        ported == SetIncomingPort(named, Unsigned(server.port))
        owned  == SetIncomingUserName(ported, server.username)
    IN  SetIncomingSecurityProtocol(
            SetIncomingAuthenticationProtocol(owned, server.authType),
            server.socketType)

\* Mutation: the protocol is set after the port.
IncomingTypeLast(f, server) ==
    SetIncomingProtocol(Described(f, server), server.type)

Incoming(f, server) ==
    Described(SetIncomingProtocol(f, server.type), server)

\* Mutation: what the constructor set up is used when nothing was found.
KeptOutgoing(f, servers) == f

\* The transport of the one outgoing server, or none at all.
Outgoing(f, servers) ==
    IF servers = {} THEN [f EXCEPT !.hasTransport = FALSE]
    ELSE LET server == CHOOSE s \in servers : TRUE
             login  == server.username # Blank
         IN  [f EXCEPT !.smtp =
                [host |-> server.hostname,
                 port |-> IF server.port > 0 THEN server.port ELSE @.port,
                 user |-> IF login THEN server.username ELSE @.user,
                 encryption |-> server.socketType,
                 auth |-> server.authType,
                 requiresAuth |-> login \/ @.requiresAuth]]

Automatic(address, domain, configuration) ==
    Outgoing(Incoming(WithEmail(address, domain), configuration.incoming),
             configuration.outgoing)
=============================================================================
