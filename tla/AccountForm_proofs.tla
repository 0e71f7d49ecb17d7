------------------------- MODULE AccountForm_proofs -------------------------
(***************************************************************************)
(* What every setter of the form returns, field by field, and what follows *)
(* for the compositions the handlers are made of.  The proofs about the    *)
(* pages cite these facts and never expand a setter.                       *)
(***************************************************************************)
EXTENDS AccountForm, TLAPS

\* A record with the fields of a form, and of a mail transport.
IsTransport(t) ==
    t = [host |-> t.host, port |-> t.port, user |-> t.user,
         encryption |-> t.encryption, auth |-> t.auth,
         requiresAuth |-> t.requiresAuth]

IsForm(f) ==
    /\ f = [host |-> f.host, user |-> f.user, protocol |-> f.protocol,
            security |-> f.security, port |-> f.port, auth |-> f.auth,
            disconnected |-> f.disconnected,
            hasDisconnectedMode |-> f.hasDisconnectedMode, valid |-> f.valid,
            inProgress |-> f.inProgress, hasTransport |-> f.hasTransport,
            smtp |-> f.smtp]
    /\ IsTransport(f.smtp)

\* A transport stays one, whichever of its fields is written.
LEMMA TransportFact ==
    ASSUME NEW t, IsTransport(t), NEW value
    PROVE  /\ IsTransport([t EXCEPT !.host = value])
           /\ IsTransport([t EXCEPT !.port = value])
           /\ IsTransport([t EXCEPT !.user = value])
           /\ IsTransport([t EXCEPT !.encryption = value])
           /\ IsTransport([t EXCEPT !.auth = value])
BY DEF IsTransport

\* The fields by what they belong to.
ServerFields(f) == <<f.host, f.protocol, f.security, f.port>>
LoginFields(f) == <<f.user, f.auth>>
ModeFields(f) == <<f.disconnected, f.hasDisconnectedMode>>
PageFields(f) == <<f.inProgress, f.hasTransport, f.smtp>>

\* The flag says what the fields say.
IsChecked(f) == f.valid \in BOOLEAN /\ (f.valid <=> Complete(f))

-----------------------------------------------------------------------------
\* The check touches nothing but its flag.
LEMMA CheckFact ==
    ASSUME NEW f, IsForm(f)
    PROVE  LET g == CheckConfiguration(f) IN
           /\ IsForm(g) /\ IsChecked(g)
           /\ ServerFields(g) = ServerFields(f) /\ LoginFields(g) = LoginFields(f)
           /\ ModeFields(g) = ModeFields(f) /\ PageFields(g) = PageFields(f)
<1> DEFINE g == CheckConfiguration(f)
<1>1. /\ IsForm(g)
      /\ ServerFields(g) = ServerFields(f) /\ LoginFields(g) = LoginFields(f)
      /\ ModeFields(g) = ModeFields(f) /\ PageFields(g) = PageFields(f)
  BY DEF IsForm, IsTransport, ServerFields, LoginFields, ModeFields, PageFields,
         CheckConfiguration
<1>2. g.valid = Complete(f) /\ (Complete(f) <=> Complete(g))
  BY DEF IsForm, CheckConfiguration, Complete
<1>3. Complete(f) \in BOOLEAN
  BY DEF Complete
<1>4. IsChecked(g)
  BY <1>2, <1>3 DEF IsChecked
<1> QED
  BY <1>1, <1>4

\* setIncomingHostName changes the host and checks the form.
LEMMA HostFact ==
    ASSUME NEW f, IsForm(f), NEW host
    PROVE  LET g == SetIncomingHostName(f, host) IN
           /\ IsForm(g) /\ (IsChecked(f) => IsChecked(g))
           /\ ServerFields(g) = <<host, f.protocol, f.security, f.port>>
           /\ LoginFields(g) = LoginFields(f)
           /\ ModeFields(g) = ModeFields(f) /\ PageFields(g) = PageFields(f)
BY DEF IsForm, IsTransport, ServerFields, LoginFields, ModeFields, PageFields,
       IsChecked, SetIncomingHostName, Assign, CheckConfiguration, Complete

\* setIncomingUserName changes the user name and checks the form.
LEMMA UserFact ==
    ASSUME NEW f, IsForm(f), NEW user
    PROVE  LET g == SetIncomingUserName(f, user) IN
           /\ IsForm(g) /\ (IsChecked(f) => IsChecked(g))
           /\ ServerFields(g) = ServerFields(f)
           /\ LoginFields(g) = <<user, f.auth>>
           /\ ModeFields(g) = ModeFields(f) /\ PageFields(g) = PageFields(f)
BY DEF IsForm, IsTransport, ServerFields, LoginFields, ModeFields, PageFields,
       IsChecked, SetIncomingUserName, Assign, CheckConfiguration, Complete

\* setIncomingPort changes the port.
LEMMA PortFact ==
    ASSUME NEW f, IsForm(f), NEW port
    PROVE  LET g == SetIncomingPort(f, port) IN
           /\ IsForm(g) /\ (IsChecked(f) => IsChecked(g))
           /\ ServerFields(g) = <<f.host, f.protocol, f.security, port>>
           /\ LoginFields(g) = LoginFields(f)
           /\ ModeFields(g) = ModeFields(f) /\ PageFields(g) = PageFields(f)
BY DEF IsForm, IsTransport, ServerFields, LoginFields, ModeFields, PageFields,
       IsChecked, SetIncomingPort, Assign, CheckConfiguration, Complete

\* setIncomingAuthenticationProtocol changes the mechanism.
LEMMA AuthFact ==
    ASSUME NEW f, IsForm(f), NEW auth
    PROVE  LET g == SetIncomingAuthenticationProtocol(f, auth) IN
           /\ IsForm(g) /\ (IsChecked(f) => IsChecked(g))
           /\ ServerFields(g) = ServerFields(f)
           /\ LoginFields(g) = <<f.user, auth>>
           /\ ModeFields(g) = ModeFields(f) /\ PageFields(g) = PageFields(f)
BY DEF IsForm, IsTransport, ServerFields, LoginFields, ModeFields, PageFields,
       IsChecked, SetIncomingAuthenticationProtocol, Assign, CheckConfiguration,
       Complete

\* setDisconnectedModeEnabled changes the mode.
LEMMA DisconnectedFact ==
    ASSUME NEW f, IsForm(f), NEW enabled
    PROVE  LET g == SetDisconnectedModeEnabled(f, enabled) IN
           /\ IsForm(g) /\ (IsChecked(f) => IsChecked(g))
           /\ ServerFields(g) = ServerFields(f) /\ LoginFields(g) = LoginFields(f)
           /\ ModeFields(g) = <<enabled, f.hasDisconnectedMode>>
           /\ PageFields(g) = PageFields(f)
BY DEF IsForm, IsTransport, ServerFields, LoginFields, ModeFields, PageFields,
       IsChecked, SetDisconnectedModeEnabled, Assign, CheckConfiguration, Complete

-----------------------------------------------------------------------------
\* setIncomingSecurityProtocol changes the encryption and, with it, the port.
LEMMA SecurityFact ==
    ASSUME NEW f, IsForm(f), NEW security
    PROVE  LET g    == SetIncomingSecurityProtocol(f, security)
               port == IF f.security = security THEN f.port
                       ELSE PortOf(f.protocol, security)
           IN  /\ IsForm(g) /\ (IsChecked(f) => IsChecked(g))
               /\ ServerFields(g) = <<f.host, f.protocol, security, port>>
               /\ LoginFields(g) = LoginFields(f)
               /\ ModeFields(g) = ModeFields(f) /\ PageFields(g) = PageFields(f)
<1>1. CASE f.security = security
  BY <1>1 DEF SetIncomingSecurityProtocol, ServerFields
<1>2. CASE f.security # security
  <2> DEFINE secured == [f EXCEPT !.security = security]
             ported  == SetIncomingPort(secured, PortOf(f.protocol, security))
  <2>1. /\ IsForm(secured)
        /\ ServerFields(secured) = <<f.host, f.protocol, security, f.port>>
        /\ LoginFields(secured) = LoginFields(f)
        /\ ModeFields(secured) = ModeFields(f) /\ PageFields(secured) = PageFields(f)
    BY DEF IsForm, ServerFields, LoginFields, ModeFields, PageFields
  <2> HIDE DEF secured
  <2>2. /\ IsForm(ported)
        /\ ServerFields(ported) =
              <<secured.host, secured.protocol, secured.security,
                PortOf(f.protocol, security)>>
        /\ LoginFields(ported) = LoginFields(secured)
        /\ ModeFields(ported) = ModeFields(secured)
        /\ PageFields(ported) = PageFields(secured)
    BY <2>1, PortFact
  <2>3. SetIncomingSecurityProtocol(f, security) = CheckConfiguration(ported)
    BY <1>2 DEF SetIncomingSecurityProtocol, secured
  <2> HIDE DEF ported
  <2> QED
    BY <1>2, <2>1, <2>2, <2>3, CheckFact DEF ServerFields
<1> QED
  BY <1>1, <1>2

\* setIncomingProtocol changes the protocol and, with it, the port and whether
\* there is an offline mode.
LEMMA ProtocolFact ==
    ASSUME NEW f, IsForm(f), NEW protocol, f.protocol # protocol
    PROVE  LET g == SetIncomingProtocol(f, protocol) IN
           /\ IsForm(g) /\ IsChecked(g)
           /\ ServerFields(g) =
                 <<f.host, protocol, f.security, PortOf(protocol, "SSL")>>
           /\ LoginFields(g) = LoginFields(f)
           /\ ModeFields(g) = <<f.disconnected, protocol = "IMAP">>
           /\ PageFields(g) = PageFields(f)
<1> DEFINE renamed == [f EXCEPT !.protocol = protocol]
           ported  == SetIncomingPort(renamed, PortOf(protocol, "SSL"))
           moded   == [ported EXCEPT !.hasDisconnectedMode = (protocol = "IMAP")]
<1>1. /\ IsForm(renamed)
      /\ ServerFields(renamed) = <<f.host, protocol, f.security, f.port>>
      /\ LoginFields(renamed) = LoginFields(f)
      /\ ModeFields(renamed) = ModeFields(f) /\ PageFields(renamed) = PageFields(f)
  BY DEF IsForm, ServerFields, LoginFields, ModeFields, PageFields
<1> HIDE DEF renamed
<1>2. /\ IsForm(ported)
      /\ ServerFields(ported) =
            <<renamed.host, renamed.protocol, renamed.security, PortOf(protocol, "SSL")>>
      /\ LoginFields(ported) = LoginFields(renamed)
      /\ ModeFields(ported) = ModeFields(renamed)
      /\ PageFields(ported) = PageFields(renamed)
  BY <1>1, PortFact
<1>3. SetIncomingProtocol(f, protocol) = CheckConfiguration(moded)
  BY DEF SetIncomingProtocol, renamed
<1> HIDE DEF ported
<1>4. /\ IsForm(moded)
      /\ ServerFields(moded) = ServerFields(ported)
      /\ LoginFields(moded) = LoginFields(ported)
      /\ ModeFields(moded) = <<ported.disconnected, protocol = "IMAP">>
      /\ PageFields(moded) = PageFields(ported)
  BY <1>2 DEF IsForm, ServerFields, LoginFields, ModeFields, PageFields
<1> HIDE DEF moded
<1> QED
  BY <1>1, <1>2, <1>3, <1>4, CheckFact DEF ServerFields, ModeFields

\* slotTestFail: the form does not wait any more.
LEMMA TestFailFact ==
    ASSUME NEW f, IsForm(f)
    PROVE  LET g == SlotTestFail(f) IN
           /\ IsForm(g) /\ (IsChecked(f) => IsChecked(g))
           /\ ServerFields(g) = ServerFields(f) /\ LoginFields(g) = LoginFields(f)
           /\ ModeFields(g) = ModeFields(f)
           /\ PageFields(g) = <<FALSE, f.hasTransport, f.smtp>>
<1> DEFINE g == SlotTestFail(f)
<1>1. /\ ServerFields(g) = ServerFields(f) /\ LoginFields(g) = LoginFields(f)
      /\ ModeFields(g) = ModeFields(f)
  BY DEF IsForm, ServerFields, LoginFields, ModeFields, SlotTestFail
<1>2. g.valid = f.valid /\ (Complete(f) <=> Complete(g))
  BY DEF IsForm, SlotTestFail, Complete
<1>3. IsForm(g)
  <2>1. ASSUME NEW waits PROVE IsForm([f EXCEPT !.inProgress = waits])
    BY DEF IsForm
  <2> QED
    BY <2>1 DEF SlotTestFail
<1>4. g.inProgress = FALSE /\ g.hasTransport = f.hasTransport /\ g.smtp = f.smtp
  BY DEF IsForm, SlotTestFail
<1> QED
  BY <1>1, <1>2, <1>3, <1>4 DEF IsChecked, PageFields

\* slotTestResult: besides, the encryption is the one that was found and the port
\* its default.
LEMMA TestResultFact ==
    ASSUME NEW f, IsForm(f), NEW security
    PROVE  LET g == SlotTestResult(f, security) IN
           /\ IsForm(g) /\ (IsChecked(f) => IsChecked(g))
           /\ ServerFields(g) =
                 <<f.host, f.protocol, security, PortOf(f.protocol, security)>>
           /\ LoginFields(g) = LoginFields(f) /\ ModeFields(g) = ModeFields(f)
           /\ PageFields(g) = <<FALSE, f.hasTransport, f.smtp>>
<1> DEFINE secured == SetIncomingSecurityProtocol(f, security)
           ported  == SetIncomingPort(secured, PortOf(f.protocol, security))
<1>1. SlotTestResult(f, security) = SlotTestFail(ported)
  BY DEF SlotTestResult, SlotTestFail
<1>2. IsForm(secured)
  BY SecurityFact
<1>3. /\ IsForm(ported) /\ (IsChecked(f) => IsChecked(ported))
      /\ ServerFields(ported) =
            <<f.host, f.protocol, security, PortOf(f.protocol, security)>>
      /\ LoginFields(ported) = LoginFields(f) /\ ModeFields(ported) = ModeFields(f)
      /\ PageFields(ported) = PageFields(f)
  BY <1>2, PortFact, SecurityFact DEF ServerFields
<1> HIDE DEF ported
<1> QED
  BY <1>1, <1>3, TestFailFact DEF PageFields

-----------------------------------------------------------------------------
\* setEmail on a new configuration: both servers are the domain's.
LEMMA WithEmailFact ==
    ASSUME NEW address, NEW domain
    PROVE  LET g == WithEmail(address, domain) IN
           /\ IsForm(g)
           /\ ServerFields(g) = <<domain, Fresh.protocol, Fresh.security, Fresh.port>>
           /\ LoginFields(g) = <<address, Fresh.auth>>
           /\ ModeFields(g) = ModeFields(Fresh)
           /\ PageFields(g) =
                 <<Fresh.inProgress, Fresh.hasTransport,
                   [FreshTransport EXCEPT !.host = domain, !.user = address]>>
<1> DEFINE named == SetIncomingHostName(Fresh, domain)
           owned == SetIncomingUserName(named, address)
<1>1. IsForm(Fresh) /\ Fresh.smtp = FreshTransport /\ IsTransport(FreshTransport)
  BY DEF IsForm, IsTransport, Fresh, FreshTransport
<1>2. /\ IsForm(named)
      /\ ServerFields(named) = <<domain, Fresh.protocol, Fresh.security, Fresh.port>>
      /\ LoginFields(named) = LoginFields(Fresh)
      /\ ModeFields(named) = ModeFields(Fresh)
      /\ PageFields(named) = PageFields(Fresh)
  BY <1>1, HostFact
<1> HIDE DEF named
<1>3. /\ IsForm(owned)
      /\ ServerFields(owned) = <<domain, Fresh.protocol, Fresh.security, Fresh.port>>
      /\ LoginFields(owned) = <<address, Fresh.auth>>
      /\ ModeFields(owned) = ModeFields(Fresh)
      /\ PageFields(owned) = PageFields(Fresh)
  BY <1>2, UserFact DEF LoginFields
<1> HIDE DEF owned
<1>4. WithEmail(address, domain) =
         [owned EXCEPT !.smtp.host = domain, !.smtp.user = address]
  BY DEF WithEmail, owned, named
<1>5. owned.smtp = FreshTransport
  BY <1>1, <1>3 DEF PageFields
<1> DEFINE mailing == [FreshTransport EXCEPT !.host = domain, !.user = address]
<1>6. WithEmail(address, domain) = [owned EXCEPT !.smtp = mailing]
  BY <1>3, <1>4, <1>5 DEF IsForm
<1>7. IsTransport(mailing)
  <2>1. IsTransport([[FreshTransport EXCEPT !.host = domain] EXCEPT !.user = address])
    BY <1>1, TransportFact
  <2> QED
    BY <1>1, <2>1 DEF IsTransport
<1> HIDE DEF mailing
<1> QED
  BY <1>3, <1>6, <1>7
  DEF IsForm, ServerFields, LoginFields, ModeFields, PageFields, mailing

\* The form of a new page is checked.
LEMMA NewPageFact ==
    ASSUME NEW address, NEW domain
    PROVE  LET g == NewPage(address, domain) IN
           /\ IsForm(g) /\ IsChecked(g)
           /\ ServerFields(g) = <<domain, Fresh.protocol, Fresh.security, Fresh.port>>
           /\ LoginFields(g) = <<address, Fresh.auth>>
           /\ ModeFields(g) = ModeFields(Fresh)
           /\ PageFields(g) =
                 <<Fresh.inProgress, Fresh.hasTransport,
                   [FreshTransport EXCEPT !.host = domain, !.user = address]>>
BY WithEmailFact, CheckFact DEF NewPage

\* Writing the transport, which no setter does, leaves the rest of the form alone.
LEMMA SmtpFact ==
    ASSUME NEW f, IsForm(f), NEW t, IsTransport(t)
    PROVE  LET g == [f EXCEPT !.smtp = t] IN
           /\ IsForm(g) /\ g.smtp = t
           /\ (IsChecked(f) /\ t.host = f.smtp.host /\ t.user = f.smtp.user => IsChecked(g))
           /\ ServerFields(g) = ServerFields(f) /\ LoginFields(g) = LoginFields(f)
           /\ ModeFields(g) = ModeFields(f)
           /\ PageFields(g) = <<f.inProgress, f.hasTransport, t>>
<1> DEFINE g == [f EXCEPT !.smtp = t]
<1>1. /\ IsForm(g) /\ g.smtp = t
      /\ ServerFields(g) = ServerFields(f) /\ LoginFields(g) = LoginFields(f)
      /\ ModeFields(g) = ModeFields(f)
      /\ PageFields(g) = <<f.inProgress, f.hasTransport, t>>
  BY DEF IsForm, ServerFields, LoginFields, ModeFields, PageFields
<1>2. /\ g.valid = f.valid
      /\ t.host = f.smtp.host /\ t.user = f.smtp.user => (Complete(g) <=> Complete(f))
  BY DEF IsForm, Complete
<1> QED
  BY <1>1, <1>2 DEF IsChecked

-----------------------------------------------------------------------------
\* createAutomaticAccount, incoming server: every field is what was found, but
\* the port only if the encryption is what it was; setIncomingSecurityProtocol
\* comes last and resets it otherwise.
LEMMA IncomingFact ==
    ASSUME NEW f, IsForm(f), NEW server
    PROVE  LET g    == Incoming(f, server)
               port == IF f.security = server.socketType THEN Unsigned(server.port)
                       ELSE PortOf(server.type, server.socketType)
           IN  /\ IsForm(g)
               /\ ServerFields(g) =
                     <<server.hostname, server.type, server.socketType, port>>
               /\ LoginFields(g) = <<server.username, server.authType>>
               /\ PageFields(g) = PageFields(f)
<1> DEFINE typed  == SetIncomingProtocol(f, server.type)
           named  == SetIncomingHostName(typed, server.hostname)
           ported == SetIncomingPort(named, Unsigned(server.port))
           owned  == SetIncomingUserName(ported, server.username)
           authed == SetIncomingAuthenticationProtocol(owned, server.authType)
           g      == SetIncomingSecurityProtocol(authed, server.socketType)
<1>1. Incoming(f, server) = g
  BY DEF Incoming, Described
<1>2. /\ IsForm(typed) /\ PageFields(typed) = PageFields(f)
      /\ typed.protocol = server.type /\ typed.security = f.security
  <2>1. CASE f.protocol = server.type
    BY <2>1 DEF SetIncomingProtocol
  <2>2. CASE f.protocol # server.type
    <3>1. /\ IsForm(typed) /\ PageFields(typed) = PageFields(f)
          /\ ServerFields(typed) =
                <<f.host, server.type, f.security, PortOf(server.type, "SSL")>>
      BY <2>2, ProtocolFact
    <3> QED
      BY <3>1 DEF ServerFields
  <2> QED
    BY <2>1, <2>2
<1> HIDE DEF typed
<1>3. /\ IsForm(named) /\ PageFields(named) = PageFields(f)
      /\ ServerFields(named) =
            <<server.hostname, server.type, f.security, typed.port>>
  BY <1>2, HostFact
<1> HIDE DEF named
<1>4. /\ IsForm(ported) /\ PageFields(ported) = PageFields(f)
      /\ ServerFields(ported) =
            <<server.hostname, server.type, f.security, Unsigned(server.port)>>
  BY <1>3, PortFact DEF ServerFields
<1> HIDE DEF ported
<1>5. /\ IsForm(owned) /\ PageFields(owned) = PageFields(f)
      /\ ServerFields(owned) = ServerFields(ported)
      /\ LoginFields(owned) = <<server.username, ported.auth>>
  BY <1>4, UserFact
<1> HIDE DEF owned
<1>6. /\ IsForm(authed) /\ PageFields(authed) = PageFields(f)
      /\ ServerFields(authed) =
            <<server.hostname, server.type, f.security, Unsigned(server.port)>>
      /\ LoginFields(authed) = <<server.username, server.authType>>
  BY <1>4, <1>5, AuthFact DEF LoginFields
<1> HIDE DEF authed
<1>7. /\ authed.host = server.hostname /\ authed.protocol = server.type
      /\ authed.security = f.security /\ authed.port = Unsigned(server.port)
  BY <1>6 DEF ServerFields
<1> QED
  BY <1>1, <1>6, <1>7, SecurityFact

\* createAutomaticAccount, outgoing server: the transport is that of the server,
\* with the port and the user name of the constructor and of setEmail where the
\* document has none, and there is none without a server.
LEMMA OutgoingFact ==
    ASSUME NEW f, IsForm(f), NEW s
    PROVE  LET g == Outgoing(f, {s})
               h == Outgoing(f, {})
           IN  /\ ServerFields(g) = ServerFields(f) /\ LoginFields(g) = LoginFields(f)
               /\ g.hasTransport = f.hasTransport
               /\ g.smtp.host = s.hostname
               /\ g.smtp.port = IF s.port > 0 THEN s.port ELSE f.smtp.port
               /\ g.smtp.user = IF s.username # Blank THEN s.username ELSE f.smtp.user
               /\ g.smtp.encryption = s.socketType
               /\ g.smtp.auth = s.authType
               /\ g.smtp.requiresAuth <=> s.username # Blank \/ f.smtp.requiresAuth
               /\ ServerFields(h) = ServerFields(f) /\ LoginFields(h) = LoginFields(f)
               /\ h.hasTransport = FALSE
<1>1. (CHOOSE e \in {s} : TRUE) = s
  OBVIOUS
<1> DEFINE t == [host |-> s.hostname,
                 port |-> IF s.port > 0 THEN s.port ELSE f.smtp.port,
                 user |-> IF s.username # Blank THEN s.username ELSE f.smtp.user,
                 encryption |-> s.socketType,
                 auth |-> s.authType,
                 requiresAuth |-> s.username # Blank \/ f.smtp.requiresAuth]
           g == [f EXCEPT !.smtp = t]
           h == [f EXCEPT !.hasTransport = FALSE]
<1>2. Outgoing(f, {s}) = g /\ Outgoing(f, {}) = h
  BY <1>1 DEF Outgoing, IsForm
<1>3. /\ t.host = s.hostname
      /\ t.port = IF s.port > 0 THEN s.port ELSE f.smtp.port
      /\ t.user = IF s.username # Blank THEN s.username ELSE f.smtp.user
      /\ t.encryption = s.socketType /\ t.auth = s.authType
  OBVIOUS
<1>4. t.requiresAuth <=> s.username # Blank \/ f.smtp.requiresAuth
  OBVIOUS
<1> HIDE DEF t
<1>5. /\ ServerFields(g) = ServerFields(f) /\ LoginFields(g) = LoginFields(f)
      /\ g.hasTransport = f.hasTransport /\ g.smtp = t
  BY DEF IsForm, ServerFields, LoginFields
<1>6. ServerFields(h) = ServerFields(f) /\ LoginFields(h) = LoginFields(f)
  BY DEF IsForm, ServerFields, LoginFields
<1>7. h.hasTransport = FALSE
  BY DEF IsForm
<1> QED
  BY <1>2, <1>3, <1>4, <1>5, <1>6, <1>7
=============================================================================
