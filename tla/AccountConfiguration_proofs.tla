-------------------- MODULE AccountConfiguration_proofs --------------------
(***************************************************************************)
(* The safety of the manual configuration page, for every set of servers,  *)
(* user names and ports: the flags stored beside the fields are current,   *)
(* the one test that runs is the one that is waited for, and what it found *)
(* is what the form says.                                                  *)
(***************************************************************************)
EXTENDS AccountConfiguration, AccountForm_proofs, FiniteSetTheorems

\* What Inv says of the form alone.
GoodForm(f) ==
    /\ f \in Forms
    /\ IsChecked(f)
    /\ f.hasDisconnectedMode <=> f.protocol = "IMAP"

GoodInv ==
    /\ GoodForm(form)
    /\ tests \in SUBSET Tests /\ saved \in SUBSET Forms
    /\ verdict \in SUBSET Verdicts /\ touched \in BOOLEAN /\ ownPort \in BOOLEAN
    /\ \A f \in saved : Blank \notin {f.user, f.host, f.smtp.host, f.smtp.user}
    /\ WaitsForItsTest /\ DetectionFitsTheForm /\ PortFitsTheEncryption
    /\ OneTest /\ UntouchedTest

-----------------------------------------------------------------------------
\* A form of the page has the fields of a form.
LEMMA FormsFact == \A f \in Forms : IsForm(f)
BY DEF Forms, Transports, IsForm, IsTransport

\* A record with typed fields is a transport of the page.
LEMMA TypedTransportFact ==
    ASSUME NEW t, IsTransport(t),
           t.host \in Hosts \cup {Blank}, t.user \in Users \cup {Blank},
           t.port \in SmtpPorts \cup {587}, t.encryption \in Encryptions,
           t.auth \in SmtpMechanisms, t.requiresAuth \in {FALSE}
    PROVE  t \in Transports
BY DEF Transports, IsTransport

\* QML writes a field of the transport of the page.
LEMMA WrittenTransportFact ==
    ASSUME NEW t \in Transports
    PROVE  /\ \A host \in Hosts \cup {Blank} : [t EXCEPT !.host = host] \in Transports
           /\ \A user \in Users \cup {Blank} : [t EXCEPT !.user = user] \in Transports
           /\ \A port \in SmtpPorts : [t EXCEPT !.port = port] \in Transports
           /\ \A security \in Encryptions :
                 [t EXCEPT !.encryption = security] \in Transports
           /\ \A auth \in SmtpMechanisms : [t EXCEPT !.auth = auth] \in Transports
<1>1. /\ IsTransport(t)
      /\ t.host \in Hosts \cup {Blank} /\ t.user \in Users \cup {Blank}
      /\ t.port \in SmtpPorts \cup {587} /\ t.encryption \in Encryptions
      /\ t.auth \in SmtpMechanisms /\ t.requiresAuth \in {FALSE}
  BY DEF Transports, IsTransport
<1>2. ASSUME NEW value \in Hosts \cup {Blank}
      PROVE  [t EXCEPT !.host = value] \in Transports
  <2> DEFINE u == [t EXCEPT !.host = value]
  <2>1. /\ IsTransport(u) /\ u.host = value
        /\ u.port = t.port /\ u.user = t.user /\ u.encryption = t.encryption
        /\ u.auth = t.auth /\ u.requiresAuth = t.requiresAuth
    BY <1>1 DEF IsTransport
  <2> HIDE DEF u
  <2>2. /\ u.host \in Hosts \cup {Blank} /\ u.user \in Users \cup {Blank}
        /\ u.port \in SmtpPorts \cup {587} /\ u.encryption \in Encryptions
        /\ u.auth \in SmtpMechanisms
    BY <1>1, <1>2, <2>1
  <2>3. u.requiresAuth \in {FALSE}
    BY <1>1, <2>1
  <2>4. u \in Transports
    BY <2>1, <2>2, <2>3, TypedTransportFact
  <2> QED
    BY <2>4 DEF u
<1>3. ASSUME NEW value \in Users \cup {Blank}
      PROVE  [t EXCEPT !.user = value] \in Transports
  <2> DEFINE u == [t EXCEPT !.user = value]
  <2>1. /\ IsTransport(u) /\ u.user = value
        /\ u.host = t.host /\ u.port = t.port /\ u.encryption = t.encryption
        /\ u.auth = t.auth /\ u.requiresAuth = t.requiresAuth
    BY <1>1 DEF IsTransport
  <2> HIDE DEF u
  <2>2. /\ u.host \in Hosts \cup {Blank} /\ u.user \in Users \cup {Blank}
        /\ u.port \in SmtpPorts \cup {587} /\ u.encryption \in Encryptions
        /\ u.auth \in SmtpMechanisms
    BY <1>1, <1>3, <2>1
  <2>3. u.requiresAuth \in {FALSE}
    BY <1>1, <2>1
  <2>4. u \in Transports
    BY <2>1, <2>2, <2>3, TypedTransportFact
  <2> QED
    BY <2>4 DEF u
<1>4. ASSUME NEW value \in SmtpPorts \cup {587}
      PROVE  [t EXCEPT !.port = value] \in Transports
  <2> DEFINE u == [t EXCEPT !.port = value]
  <2>1. /\ IsTransport(u) /\ u.port = value
        /\ u.host = t.host /\ u.user = t.user /\ u.encryption = t.encryption
        /\ u.auth = t.auth /\ u.requiresAuth = t.requiresAuth
    BY <1>1 DEF IsTransport
  <2> HIDE DEF u
  <2>2. /\ u.host \in Hosts \cup {Blank} /\ u.user \in Users \cup {Blank}
        /\ u.port \in SmtpPorts \cup {587} /\ u.encryption \in Encryptions
        /\ u.auth \in SmtpMechanisms
    BY <1>1, <1>4, <2>1
  <2>3. u.requiresAuth \in {FALSE}
    BY <1>1, <2>1
  <2>4. u \in Transports
    BY <2>1, <2>2, <2>3, TypedTransportFact
  <2> QED
    BY <2>4 DEF u
<1>5. ASSUME NEW value \in Encryptions
      PROVE  [t EXCEPT !.encryption = value] \in Transports
  <2> DEFINE u == [t EXCEPT !.encryption = value]
  <2>1. /\ IsTransport(u) /\ u.encryption = value
        /\ u.host = t.host /\ u.port = t.port /\ u.user = t.user
        /\ u.auth = t.auth /\ u.requiresAuth = t.requiresAuth
    BY <1>1 DEF IsTransport
  <2> HIDE DEF u
  <2>2. /\ u.host \in Hosts \cup {Blank} /\ u.user \in Users \cup {Blank}
        /\ u.port \in SmtpPorts \cup {587} /\ u.encryption \in Encryptions
        /\ u.auth \in SmtpMechanisms
    BY <1>1, <1>5, <2>1
  <2>3. u.requiresAuth \in {FALSE}
    BY <1>1, <2>1
  <2>4. u \in Transports
    BY <2>1, <2>2, <2>3, TypedTransportFact
  <2> QED
    BY <2>4 DEF u
<1>6. ASSUME NEW value \in SmtpMechanisms
      PROVE  [t EXCEPT !.auth = value] \in Transports
  <2> DEFINE u == [t EXCEPT !.auth = value]
  <2>1. /\ IsTransport(u) /\ u.auth = value
        /\ u.host = t.host /\ u.port = t.port /\ u.user = t.user
        /\ u.encryption = t.encryption /\ u.requiresAuth = t.requiresAuth
    BY <1>1 DEF IsTransport
  <2> HIDE DEF u
  <2>2. /\ u.host \in Hosts \cup {Blank} /\ u.user \in Users \cup {Blank}
        /\ u.port \in SmtpPorts \cup {587} /\ u.encryption \in Encryptions
        /\ u.auth \in SmtpMechanisms
    BY <1>1, <1>6, <2>1
  <2>3. u.requiresAuth \in {FALSE}
    BY <1>1, <2>1
  <2>4. u \in Transports
    BY <2>1, <2>2, <2>3, TypedTransportFact
  <2> QED
    BY <2>4 DEF u
<1> QED
  BY <1>2, <1>3, <1>4, <1>5, <1>6

\* The names stay when another field is written.
LEMMA SameNamesFact ==
    ASSUME NEW t \in Transports, NEW value
    PROVE  /\ [t EXCEPT !.encryption = value].host = t.host
           /\ [t EXCEPT !.encryption = value].user = t.user
           /\ [t EXCEPT !.auth = value].host = t.host
           /\ [t EXCEPT !.auth = value].user = t.user
BY DEF Transports

\* A record with typed fields is a form of the page.
LEMMA TypedFact ==
    ASSUME NEW g, IsForm(g), IsChecked(g),
           g.host \in Hosts \cup {Blank}, g.user \in Users \cup {Blank},
           g.protocol \in Protocols, g.security \in Encryptions,
           g.port \in Ports \cup DefaultPorts, g.auth \in Mechanisms,
           g.disconnected \in BOOLEAN, g.hasDisconnectedMode \in BOOLEAN,
           g.inProgress \in BOOLEAN, g.hasTransport \in {TRUE}, g.smtp \in Transports
    PROVE  g \in Forms
BY DEF Forms, IsForm, IsChecked

\* The ports the code sets are the defaults.
LEMMA PortOfFact ==
    ASSUME NEW protocol, NEW security
    PROVE  PortOf(protocol, security) \in DefaultPorts
BY DEF PortOf, DefaultPorts

-----------------------------------------------------------------------------
\* The handler of the host makes a good form of a good one and keeps protocol,
\* encryption and port.
LEMMA HostEditFact ==
    ASSUME NEW f, GoodForm(f), NEW host \in Hosts \cup {Blank}
    PROVE  LET g == SetIncomingHostName(f, host) IN
           /\ GoodForm(g) /\ g.inProgress = f.inProgress
           /\ <<g.protocol, g.security, g.port>> = <<f.protocol, f.security, f.port>>
<1> DEFINE g == SetIncomingHostName(f, host)
<1>1. /\ IsForm(g) /\ IsChecked(g)
      /\ ServerFields(g) = <<host, f.protocol, f.security, f.port>>
      /\ LoginFields(g) = LoginFields(f)
      /\ ModeFields(g) = ModeFields(f)
      /\ PageFields(g) = PageFields(f)
  BY FormsFact, HostFact DEF GoodForm
<1> HIDE DEF g
<1>2. g \in Forms
  BY <1>1, TypedFact
  DEF GoodForm, Forms, ServerFields, LoginFields, ModeFields, PageFields
<1>3. /\ g.inProgress = f.inProgress
      /\ g.hasDisconnectedMode = f.hasDisconnectedMode
      /\ <<g.protocol, g.security, g.port>> = <<f.protocol, f.security, f.port>>
  BY <1>1 DEF ServerFields, ModeFields, PageFields
<1>4. GoodForm(g)
  BY <1>1, <1>2, <1>3 DEF GoodForm
<1> QED
  BY <1>3, <1>4 DEF g

\* The handler of the user name keeps the server.
LEMMA UserEditFact ==
    ASSUME NEW f, GoodForm(f), NEW user \in Users \cup {Blank}
    PROVE  LET g == SetIncomingUserName(f, user) IN
           /\ GoodForm(g) /\ g.inProgress = f.inProgress
           /\ <<g.host, g.protocol, g.security, g.port>> = <<f.host, f.protocol, f.security, f.port>>
<1> DEFINE g == SetIncomingUserName(f, user)
<1>1. /\ IsForm(g) /\ IsChecked(g)
      /\ ServerFields(g) = ServerFields(f)
      /\ LoginFields(g) = <<user, f.auth>>
      /\ ModeFields(g) = ModeFields(f)
      /\ PageFields(g) = PageFields(f)
  BY FormsFact, UserFact DEF GoodForm
<1> HIDE DEF g
<1>2. g \in Forms
  BY <1>1, TypedFact
  DEF GoodForm, Forms, ServerFields, LoginFields, ModeFields, PageFields
<1>3. /\ g.inProgress = f.inProgress
      /\ g.hasDisconnectedMode = f.hasDisconnectedMode
      /\ <<g.host, g.protocol, g.security, g.port>> = <<f.host, f.protocol, f.security, f.port>>
  BY <1>1 DEF ServerFields, ModeFields, PageFields
<1>4. GoodForm(g)
  BY <1>1, <1>2, <1>3 DEF GoodForm
<1> QED
  BY <1>3, <1>4 DEF g

\* The handler of the port keeps host, protocol and encryption.
LEMMA PortEditFact ==
    ASSUME NEW f, GoodForm(f), NEW port \in Ports \cup DefaultPorts
    PROVE  LET g == SetIncomingPort(f, port) IN
           /\ GoodForm(g) /\ g.inProgress = f.inProgress
           /\ <<g.host, g.protocol, g.security>> = <<f.host, f.protocol, f.security>>
<1> DEFINE g == SetIncomingPort(f, port)
<1>1. /\ IsForm(g) /\ IsChecked(g)
      /\ ServerFields(g) = <<f.host, f.protocol, f.security, port>>
      /\ LoginFields(g) = LoginFields(f)
      /\ ModeFields(g) = ModeFields(f)
      /\ PageFields(g) = PageFields(f)
  BY FormsFact, PortFact DEF GoodForm
<1> HIDE DEF g
<1>2. g \in Forms
  BY <1>1, TypedFact
  DEF GoodForm, Forms, ServerFields, LoginFields, ModeFields, PageFields
<1>3. /\ g.inProgress = f.inProgress
      /\ g.hasDisconnectedMode = f.hasDisconnectedMode
      /\ <<g.host, g.protocol, g.security>> = <<f.host, f.protocol, f.security>>
  BY <1>1 DEF ServerFields, ModeFields, PageFields
<1>4. GoodForm(g)
  BY <1>1, <1>2, <1>3 DEF GoodForm
<1> QED
  BY <1>3, <1>4 DEF g

\* The handler of the mechanism keeps the server.
LEMMA AuthEditFact ==
    ASSUME NEW f, GoodForm(f), NEW auth \in Mechanisms
    PROVE  LET g == SetIncomingAuthenticationProtocol(f, auth) IN
           /\ GoodForm(g) /\ g.inProgress = f.inProgress
           /\ <<g.host, g.protocol, g.security, g.port>> = <<f.host, f.protocol, f.security, f.port>>
<1> DEFINE g == SetIncomingAuthenticationProtocol(f, auth)
<1>1. /\ IsForm(g) /\ IsChecked(g)
      /\ ServerFields(g) = ServerFields(f)
      /\ LoginFields(g) = <<f.user, auth>>
      /\ ModeFields(g) = ModeFields(f)
      /\ PageFields(g) = PageFields(f)
  BY FormsFact, AuthFact DEF GoodForm
<1> HIDE DEF g
<1>2. g \in Forms
  BY <1>1, TypedFact
  DEF GoodForm, Forms, ServerFields, LoginFields, ModeFields, PageFields
<1>3. /\ g.inProgress = f.inProgress
      /\ g.hasDisconnectedMode = f.hasDisconnectedMode
      /\ <<g.host, g.protocol, g.security, g.port>> = <<f.host, f.protocol, f.security, f.port>>
  BY <1>1 DEF ServerFields, ModeFields, PageFields
<1>4. GoodForm(g)
  BY <1>1, <1>2, <1>3 DEF GoodForm
<1> QED
  BY <1>3, <1>4 DEF g

\* The handler of the mode keeps the server.
LEMMA DisconnectedEditFact ==
    ASSUME NEW f, GoodForm(f), NEW enabled \in BOOLEAN
    PROVE  LET g == SetDisconnectedModeEnabled(f, enabled) IN
           /\ GoodForm(g) /\ g.inProgress = f.inProgress
           /\ <<g.host, g.protocol, g.security, g.port>> = <<f.host, f.protocol, f.security, f.port>>
<1> DEFINE g == SetDisconnectedModeEnabled(f, enabled)
<1>1. /\ IsForm(g) /\ IsChecked(g)
      /\ ServerFields(g) = ServerFields(f)
      /\ LoginFields(g) = LoginFields(f)
      /\ ModeFields(g) = <<enabled, f.hasDisconnectedMode>>
      /\ PageFields(g) = PageFields(f)
  BY FormsFact, DisconnectedFact DEF GoodForm
<1> HIDE DEF g
<1>2. g \in Forms
  BY <1>1, TypedFact
  DEF GoodForm, Forms, ServerFields, LoginFields, ModeFields, PageFields
<1>3. /\ g.inProgress = f.inProgress
      /\ g.hasDisconnectedMode = f.hasDisconnectedMode
      /\ <<g.host, g.protocol, g.security, g.port>> = <<f.host, f.protocol, f.security, f.port>>
  BY <1>1 DEF ServerFields, ModeFields, PageFields
<1>4. GoodForm(g)
  BY <1>1, <1>2, <1>3 DEF GoodForm
<1> QED
  BY <1>3, <1>4 DEF g

\* The handler of the encryption makes the port its default.
LEMMA SecurityEditFact ==
    ASSUME NEW f, GoodForm(f), NEW security \in Encryptions, f.security # security
    PROVE  LET g == SetIncomingSecurityProtocol(f, security) IN
           /\ GoodForm(g) /\ g.inProgress = f.inProgress
           /\ <<g.host, g.protocol, g.security, g.port>> =
                 <<f.host, f.protocol, security, PortOf(f.protocol, security)>>
<1> DEFINE g == SetIncomingSecurityProtocol(f, security)
<1>1. /\ IsForm(g) /\ IsChecked(g)
      /\ ServerFields(g) =
            <<f.host, f.protocol, security, PortOf(f.protocol, security)>>
      /\ LoginFields(g) = LoginFields(f) /\ ModeFields(g) = ModeFields(f)
      /\ PageFields(g) = PageFields(f)
  BY FormsFact, SecurityFact DEF GoodForm
<1> HIDE DEF g
<1>2. g \in Forms
  <2>1. /\ g.host = f.host /\ g.protocol = f.protocol /\ g.security = security
        /\ g.port \in Ports \cup DefaultPorts
    BY <1>1, PortOfFact DEF ServerFields
  <2> QED
    BY <1>1, <2>1, TypedFact DEF GoodForm, Forms, LoginFields, ModeFields, PageFields
<1>3. /\ g.inProgress = f.inProgress
      /\ g.hasDisconnectedMode = f.hasDisconnectedMode
      /\ <<g.host, g.protocol, g.security, g.port>> =
            <<f.host, f.protocol, security, PortOf(f.protocol, security)>>
  BY <1>1 DEF ServerFields, ModeFields, PageFields
<1>4. GoodForm(g)
  BY <1>1, <1>2, <1>3 DEF GoodForm
<1> QED
  BY <1>3, <1>4 DEF g

\* The handler of the protocol makes the port the default of SSL.
LEMMA ProtocolEditFact ==
    ASSUME NEW f, GoodForm(f), NEW protocol \in Protocols, f.protocol # protocol
    PROVE  LET g == SetIncomingProtocol(f, protocol) IN
           /\ GoodForm(g) /\ g.inProgress = f.inProgress
           /\ <<g.host, g.protocol, g.security, g.port>> =
                 <<f.host, protocol, f.security, PortOf(protocol, "SSL")>>
<1> DEFINE g == SetIncomingProtocol(f, protocol)
<1>1. /\ IsForm(g) /\ IsChecked(g)
      /\ ServerFields(g) = <<f.host, protocol, f.security, PortOf(protocol, "SSL")>>
      /\ LoginFields(g) = LoginFields(f)
      /\ ModeFields(g) = <<f.disconnected, protocol = "IMAP">>
      /\ PageFields(g) = PageFields(f)
  BY FormsFact, ProtocolFact DEF GoodForm
<1> HIDE DEF g
<1>2. g.hasDisconnectedMode = (protocol = "IMAP")
  BY <1>1 DEF ModeFields
<1>3. g.hasDisconnectedMode \in BOOLEAN /\ g.protocol = protocol
  BY <1>1, <1>2 DEF ServerFields
<1>4. /\ g.disconnected = f.disconnected
      /\ g.inProgress = f.inProgress
      /\ <<g.host, g.protocol, g.security, g.port>> =
            <<f.host, protocol, f.security, PortOf(protocol, "SSL")>>
  BY <1>1 DEF ServerFields, ModeFields, PageFields
<1>5. g \in Forms
  <2>1. /\ g.host = f.host /\ g.security = f.security
        /\ g.port \in Ports \cup DefaultPorts
    BY <1>1, PortOfFact DEF ServerFields
  <2> QED
    BY <1>1, <1>3, <1>4, <2>1, TypedFact DEF GoodForm, Forms, LoginFields, PageFields
<1>6. GoodForm(g)
  BY <1>1, <1>2, <1>3, <1>5 DEF GoodForm
<1> QED
  BY <1>4, <1>6 DEF g

\* QML's own writes to the transport keep the server; without the check the names
\* have to stay.
LEMMA SmtpEditFact ==
    ASSUME NEW f, GoodForm(f), NEW t \in Transports
    PROVE  LET g == [f EXCEPT !.smtp = t]
               h == CheckConfiguration(g)
           IN  /\ GoodForm(h) /\ h.inProgress = f.inProgress
               /\ <<h.host, h.protocol, h.security, h.port>> =
                     <<f.host, f.protocol, f.security, f.port>>
               /\ t.host = f.smtp.host /\ t.user = f.smtp.user =>
                     /\ GoodForm(g) /\ g.inProgress = f.inProgress
                     /\ <<g.host, g.protocol, g.security, g.port>> =
                           <<f.host, f.protocol, f.security, f.port>>
<1> DEFINE g == [f EXCEPT !.smtp = t]
           h == CheckConfiguration(g)
<1>1. IsForm(f) /\ IsTransport(t)
  BY FormsFact DEF GoodForm, Transports, IsTransport
<1>2. /\ IsForm(g)
      /\ t.host = f.smtp.host /\ t.user = f.smtp.user => IsChecked(g)
      /\ ServerFields(g) = ServerFields(f) /\ LoginFields(g) = LoginFields(f)
      /\ ModeFields(g) = ModeFields(f)
      /\ PageFields(g) = <<f.inProgress, f.hasTransport, t>>
  BY <1>1, SmtpFact DEF GoodForm
<1> HIDE DEF g
<1>3. /\ IsForm(h) /\ IsChecked(h)
      /\ ServerFields(h) = ServerFields(f) /\ LoginFields(h) = LoginFields(f)
      /\ ModeFields(h) = ModeFields(f)
      /\ PageFields(h) = <<f.inProgress, f.hasTransport, t>>
  BY <1>2, CheckFact
<1> HIDE DEF h
<1>4. ASSUME NEW e, IsForm(e), IsChecked(e),
             ServerFields(e) = ServerFields(f), LoginFields(e) = LoginFields(f),
             ModeFields(e) = ModeFields(f),
             PageFields(e) = <<f.inProgress, f.hasTransport, t>>
      PROVE  /\ GoodForm(e) /\ e.inProgress = f.inProgress
             /\ <<e.host, e.protocol, e.security, e.port>> =
                   <<f.host, f.protocol, f.security, f.port>>
  <2>1. e \in Forms
    BY <1>4, TypedFact
    DEF GoodForm, Forms, ServerFields, LoginFields, ModeFields, PageFields
  <2>2. /\ e.inProgress = f.inProgress
        /\ e.hasDisconnectedMode = f.hasDisconnectedMode
        /\ <<e.host, e.protocol, e.security, e.port>> =
              <<f.host, f.protocol, f.security, f.port>>
    BY <1>4 DEF ServerFields, ModeFields, PageFields
  <2> QED
    BY <1>4, <2>1, <2>2 DEF GoodForm
<1> QED
  BY <1>2, <1>3, <1>4 DEF g, h

\* The form of a new page is a good one that waits for nothing.
LEMMA NewPageEditFact ==
    ASSUME NEW host \in Hosts, NEW user \in Users
    PROVE  LET g == NewPage(user, host) IN
           /\ GoodForm(g) /\ g.inProgress = FALSE
           /\ g.port = PortOf(g.protocol, g.security)
<1> DEFINE g == NewPage(user, host)
<1>1. /\ IsForm(g) /\ IsChecked(g)
      /\ ServerFields(g) = <<host, Fresh.protocol, Fresh.security, Fresh.port>>
      /\ LoginFields(g) = <<user, Fresh.auth>>
      /\ ModeFields(g) = ModeFields(Fresh)
      /\ PageFields(g) =
            <<Fresh.inProgress, Fresh.hasTransport,
              [FreshTransport EXCEPT !.host = host, !.user = user]>>
  BY NewPageFact
<1> HIDE DEF g
<1>2. /\ Fresh.protocol = "IMAP" /\ Fresh.security = "SSL" /\ Fresh.port = 993
      /\ Fresh.auth = "LOGIN"
  BY DEF Fresh
<1>3. Fresh.disconnected /\ Fresh.hasDisconnectedMode /\ Fresh.hasTransport
  BY DEF Fresh
<1>4. /\ Fresh.disconnected \in BOOLEAN /\ Fresh.hasDisconnectedMode \in BOOLEAN
      /\ Fresh.inProgress \in BOOLEAN /\ Fresh.hasTransport \in {TRUE}
  BY DEF Fresh
<1>5. Fresh.inProgress = FALSE
  BY DEF Fresh
<1>6. [FreshTransport EXCEPT !.host = host, !.user = user] \in Transports
  BY DEF FreshTransport, Transports, Encryptions, SmtpMechanisms
<1>7. /\ g.host = host /\ g.protocol = "IMAP" /\ g.security = "SSL" /\ g.port = 993
      /\ g.user = user /\ g.auth = "LOGIN"
      /\ g.disconnected = Fresh.disconnected
      /\ g.hasDisconnectedMode = Fresh.hasDisconnectedMode
      /\ g.inProgress = Fresh.inProgress /\ g.hasTransport = Fresh.hasTransport
      /\ g.smtp \in Transports
  BY <1>1, <1>2, <1>6 DEF ServerFields, LoginFields, ModeFields, PageFields
<1>8. g \in Forms
  <2>1. /\ g.disconnected \in BOOLEAN /\ g.hasDisconnectedMode \in BOOLEAN
        /\ g.inProgress \in BOOLEAN /\ g.hasTransport \in {TRUE}
    BY <1>4, <1>7
  <2>2. /\ g.protocol \in Protocols /\ g.security \in Encryptions
        /\ g.port \in Ports \cup DefaultPorts /\ g.auth \in Mechanisms
    BY <1>7 DEF Protocols, Encryptions, DefaultPorts, Mechanisms
  <2> QED
    BY <1>1, <1>7, <2>1, <2>2, TypedFact
<1>9. GoodForm(g)
  BY <1>1, <1>3, <1>7, <1>8 DEF GoodForm
<1> QED
  BY <1>5, <1>7, <1>9 DEF g, PortOf

\* What the end of a test leaves: only encryption and port may be others.
LEMMA EndedFact ==
    ASSUME NEW f, GoodForm(f), NEW g, IsForm(g), IsChecked(g),
           NEW security \in Encryptions, NEW port \in Ports \cup DefaultPorts,
           ServerFields(g) = <<f.host, f.protocol, security, port>>,
           LoginFields(g) = LoginFields(f), ModeFields(g) = ModeFields(f),
           PageFields(g) = <<FALSE, f.hasTransport, f.smtp>>
    PROVE  /\ GoodForm(g) /\ g.inProgress = FALSE
           /\ <<g.host, g.protocol, g.security, g.port>> =
                 <<f.host, f.protocol, security, port>>
<1>1. g.inProgress = FALSE /\ g.hasTransport = f.hasTransport /\ g.smtp = f.smtp
  BY DEF PageFields
<1>2. g.inProgress \in BOOLEAN
  BY <1>1
<1>3. g \in Forms
  BY <1>1, <1>2, TypedFact
  DEF GoodForm, Forms, ServerFields, LoginFields, ModeFields
<1>4. /\ g.hasDisconnectedMode = f.hasDisconnectedMode
      /\ <<g.host, g.protocol, g.security, g.port>> =
            <<f.host, f.protocol, security, port>>
  BY DEF ServerFields, ModeFields
<1> QED
  BY <1>1, <1>3, <1>4 DEF GoodForm

\* A test that succeeded makes a good form of a good one, and the port fits.
LEMMA ResultEditFact ==
    ASSUME NEW f, GoodForm(f), NEW security \in Encryptions
    PROVE  LET g == SlotTestResult(f, security) IN
           /\ GoodForm(g) /\ g.inProgress = FALSE
           /\ <<g.host, g.protocol, g.security, g.port>> =
                 <<f.host, f.protocol, security, PortOf(f.protocol, security)>>
<1>1. IsForm(f) /\ IsChecked(f)
  BY FormsFact DEF GoodForm
<1>2. PortOf(f.protocol, security) \in Ports \cup DefaultPorts
  BY PortOfFact
<1> DEFINE g == SlotTestResult(f, security)
<1>3. /\ IsForm(g) /\ IsChecked(g)
      /\ ServerFields(g) =
            <<f.host, f.protocol, security, PortOf(f.protocol, security)>>
      /\ LoginFields(g) = LoginFields(f) /\ ModeFields(g) = ModeFields(f)
      /\ PageFields(g) = <<FALSE, f.hasTransport, f.smtp>>
  BY <1>1, TestResultFact
<1> HIDE DEF g
<1>4. /\ GoodForm(g) /\ g.inProgress = FALSE
      /\ <<g.host, g.protocol, g.security, g.port>> =
            <<f.host, f.protocol, security, PortOf(f.protocol, security)>>
  BY <1>2, <1>3, EndedFact
<1> QED
  BY <1>4 DEF g

\* A test that failed makes a good form of a good one and keeps the server.
LEMMA FailEditFact ==
    ASSUME NEW f, GoodForm(f)
    PROVE  LET g == SlotTestFail(f) IN
           /\ GoodForm(g) /\ g.inProgress = FALSE
           /\ <<g.host, g.protocol, g.security, g.port>> =
                 <<f.host, f.protocol, f.security, f.port>>
<1>1. IsForm(f) /\ IsChecked(f)
  BY FormsFact DEF GoodForm
<1>2. f.security \in Encryptions /\ f.port \in Ports \cup DefaultPorts
  BY DEF GoodForm, Forms
<1> QED
  BY <1>1, <1>2, TestFailFact, EndedFact DEF ServerFields

-----------------------------------------------------------------------------
\* The flags of a good form are current, and the other way round.
LEMMA GoodFormFact == Inv <=> GoodInv
<1>1. form \in Forms => form.valid \in BOOLEAN
  BY DEF Forms
<1> QED
  BY <1>1 DEF Inv, TypeOK, FlagsAreCurrent, GoodForm, GoodInv, IsChecked, Complete

\* The same of the next state.
LEMMA GoodFormStepFact == Inv' <=> GoodInv'
BY GoodFormFact, PTL

\* The page begins with the invariant.
THEOREM Init_Inv == Init => Inv
<1> SUFFICES ASSUME Init PROVE Inv
  OBVIOUS
<1>1. PICK host \in Hosts, user \in Users : form = NewPage(user, host)
  BY DEF Init
<1>2. /\ GoodForm(form) /\ form.inProgress = FALSE
      /\ form.port = PortOf(form.protocol, form.security)
  BY <1>1, NewPageEditFact
<1>3. /\ tests = {} /\ saved = {} /\ verdict = {} /\ touched = FALSE /\ ownPort = FALSE
  BY DEF Init
<1>4. WaitsForItsTest
  BY <1>2, <1>3, FS_EmptySet DEF WaitsForItsTest
<1> QED
  BY <1>2, <1>3, <1>4, GoodFormFact
  DEF GoodInv, DetectionFitsTheForm, PortFitsTheEncryption, OneTest, UntouchedTest

\* An edit that waits as before and keeps the host, or says that it does not.
LEMMA EditFact ==
    ASSUME Inv, NEW g, Edit(g), GoodForm(g), g.inProgress = form.inProgress,
           touched' \/ (touched' = touched /\ g.host = form.host),
           touched' \in BOOLEAN, ownPort' \in BOOLEAN, verdict' \in SUBSET Verdicts,
           DetectionFitsTheForm', PortFitsTheEncryption'
    PROVE  Inv'
<1>1. /\ form' = g /\ tests' = tests /\ saved' = saved
  BY DEF Edit
<1>2. GoodForm(form')
  BY <1>1
<1>3. WaitsForItsTest' /\ OneTest' /\ UntouchedTest'
  BY <1>1 DEF Inv, WaitsForItsTest, OneTest, UntouchedTest
<1> QED
  BY <1>1, <1>2, <1>3, GoodFormFact, GoodFormStepFact DEF GoodInv

\* An edit of a field no test looks at or sets.
LEMMA UntestedFact ==
    ASSUME Inv, NEW g, EditUntested(g), GoodForm(g), g.inProgress = form.inProgress,
           <<g.host, g.protocol, g.security, g.port>> =
              <<form.host, form.protocol, form.security, form.port>>
    PROVE  Inv'
<1>1. Edit(g) /\ form' = g /\ UNCHANGED <<verdict, touched, ownPort>>
  BY DEF EditUntested, Edit
<1>2. g.host = form.host /\ g.protocol = form.protocol /\ g.security = form.security
      /\ g.port = form.port
  OBVIOUS
<1>3. DetectionFitsTheForm' /\ PortFitsTheEncryption'
  BY <1>1, <1>2 DEF Inv, DetectionFitsTheForm, PortFitsTheEncryption
<1> QED
  BY <1>1, <1>2, <1>3, EditFact DEF Inv, TypeOK

-----------------------------------------------------------------------------
\* The host: what was found of the old one is forgotten.
THEOREM EditHost_Inv ==
    ASSUME Inv, NEW host \in Hosts \cup {Blank}, EditHost(host)
    PROVE  Inv'
<1> DEFINE g == SetIncomingHostName(form, host)
<1>1. Edit(g) /\ form' = g /\ verdict' = {} /\ touched' = TRUE /\ ownPort' = ownPort
  BY DEF EditHost, Edit
<1>2. /\ GoodForm(g) /\ g.inProgress = form.inProgress
      /\ <<g.protocol, g.security, g.port>> = <<form.protocol, form.security, form.port>>
  BY GoodFormFact, HostEditFact DEF GoodInv
<1> HIDE DEF g
<1>3. DetectionFitsTheForm' /\ PortFitsTheEncryption'
  BY <1>1, <1>2 DEF Inv, DetectionFitsTheForm, PortFitsTheEncryption
<1> QED
  BY <1>1, <1>2, <1>3, EditFact DEF Inv, TypeOK

\* The protocol: the port becomes that of SSL, which does not fit another
\* encryption.
THEOREM EditProtocol_Inv ==
    ASSUME Inv, NEW protocol \in Protocols, EditProtocol(protocol)
    PROVE  Inv'
<1> DEFINE g == SetIncomingProtocol(form, protocol)
<1>1. /\ Edit(g) /\ form' = g /\ g # form /\ verdict' = {} /\ touched' = TRUE
      /\ ownPort' = (form.security # "SSL")
  BY DEF EditProtocol, Edit
<1>2. form.protocol # protocol
  BY <1>1 DEF SetIncomingProtocol
<1>3. /\ GoodForm(g) /\ g.inProgress = form.inProgress
      /\ <<g.host, g.protocol, g.security, g.port>> =
            <<form.host, protocol, form.security, PortOf(protocol, "SSL")>>
  BY <1>2, GoodFormFact, ProtocolEditFact DEF GoodInv
<1> HIDE DEF g
<1>4. DetectionFitsTheForm' /\ PortFitsTheEncryption'
  BY <1>1, <1>3 DEF DetectionFitsTheForm, PortFitsTheEncryption
<1>5. ownPort' \in BOOLEAN
  BY <1>1
<1> QED
  BY <1>1, <1>3, <1>4, <1>5, EditFact

\* The encryption: the port becomes its default.
THEOREM EditSecurity_Inv ==
    ASSUME Inv, NEW security \in Encryptions, EditSecurity(security)
    PROVE  Inv'
<1> DEFINE g == SetIncomingSecurityProtocol(form, security)
<1>1. /\ Edit(g) /\ form' = g /\ g # form /\ verdict' = {} /\ touched' = touched
      /\ ownPort' = FALSE
  BY DEF EditSecurity, Edit
<1>2. form.security # security
  BY <1>1 DEF SetIncomingSecurityProtocol
<1>3. /\ GoodForm(g) /\ g.inProgress = form.inProgress
      /\ <<g.host, g.protocol, g.security, g.port>> =
            <<form.host, form.protocol, security, PortOf(form.protocol, security)>>
  BY <1>2, GoodFormFact, SecurityEditFact DEF GoodInv
<1> HIDE DEF g
<1>4. DetectionFitsTheForm' /\ PortFitsTheEncryption'
  BY <1>1, <1>3 DEF DetectionFitsTheForm, PortFitsTheEncryption
<1> QED
  BY <1>1, <1>3, <1>4, EditFact DEF Inv, TypeOK

\* The port: it is the user's own from now on.
THEOREM EditPort_Inv ==
    ASSUME Inv, NEW port \in Ports, EditPort(port)
    PROVE  Inv'
<1> DEFINE g == SetIncomingPort(form, port)
<1>1. /\ Edit(g) /\ form' = g /\ verdict' = {} /\ touched' = touched /\ ownPort' = TRUE
  BY DEF EditPort, Edit
<1>2. /\ GoodForm(g) /\ g.inProgress = form.inProgress
      /\ <<g.host, g.protocol, g.security>> = <<form.host, form.protocol, form.security>>
  BY GoodFormFact, PortEditFact DEF GoodInv
<1> HIDE DEF g
<1>3. DetectionFitsTheForm' /\ PortFitsTheEncryption'
  BY <1>1 DEF DetectionFitsTheForm, PortFitsTheEncryption
<1> QED
  BY <1>1, <1>2, <1>3, EditFact DEF Inv, TypeOK

\* User name, mechanism and offline mode.
THEOREM EditLogin_Inv ==
    ASSUME Inv,
           \/ \E user \in Users \cup {Blank} : EditUserName(user)
           \/ \E auth \in Mechanisms : EditAuthentication(auth)
           \/ \E enabled \in BOOLEAN : EditDisconnectedMode(enabled)
    PROVE  Inv'
<1>1. ASSUME NEW user \in Users \cup {Blank}, EditUserName(user) PROVE Inv'
  BY <1>1, GoodFormFact, UserEditFact, UntestedFact DEF EditUserName, GoodInv
<1>2. ASSUME NEW auth \in Mechanisms, EditAuthentication(auth) PROVE Inv'
  BY <1>2, GoodFormFact, AuthEditFact, UntestedFact DEF EditAuthentication, GoodInv
<1>3. ASSUME NEW enabled \in BOOLEAN, EditDisconnectedMode(enabled) PROVE Inv'
  BY <1>3, GoodFormFact, DisconnectedEditFact, UntestedFact
  DEF EditDisconnectedMode, GoodInv
<1> QED
  BY <1>1, <1>2, <1>3

\* The fields of the transport: the two names are checked, the port is too, and
\* what is not checked makes no form incomplete.
THEOREM EditOutgoing_Inv == ASSUME Inv, EditOutgoing PROVE Inv'
<1>1. GoodForm(form) /\ form.smtp \in Transports
  BY GoodFormFact DEF GoodInv, GoodForm, Forms
<1>2. ASSUME NEW host \in Hosts \cup {Blank}, EditSmtpHost(host) PROVE Inv'
  <2> DEFINE t == [form.smtp EXCEPT !.host = host]
  <2>1. t \in Transports
    BY <1>1, WrittenTransportFact
  <2>2. [form EXCEPT !.smtp.host = host] = [form EXCEPT !.smtp = t]
    BY <1>1 DEF GoodForm, Forms
  <2> QED
    BY <1>1, <1>2, <2>1, <2>2, SmtpEditFact, UntestedFact DEF EditSmtpHost
<1>3. ASSUME NEW user \in Users \cup {Blank}, EditSmtpUserName(user) PROVE Inv'
  <2> DEFINE t == [form.smtp EXCEPT !.user = user]
  <2>1. t \in Transports
    BY <1>1, WrittenTransportFact
  <2>2. [form EXCEPT !.smtp.user = user] = [form EXCEPT !.smtp = t]
    BY <1>1 DEF GoodForm, Forms
  <2> QED
    BY <1>1, <1>3, <2>1, <2>2, SmtpEditFact, UntestedFact DEF EditSmtpUserName
<1>4. ASSUME NEW port \in SmtpPorts, EditSmtpPort(port) PROVE Inv'
  <2> DEFINE t == [form.smtp EXCEPT !.port = port]
  <2>1. t \in Transports
    BY <1>1, WrittenTransportFact
  <2>2. [form EXCEPT !.smtp.port = port] = [form EXCEPT !.smtp = t]
    BY <1>1 DEF GoodForm, Forms
  <2> QED
    BY <1>1, <1>4, <2>1, <2>2, SmtpEditFact, UntestedFact DEF EditSmtpPort
<1>5. ASSUME NEW security \in Encryptions, EditSmtpSecurity(security) PROVE Inv'
  <2> DEFINE t == [form.smtp EXCEPT !.encryption = security]
  <2>1. t \in Transports
    BY <1>1, WrittenTransportFact
  <2>3. t.host = form.smtp.host /\ t.user = form.smtp.user
    BY <1>1, SameNamesFact
  <2>2. [form EXCEPT !.smtp.encryption = security] = [form EXCEPT !.smtp = t]
    BY <1>1 DEF GoodForm, Forms
  <2> QED
    BY <1>1, <1>5, <2>1, <2>2, <2>3, SmtpEditFact, UntestedFact DEF EditSmtpSecurity
<1>6. ASSUME NEW auth \in SmtpMechanisms, EditSmtpAuthentication(auth) PROVE Inv'
  <2> DEFINE t == [form.smtp EXCEPT !.auth = auth]
  <2>1. t \in Transports
    BY <1>1, WrittenTransportFact
  <2>3. t.host = form.smtp.host /\ t.user = form.smtp.user
    BY <1>1, SameNamesFact
  <2>2. [form EXCEPT !.smtp.auth = auth] = [form EXCEPT !.smtp = t]
    BY <1>1 DEF GoodForm, Forms
  <2> QED
    BY <1>1, <1>6, <2>1, <2>2, <2>3, SmtpEditFact, UntestedFact
    DEF EditSmtpAuthentication
<1> QED
  BY <1>2, <1>3, <1>4, <1>5, <1>6 DEF EditOutgoing

-----------------------------------------------------------------------------
\* "Recheck": no test is running, so the new one is the only one.
THEOREM CheckServer_Inv == ASSUME Inv, CheckServer PROVE Inv'
<1> DEFINE test == [host |-> form.host,
                    protocol |-> IF form.protocol = "POP3" THEN "pop" ELSE "imap"]
<1>1. /\ form.valid /\ ~form.inProgress
      /\ form' = [form EXCEPT !.inProgress = TRUE]
      /\ tests' = tests \cup {test} /\ verdict' = {} /\ touched' = FALSE
      /\ UNCHANGED <<saved, ownPort>>
  BY DEF CheckServer, CanCheck
<1>2. tests = {} /\ tests' = {test}
  BY <1>1 DEF Inv, WaitsForItsTest
<1>3. test \in Tests
  <2>1. form.host \in Hosts
    BY <1>1 DEF Inv, TypeOK, Forms, FlagsAreCurrent
  <2> QED
    BY <2>1 DEF Tests
<1>4. form' \in Forms /\ form'.inProgress
  BY <1>1 DEF Inv, TypeOK, Forms
<1>5. /\ form'.host = form.host /\ form'.user = form.user /\ form'.smtp = form.smtp
      /\ form'.protocol = form.protocol /\ form'.security = form.security
      /\ form'.port = form.port /\ form'.valid = form.valid
      /\ form'.hasDisconnectedMode = form.hasDisconnectedMode
  BY <1>1 DEF Inv, TypeOK, Forms
<1>6. TypeOK' /\ FlagsAreCurrent'
  BY <1>1, <1>2, <1>3, <1>4, <1>5 DEF Inv, TypeOK, FlagsAreCurrent
<1>7. UntouchedTest'
  BY <1>2, <1>5 DEF UntouchedTest
<1> HIDE DEF test
<1>8. WaitsForItsTest'
  <2>1. Cardinality({test}) = 1
    BY FS_Singleton
  <2> QED
    BY <1>2, <1>4, <2>1 DEF WaitsForItsTest
<1> QED
  BY <1>1, <1>2, <1>5, <1>6, <1>7, <1>8
  DEF Inv, DetectionFitsTheForm, PortFitsTheEncryption, OneTest

\* What testFinished makes of the offered encryptions is one of them.
LEMMA PreferredFact ==
    ASSUME NEW offered \in SUBSET Encryptions, ~(offered \subseteq {"None"})
    PROVE  Preferred(offered) \in offered
BY DEF Preferred, Encryptions

\* The result of the one test: it is still the form's host that was tested, if
\* the user left it alone, though protocol and encryption may be others by now.
THEOREM TestFinished_Inv ==
    ASSUME Inv, NEW test \in tests, NEW offered \in SUBSET Encryptions,
           TestFinished(test, offered)
    PROVE  Inv'
<1>1. tests' = {} /\ UNCHANGED <<saved, touched>>
  BY DEF TestFinished, Inv, OneTest
<1>2. WaitsForItsTest' <=> ~form'.inProgress
  BY <1>1, FS_EmptySet DEF WaitsForItsTest
<1>3. OneTest' /\ UntouchedTest' /\ GoodForm(form)
  BY <1>1, GoodFormFact DEF OneTest, UntouchedTest, GoodInv
<1>4. CASE offered \subseteq {"None"}
  <2> DEFINE g == SlotTestFail(form)
  <2>1. form' = g /\ verdict' = {} /\ ownPort' = ownPort
    BY <1>4 DEF TestFinished
  <2>2. /\ GoodForm(g) /\ g.inProgress = FALSE
        /\ <<g.host, g.protocol, g.security, g.port>> =
              <<form.host, form.protocol, form.security, form.port>>
    BY <1>3, FailEditFact
  <2> HIDE DEF g
  <2>3. DetectionFitsTheForm' /\ PortFitsTheEncryption'
    BY <2>1, <2>2 DEF Inv, DetectionFitsTheForm, PortFitsTheEncryption
  <2>4. GoodForm(form') /\ WaitsForItsTest'
    BY <1>2, <2>1, <2>2
  <2> QED
    BY <1>1, <1>3, <2>1, <2>3, <2>4, GoodFormFact, GoodFormStepFact DEF GoodInv
<1>5. CASE ~(offered \subseteq {"None"})
  <2> DEFINE found == Preferred(offered)
             g == SlotTestResult(form, found)
             v == [test |-> test, offered |-> offered]
  <2>1. form' = g /\ verdict' = {v} /\ ownPort' = FALSE
    BY <1>5 DEF TestFinished
  <2>2. found \in offered /\ found \in Encryptions
    BY <1>5, PreferredFact
  <2> HIDE DEF found
  <2>3. /\ GoodForm(g) /\ g.inProgress = FALSE
        /\ <<g.host, g.protocol, g.security, g.port>> =
              <<form.host, form.protocol, found, PortOf(form.protocol, found)>>
    BY <1>3, <2>2, ResultEditFact
  <2> HIDE DEF g
  <2>4. ~touched => test.host = form.host
    BY DEF Inv, UntouchedTest
  <2>5. v \in Verdicts /\ v.test = test /\ v.offered = offered
    BY DEF Verdicts, Inv, TypeOK
  <2> HIDE DEF v
  <2>6. DetectionFitsTheForm' /\ PortFitsTheEncryption'
    BY <1>1, <2>1, <2>2, <2>3, <2>4, <2>5
    DEF DetectionFitsTheForm, PortFitsTheEncryption
  <2>7. GoodForm(form') /\ WaitsForItsTest'
    BY <1>2, <2>1, <2>3
  <2> QED
    BY <1>1, <1>3, <2>1, <2>5, <2>6, <2>7, GoodFormFact, GoodFormStepFact DEF GoodInv
<1> QED
  BY <1>4, <1>5

\* "Create Account" keeps the form, which is complete.
THEOREM Save_Inv == ASSUME Inv, Save PROVE Inv'
<1>1. /\ form.valid /\ saved' = {form}
      /\ UNCHANGED <<form, tests, verdict, touched, ownPort>>
  BY DEF Save
<1>2. TypeOK' /\ FlagsAreCurrent'
  BY <1>1 DEF Inv, TypeOK, FlagsAreCurrent
<1> QED
  BY <1>1, <1>2
  DEF Inv, WaitsForItsTest, DetectionFitsTheForm, PortFitsTheEncryption, OneTest,
      UntouchedTest

\* A new page: the test of the old one is gone with its configuration.
THEOREM Reopen_Inv == ASSUME Inv, Reopen PROVE Inv'
<1>1. PICK host \in Hosts, user \in Users : form' = NewPage(user, host)
  BY DEF Reopen
<1>2. /\ GoodForm(form') /\ form'.inProgress = FALSE
      /\ form'.port = PortOf(form'.protocol, form'.security)
  BY <1>1, NewPageEditFact
<1>3. /\ tests' = {} /\ verdict' = {} /\ touched' = FALSE /\ ownPort' = FALSE
      /\ saved' = saved
  BY DEF Reopen, TestsLeft
<1>4. WaitsForItsTest'
  BY <1>2, <1>3, FS_EmptySet DEF WaitsForItsTest
<1> QED
  BY <1>2, <1>3, <1>4, GoodFormFact, GoodFormStepFact
  DEF GoodInv, DetectionFitsTheForm, PortFitsTheEncryption, OneTest, UntouchedTest

\* Inv is inductive.
THEOREM Next_Inv == Inv /\ [Next]_vars => Inv'
<1> SUFFICES ASSUME Inv, [Next]_vars PROVE Inv'
  OBVIOUS
<1>1. CASE EditIncoming
  BY <1>1, EditHost_Inv, EditLogin_Inv, EditProtocol_Inv, EditSecurity_Inv, EditPort_Inv
  DEF EditIncoming
<1>2. CASE EndTest
  BY <1>2, TestFinished_Inv DEF EndTest
<1>3. CASE UNCHANGED vars
  BY <1>3
  DEF vars, Inv, TypeOK, FlagsAreCurrent, WaitsForItsTest, DetectionFitsTheForm,
      PortFitsTheEncryption, OneTest, UntouchedTest
<1> QED
  BY <1>1, <1>2, <1>3, EditOutgoing_Inv, CheckServer_Inv, Save_Inv, Reopen_Inv DEF Next

-----------------------------------------------------------------------------
\* Every reachable state of the page satisfies the invariant.
THEOREM FormInvariant == Spec => []Inv
BY Init_Inv, Next_Inv, PTL DEF Spec

\* The form, the tests and what is remembered of them keep their types.
THEOREM TypeCorrect == Spec => []TypeOK
<1>1. Inv => TypeOK
  BY DEF Inv
<1> QED
  BY <1>1, FormInvariant, PTL

\* The flags that enable "Create Account" and show the offline mode say what the
\* fields say, and what is saved is complete
\* (accountconfiguration.cpp:305-314, 383-398).
THEOREM FlagsAreRight == Spec => []FlagsAreCurrent
<1>1. Inv => FlagsAreCurrent
  BY DEF Inv
<1> QED
  BY <1>1, FormInvariant, PTL

\* The form waits if and only if its one test is running
\* (accountconfiguration.cpp:256-303).
THEOREM WaitingIsForATest == Spec => []WaitsForItsTest
<1>1. Inv => WaitsForItsTest
  BY DEF Inv
<1> QED
  BY <1>1, FormInvariant, PTL

\* After a test that succeeded the tested server offers the encryption of the
\* form, and is the form's if the user left it alone
\* (accountconfiguration.cpp:286-303).
THEOREM DetectionIsRight == Spec => []DetectionFitsTheForm
<1>1. Inv => DetectionFitsTheForm
  BY DEF Inv
<1> QED
  BY <1>1, FormInvariant, PTL

\* The port is the default of protocol and encryption unless the user made it his
\* own (accountconfiguration.cpp:286-303, 351-398).
THEOREM PortIsRight == Spec => []PortFitsTheEncryption
<1>1. Inv => PortFitsTheEncryption
  BY DEF Inv
<1> QED
  BY <1>1, FormInvariant, PTL
=============================================================================
