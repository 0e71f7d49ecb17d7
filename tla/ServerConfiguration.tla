------------------------ MODULE ServerConfiguration ------------------------
(***************************************************************************)
(* From the XML document a lookup found to the account made of it:         *)
(* Server::fromDomElement (src/src/ispdb/serverconfiguration.cpp), the     *)
(* loop over the emailProvider's children in IspdbService::handleReply,    *)
(* and what ConfigurationModel does with the result                        *)
(* (src/src/ispdb/configurationmodel.cpp).  One step reads one element of  *)
(* a document that may hold any elements in any order, or is one turn of   *)
(* the loop that chooses the outgoing server.                              *)
(***************************************************************************)
EXTENDS AccountForm, Sequences

CONSTANTS
    Hostnames,          \* texts of hostname elements
    Usernames,          \* texts of username elements
    PortNumbers,        \* what QString::toInt makes of port texts: 0 for garbage
    SocketTypes,        \* texts of socketType elements
    AuthTypes,          \* texts of authentication elements
    Address, Domain, LocalPart,     \* what was looked up: LocalPart@Domain
    MaxElements         \* bound: elements of all servers of the document

ASSUME DocumentAssumption ==
    PortNumbers \subseteq Int /\ MaxElements \in Nat

Children ==
    [tag : {"hostname"}, text : Hostnames] \cup [tag : {"username"}, text : Usernames]
        \cup [tag : {"port"}, text : PortNumbers]
        \cup [tag : {"socketType"}, text : SocketTypes]
        \cup [tag : {"authentication"}, text : AuthTypes]

\* Of texts that consist of a placeholder or have none.
ReplacePlaceholders(text) ==
    CASE text = "%EMAILLOCALPART%" -> LocalPart
      [] text = "%EMAILADDRESS%"   -> Address
      [] text = "%EMAILDOMAIN%"    -> Domain
      [] OTHER                     -> text

Replaced(texts) == {ReplacePlaceholders(text) : text \in texts}

\* Other texts are ignored.
SocketTypeOf == [plain |-> "None", SSL |-> "SSL", STARTTLS |-> "TLS"]

AuthTypeOf(text) ==
    CASE text \in {"password-cleartext", "plain"}   -> "PLAIN"
      [] text \in {"password-encrypted", "secure"}  -> "CRAM_MD5"
      [] text \in {"NTLM", "GSSAPI"}                -> text
      [] text \in {"client-ip-based", "none"}       -> "ANONYMOUS"
      [] text = "OAuth2"                            -> "XOAUTH2"
      [] OTHER                                      -> "PLAIN"

\* MailTransport's encryptions in the order of their enumerators.
Rank == [None |-> 0, SSL |-> 1, TLS |-> 2]

\* incomingServer and outgoingServer elements by their type attribute; those of
\* another type are skipped.
KnownKinds == {"IMAP", "POP3", "SMTP"}
Kinds == KnownKinds \cup {"other"}

NoPort == -1

ServersOf(ports, kinds) ==
    [hostname : Replaced(Hostnames) \cup {Blank}, port : ports,
     username : Replaced(Usernames) \cup {Blank}, socketType : Encryptions,
     authType : {AuthTypeOf(text) : text \in AuthTypes} \cup {"PLAIN"}, type : kinds]

VARIABLES
    elements,           \* history: how many elements were read
    children,           \* the elements read of the server at hand
    server,             \* fromDomElement's Server
    provider,           \* EmailProvider: the servers of each kind
    examined,           \* how many SMTP servers setEmailProvider's loop has seen
    preferred,          \* preferredOutgoingServer: one server or none
    configurations      \* m_configurations, once the document is read

vars == <<elements, children, server, provider, examined, preferred, configurations>>

\* A server without a port element is not kept.
Listed(kinds) == ServersOf(PortNumbers, kinds)

TypeOK ==
    /\ elements \in 0..MaxElements
    /\ children \in Seq(Children)
    /\ server \in ServersOf(PortNumbers \cup {NoPort}, {"none"})
    /\ DOMAIN provider = KnownKinds
    /\ \A kind \in KnownKinds : provider[kind] \in Seq(Listed({kind}))
    /\ examined \in 0..Len(provider["SMTP"])
    /\ preferred \in SUBSET Listed({"SMTP"})
    /\ configurations \in Seq([incoming : Listed({"IMAP", "POP3"}),
                               outgoing : SUBSET Listed({"SMTP"})])

NewServer ==
    [hostname |-> Blank, port |-> NoPort, username |-> Blank, socketType |-> "SSL",
     authType |-> "PLAIN", type |-> "none"]

Init ==
    /\ elements = 0
    /\ children = <<>>
    /\ server = NewServer
    /\ provider = [kind \in KnownKinds |-> <<>>]
    /\ examined = 0
    /\ preferred = {}
    /\ configurations = <<>>
-----------------------------------------------------------------------------
Reading == examined = 0 /\ configurations = <<>>

\* The elements of which the last one counts.
ReadLast(s, child) ==
    CASE child.tag = "hostname" -> [s EXCEPT !.hostname = ReplacePlaceholders(child.text)]
      [] child.tag = "username" -> [s EXCEPT !.username = ReplacePlaceholders(child.text)]
      [] child.tag = "port" -> [s EXCEPT !.port = child.text]
      [] child.tag = "socketType" /\ child.text \in DOMAIN SocketTypeOf ->
            [s EXCEPT !.socketType = SocketTypeOf[child.text]]
      [] OTHER -> s

\* Mutation: authentication is read like the other elements.
ReadLastAuthentication(s, child) ==
    IF child.tag = "authentication"
    THEN [s EXCEPT !.authType = AuthTypeOf(child.text)]
    ELSE ReadLast(s, child)

\* One turn of fromDomElement's loop.
Read(s, child) ==
    IF child.tag = "authentication" /\ s.authType = "PLAIN"
    THEN [s EXCEPT !.authType = AuthTypeOf(child.text)]
    ELSE ReadLast(s, child)

ReadChild(child) ==
    /\ Reading
    /\ elements < MaxElements
    /\ elements' = elements + 1
    /\ children' = Append(children, child)
    /\ server' = Read(server, child)
    /\ UNCHANGED <<provider, examined, preferred, configurations>>

\* Mutation: servers without a port are kept.
KeptAnyPort(kind) == kind \in KnownKinds

Kept(kind) == kind \in KnownKinds /\ server.port # NoPort

\* The end of a server element that was not empty: handleReply appends the
\* server to its list.
CloseServer(kind) ==
    /\ Reading
    /\ children # <<>>
    /\ provider' = IF Kept(kind)
                   THEN [provider EXCEPT ![kind] = Append(@, [server EXCEPT !.type = kind])]
                   ELSE provider
    /\ children' = <<>>
    /\ server' = NewServer
    /\ UNCHANGED <<elements, examined, preferred, configurations>>

\* Mutation: the comparison is not strict.
PreferLastServer(best, s) ==
    IF \A p \in best : Rank[p.socketType] <= Rank[s.socketType] THEN {s} ELSE best

\* The body of setEmailProvider's loop.
PreferredServer(best, s) ==
    IF \A p \in best : Rank[p.socketType] < Rank[s.socketType] THEN {s} ELSE best

\* The end of the document: setEmailProvider begins with a loop over the SMTP
\* servers, of which this is one turn.
ExamineOutgoing ==
    /\ configurations = <<>>
    /\ children = <<>>
    /\ examined < Len(provider["SMTP"])
    /\ examined' = examined + 1
    /\ preferred' = PreferredServer(preferred, provider["SMTP"][examined + 1])
    /\ UNCHANGED <<elements, children, server, provider, configurations>>

\* The rest of setEmailProvider.
SetEmailProvider ==
    /\ configurations = <<>>
    /\ children = <<>>
    /\ examined = Len(provider["SMTP"])
    /\ LET incoming == provider["IMAP"] \o provider["POP3"]
       IN  configurations' = [i \in 1..Len(incoming) |->
                                 [incoming |-> incoming[i], outgoing |-> preferred]]
    /\ UNCHANGED <<elements, children, server, provider, examined, preferred>>

Next ==
    \/ \E child \in Children : ReadChild(child)
    \/ \E kind \in Kinds : CloseServer(kind)
    \/ ExamineOutgoing
    \/ SetEmailProvider

Spec == Init /\ [][Next]_vars
-----------------------------------------------------------------------------
\* createAutomaticAccount for a configuration.
AccountOf(c) == Automatic(Address, Domain, c)

\* ConfigurationModel::data and Server::tags: what the selection page shows of a
\* configuration.
Tags(s) == <<s.type, s.socketType>>

Shown(c) ==
    [incomingHost |-> c.incoming.hostname, incomingTags |-> Tags(c.incoming),
     outgoingHost |-> {s.hostname : s \in c.outgoing},
     outgoingTags |-> {Tags(s) : s \in c.outgoing}]

\* The elements with a tag, by their places in what was read.
Places(read, tag) == {i \in 1..Len(read) : read[i].tag = tag}

\* What an element says.
Says(child) ==
    CASE child.tag \in {"hostname", "username"} -> ReplacePlaceholders(child.text)
      [] child.tag = "socketType"              -> SocketTypeOf[child.text]
      [] child.tag = "authentication"          -> AuthTypeOf(child.text)
      [] OTHER                                 -> child.text

LastSays(read, places, default, value) ==
    IF places = {} THEN value = default
    ELSE \E i \in places : (\A j \in places : j <= i) /\ value = Says(read[i])

FirstSays(read, places, default, value) ==
    IF places = {} THEN value = default
    ELSE \E i \in places : (\A j \in places : i <= j) /\ value = Says(read[i])

KnownSocketTypes(read) ==
    {i \in Places(read, "socketType") : read[i].text \in DOMAIN SocketTypeOf}

NotPlain(read) == {i \in Places(read, "authentication") : Says(read[i]) # "PLAIN"}

Describes(read, s) ==
    /\ LastSays(read, Places(read, "hostname"), Blank, s.hostname)
    /\ LastSays(read, Places(read, "username"), Blank, s.username)
    /\ LastSays(read, Places(read, "port"), NoPort, s.port)
    /\ LastSays(read, KnownSocketTypes(read), "SSL", s.socketType)
    /\ FirstSays(read, NotPlain(read), "PLAIN", s.authType)

\* The document's meaning, whatever the order of its elements: the last host,
\* user name, port and known socket type count, but of the mechanisms the first
\* one that is no plain password, though each is decided when it is read
\* (serverconfiguration.cpp:52-94).
ServerIsWhatTheDocumentSays == Describes(children, server)

\* Of the first n servers the first of the safest is chosen, and none only if
\* there is none.
IsSafest(chosen, servers, n) ==
    IF n = 0 THEN chosen = {}
    ELSE \E k \in 1..n :
            /\ chosen = {servers[k]}
            /\ \A j \in 1..n :
                  IF j < k THEN Rank[servers[j].socketType] < Rank[servers[k].socketType]
                  ELSE Rank[servers[j].socketType] <= Rank[servers[k].socketType]

\* Every offered configuration sends its mail through the first of the safest
\* outgoing servers of the document, and through none only if there is none.
\* Safest is the highest enumerator, so StartTLS before SSL
\* (configurationmodel.cpp:83-89).
SafestOutgoingIsOffered ==
    \A i \in DOMAIN configurations :
        IsSafest(configurations[i].outgoing, provider["SMTP"], Len(provider["SMTP"]))

\* The account uses the servers, protocols and encryptions the user chose by
\* looking at them, and sends mail if and only if an outgoing server was shown,
\* though the constructor, setEmail and the setters fill in others
\* (configurationmodel.cpp:35-60, 149-181).
AccountIsTheOneShown ==
    \A i \in DOMAIN configurations :
        LET shown   == Shown(configurations[i])
            account == AccountOf(configurations[i])
        IN  /\ account.host = shown.incomingHost
            /\ <<account.protocol, account.security>> = shown.incomingTags
            /\ account.hasTransport <=> shown.outgoingTags # {}
            /\ account.hasTransport =>
                  /\ shown.outgoingHost = {account.smtp.host}
                  /\ shown.outgoingTags = {<<"SMTP", account.smtp.encryption>>}

\* What the page does not show is what was found, too: mechanisms and user names,
\* the address being the outgoing one unless another was found, and the ports,
\* the outgoing one if it is any and the incoming one with the encryption of a
\* new account.  A login is required if one was found
\* (configurationmodel.cpp:149-181).
AccountIsTheOneFound ==
    \A i \in DOMAIN configurations :
        LET found   == configurations[i]
            account == AccountOf(found)
        IN  /\ account.user = found.incoming.username
            /\ account.auth = found.incoming.authType
            /\ found.incoming.socketType = Fresh.security =>
                  account.port = Unsigned(found.incoming.port)
            /\ \A s \in found.outgoing :
                  /\ account.smtp.auth = s.authType
                  /\ account.smtp.port = IF s.port > 0 THEN s.port ELSE FreshTransport.port
                  /\ account.smtp.user = IF s.username = Blank THEN Address ELSE s.username
                  /\ account.smtp.requiresAuth <=> s.username # Blank

-----------------------------------------------------------------------------
\* What the inductive invariant needs beside the properties above.

\* The loop has chosen among the servers it has seen.
PreferredIsSafestSoFar == IsSafest(preferred, provider["SMTP"], examined)

\* The choice is over when there are configurations, and all of them have it.
ChoiceIsMade ==
    /\ configurations # <<>> => examined = Len(provider["SMTP"])
    /\ \A i \in DOMAIN configurations : configurations[i].outgoing = preferred

Inv ==
    /\ TypeOK
    /\ ServerIsWhatTheDocumentSays
    /\ PreferredIsSafestSoFar
    /\ ChoiceIsMade
-----------------------------------------------------------------------------
\* "This wizard will automatically search for a working and recommended server
\* configuration." (PersonalDataPage.qml:49): the account uses the port that was
\* found.
AccountKeepsFoundPort ==
    \A i \in DOMAIN configurations :
        AccountOf(configurations[i]).port = Unsigned(configurations[i].incoming.port)
=============================================================================
