--------------------- MODULE ServerConfiguration_proofs ---------------------
(***************************************************************************)
(* From the document to the account, for every set of texts and documents  *)
(* of every length: the server read is what its elements mean, every       *)
(* configuration has the first of the safest outgoing servers, and the     *)
(* account made of it is the one that was found and shown.                 *)
(***************************************************************************)
EXTENDS ServerConfiguration, AccountForm_proofs, SequenceTheorems

\* The servers that the server at hand can be.
ServerAtHand == ServersOf(PortNumbers \cup {NoPort}, {"none"})

-----------------------------------------------------------------------------
\* What the operators the steps are built from return.

\* A text with its placeholder replaced is one of those.
LEMMA ReplacedFact ==
    ASSUME NEW texts, NEW text \in texts
    PROVE  ReplacePlaceholders(text) \in Replaced(texts)
BY DEF Replaced

\* The known socket types are encryptions.
LEMMA SocketTypeFact ==
    ASSUME NEW text \in DOMAIN SocketTypeOf
    PROVE  SocketTypeOf[text] \in Encryptions
BY DEF SocketTypeOf, Encryptions

\* Each element has a text of its own kind.
LEMMA ChildFact ==
    ASSUME NEW child \in Children
    PROVE  /\ child.tag = "hostname" => child.text \in Hostnames
           /\ child.tag = "username" => child.text \in Usernames
           /\ child.tag = "port" => child.text \in PortNumbers
           /\ child.tag = "authentication" => child.text \in AuthTypes
BY DEF Children

\* One turn of fromDomElement's loop, field by field.
LEMMA ReadFact ==
    ASSUME NEW ports, NEW kinds, NEW s \in ServersOf(ports, kinds), NEW child
    PROVE  LET r == Read(s, child) IN
           /\ r = [hostname |-> r.hostname, port |-> r.port, username |-> r.username,
                   socketType |-> r.socketType, authType |-> r.authType, type |-> r.type]
           /\ r.hostname = IF child.tag = "hostname"
                           THEN ReplacePlaceholders(child.text) ELSE s.hostname
           /\ r.username = IF child.tag = "username"
                           THEN ReplacePlaceholders(child.text) ELSE s.username
           /\ r.port = IF child.tag = "port" THEN child.text ELSE s.port
           /\ r.socketType =
                 IF child.tag = "socketType" /\ child.text \in DOMAIN SocketTypeOf
                 THEN SocketTypeOf[child.text] ELSE s.socketType
           /\ r.authType =
                 IF child.tag = "authentication" /\ s.authType = "PLAIN"
                 THEN AuthTypeOf(child.text) ELSE s.authType
           /\ r.type = s.type
<1> DEFINE r == Read(s, child)
<1>1. CASE child.tag = "authentication"
  BY <1>1 DEF Read, ReadLast, ServersOf
<1>2. CASE child.tag = "hostname"
  BY <1>2 DEF Read, ReadLast, ServersOf
<1>3. CASE child.tag = "username"
  BY <1>3 DEF Read, ReadLast, ServersOf
<1>4. CASE child.tag = "port"
  BY <1>4 DEF Read, ReadLast, ServersOf
<1>5. CASE child.tag = "socketType" /\ child.text \in DOMAIN SocketTypeOf
  BY <1>5 DEF Read, ReadLast, ServersOf
<1>6. CASE /\ child.tag \notin {"authentication", "hostname", "username", "port"}
           /\ ~(child.tag = "socketType" /\ child.text \in DOMAIN SocketTypeOf)
  BY <1>6 DEF Read, ReadLast, ServersOf
<1> QED
  BY <1>1, <1>2, <1>3, <1>4, <1>5, <1>6

\* What is read stays a server.
LEMMA ReadTypeFact ==
    ASSUME NEW s \in ServerAtHand, NEW child \in Children
    PROVE  Read(s, child) \in ServerAtHand
<1> DEFINE r == Read(s, child)
<1>1. /\ r = [hostname |-> r.hostname, port |-> r.port, username |-> r.username,
              socketType |-> r.socketType, authType |-> r.authType, type |-> r.type]
      /\ r.hostname \in {s.hostname, ReplacePlaceholders(child.text)}
      /\ child.tag # "hostname" => r.hostname = s.hostname
      /\ r.username \in {s.username, ReplacePlaceholders(child.text)}
      /\ child.tag # "username" => r.username = s.username
      /\ r.port = IF child.tag = "port" THEN child.text ELSE s.port
      /\ \/ r.socketType = s.socketType
         \/ child.text \in DOMAIN SocketTypeOf /\ r.socketType = SocketTypeOf[child.text]
      /\ r.authType \in {s.authType, AuthTypeOf(child.text)}
      /\ child.tag # "authentication" => r.authType = s.authType
      /\ r.type = s.type
  BY ReadFact DEF ServerAtHand
<1> HIDE DEF r
<1>2. /\ r.hostname \in Replaced(Hostnames) \cup {Blank}
      /\ r.username \in Replaced(Usernames) \cup {Blank}
      /\ r.port \in PortNumbers \cup {NoPort}
  BY <1>1, ChildFact, ReplacedFact DEF ServerAtHand, ServersOf
<1>3. r.socketType \in Encryptions
  BY <1>1, SocketTypeFact DEF ServerAtHand, ServersOf
<1>4. /\ r.authType \in {AuthTypeOf(text) : text \in AuthTypes} \cup {"PLAIN"}
      /\ r.type \in {"none"}
  BY <1>1, ChildFact DEF ServerAtHand, ServersOf
<1>5. r \in ServerAtHand
  BY <1>1, <1>2, <1>3, <1>4 DEF ServerAtHand, ServersOf
<1> QED
  BY <1>5 DEF r

-----------------------------------------------------------------------------
\* What one more element changes in the meaning of what was read.

\* The places of the old elements stay, and the new one has the next place.
LEMMA PlacesFact ==
    ASSUME NEW read \in Seq(Children), NEW child \in Children
    PROVE  LET longer == Append(read, child)
               n      == Len(read) + 1
           IN  /\ Len(read) \in Nat
               /\ \A i \in 1..Len(read) : longer[i] = read[i]
               /\ longer[n] = child
               /\ \A tag : Places(read, tag) \subseteq 1..Len(read)
               /\ \A tag : Places(longer, tag) =
                     IF child.tag = tag THEN Places(read, tag) \cup {n} ELSE Places(read, tag)
<1> DEFINE longer == Append(read, child)
           n      == Len(read) + 1
<1>1. /\ Len(read) \in Nat /\ Len(longer) = n
      /\ \A i \in 1..Len(read) : longer[i] = read[i]
      /\ longer[n] = child
  BY AppendProperties, LenProperties
<1> HIDE DEF longer
<1>2. 1..n = (1..Len(read)) \cup {n} /\ n \notin 1..Len(read)
  BY <1>1
<1> HIDE DEF n
<1>3. ASSUME NEW tag
      PROVE  /\ Places(read, tag) \subseteq 1..Len(read)
             /\ Places(longer, tag) =
                   IF child.tag = tag THEN Places(read, tag) \cup {n} ELSE Places(read, tag)
  BY <1>1, <1>2 DEF Places
<1> QED
  BY <1>1, <1>3 DEF longer, n

\* What the last or the first of the old places says is what it said.
LEMMA OldPlacesFact ==
    ASSUME NEW read \in Seq(Children), NEW child \in Children,
           NEW places \in SUBSET (1..Len(read)), NEW default, NEW value
    PROVE  /\ LastSays(read, places, default, value) =>
                 LastSays(Append(read, child), places, default, value)
           /\ FirstSays(read, places, default, value) =>
                 FirstSays(Append(read, child), places, default, value)
BY PlacesFact DEF LastSays, FirstSays

\* A new place is the last one, and the first one if there was none.
LEMMA NewPlaceFact ==
    ASSUME NEW read \in Seq(Children), NEW child \in Children,
           NEW places \in SUBSET (1..Len(read)), NEW default, NEW value
    PROVE  LET all == places \cup {Len(read) + 1} IN
           /\ LastSays(Append(read, child), all, default, Says(child))
           /\ FirstSays(read, places, default, value) =>
                 FirstSays(Append(read, child), all, default,
                           IF places = {} THEN Says(child) ELSE value)
<1> DEFINE longer == Append(read, child)
           n      == Len(read) + 1
<1>1. /\ Len(read) \in Nat /\ longer[n] = child
      /\ \A i \in 1..Len(read) : longer[i] = read[i]
  BY PlacesFact
<1> HIDE DEF longer
<1>2. \A i \in places : i <= n /\ longer[i] = read[i]
  BY <1>1
<1>3. n <= n
  BY <1>1
<1> HIDE DEF n
<1>4. LastSays(longer, places \cup {n}, default, Says(child))
  BY <1>1, <1>2, <1>3 DEF LastSays
<1>5. CASE places = {}
  <2>1. FirstSays(longer, places \cup {n}, default, Says(child))
    BY <1>1, <1>3, <1>5 DEF FirstSays
  <2> QED
    BY <1>4, <1>5, <2>1 DEF longer, n
<1>6. CASE places # {}
  <2>1. FirstSays(read, places, default, value) =>
           FirstSays(longer, places \cup {n}, default, value)
    BY <1>2, <1>6 DEF FirstSays
  <2> QED
    BY <1>4, <1>6, <2>1 DEF longer, n
<1> QED
  BY <1>5, <1>6

\* The server stays what its elements mean.
LEMMA DescribesFact ==
    ASSUME NEW read \in Seq(Children), NEW child \in Children,
           NEW s \in ServerAtHand, Describes(read, s)
    PROVE  Describes(Append(read, child), Read(s, child))
<1> DEFINE longer == Append(read, child)
           n      == Len(read) + 1
           r      == Read(s, child)
<1>1. /\ Len(read) \in Nat
      /\ \A i \in 1..Len(read) : longer[i] = read[i]
      /\ longer[n] = child
      /\ \A tag : /\ Places(read, tag) \in SUBSET (1..Len(read))
                  /\ Places(longer, tag) =
                        IF child.tag = tag THEN Places(read, tag) \cup {n}
                        ELSE Places(read, tag)
  BY PlacesFact
<1>2. /\ r.hostname = IF child.tag = "hostname"
                      THEN ReplacePlaceholders(child.text) ELSE s.hostname
      /\ r.username = IF child.tag = "username"
                      THEN ReplacePlaceholders(child.text) ELSE s.username
      /\ r.port = IF child.tag = "port" THEN child.text ELSE s.port
      /\ r.socketType =
            IF child.tag = "socketType" /\ child.text \in DOMAIN SocketTypeOf
            THEN SocketTypeOf[child.text] ELSE s.socketType
      /\ r.authType =
            IF child.tag = "authentication" /\ s.authType = "PLAIN"
            THEN AuthTypeOf(child.text) ELSE s.authType
  BY ReadFact DEF ServerAtHand
<1>3. ASSUME NEW places \in SUBSET (1..Len(read)), NEW default, NEW value
      PROVE  /\ LastSays(read, places, default, value) =>
                   LastSays(longer, places, default, value)
             /\ LastSays(longer, places \cup {n}, default, Says(child))
             /\ FirstSays(read, places, default, value) =>
                   FirstSays(longer, places, default, value)
             /\ FirstSays(read, places, default, value) =>
                   FirstSays(longer, places \cup {n}, default,
                             IF places = {} THEN Says(child) ELSE value)
  BY OldPlacesFact, NewPlaceFact
<1> HIDE DEF longer, n, r
<1>4. /\ child.tag \in {"hostname", "username"} => Says(child) = ReplacePlaceholders(child.text)
      /\ child.tag = "port" => Says(child) = child.text
      /\ child.tag = "socketType" => Says(child) = SocketTypeOf[child.text]
      /\ child.tag = "authentication" => Says(child) = AuthTypeOf(child.text)
  BY DEF Says
<1>5. LastSays(longer, Places(longer, "hostname"), Blank, r.hostname)
  BY <1>1, <1>2, <1>3, <1>4 DEF Describes
<1>6. LastSays(longer, Places(longer, "username"), Blank, r.username)
  BY <1>1, <1>2, <1>3, <1>4 DEF Describes
<1>7. LastSays(longer, Places(longer, "port"), NoPort, r.port)
  BY <1>1, <1>2, <1>3, <1>4 DEF Describes
<1>8. LastSays(longer, KnownSocketTypes(longer), "SSL", r.socketType)
  <2>1. /\ KnownSocketTypes(read) \in SUBSET (1..Len(read))
        /\ KnownSocketTypes(longer) =
              IF child.tag = "socketType" /\ child.text \in DOMAIN SocketTypeOf
              THEN KnownSocketTypes(read) \cup {n} ELSE KnownSocketTypes(read)
    BY <1>1 DEF KnownSocketTypes
  <2> QED
    BY <1>2, <1>3, <1>4, <2>1 DEF Describes
<1>9. FirstSays(longer, NotPlain(longer), "PLAIN", r.authType)
  <2>1. /\ NotPlain(read) \in SUBSET (1..Len(read))
        /\ NotPlain(longer) =
              IF child.tag = "authentication" /\ Says(child) # "PLAIN"
              THEN NotPlain(read) \cup {n} ELSE NotPlain(read)
    BY <1>1 DEF NotPlain
  <2>2. s.authType = "PLAIN" <=> NotPlain(read) = {}
    BY DEF Describes, FirstSays, NotPlain
  <2> QED
    BY <1>2, <1>3, <1>4, <2>1, <2>2 DEF Describes
<1> QED
  BY <1>5, <1>6, <1>7, <1>8, <1>9 DEF Describes, longer, r

\* A server of which nothing was read has the defaults.
LEMMA NothingReadFact == Describes(<<>>, NewServer)
<1>1. /\ \A tag : Places(<<>>, tag) = {}
      /\ KnownSocketTypes(<<>>) = {} /\ NotPlain(<<>>) = {}
  BY DEF Places, KnownSocketTypes, NotPlain
<1> QED
  BY <1>1 DEF Describes, LastSays, FirstSays, NewServer

-----------------------------------------------------------------------------
\* The loop over the outgoing servers.

\* Encryptions are ranked by numbers.
LEMMA RankFact == \A e \in Encryptions : Rank[e] \in Nat
BY DEF Encryptions, Rank

\* One turn of the loop: the choice among n + 1 servers follows from that among n.
LEMMA SafestFact ==
    ASSUME NEW kinds, NEW servers \in Seq(Listed(kinds)), NEW n \in Nat, n < Len(servers),
           NEW best, IsSafest(best, servers, n)
    PROVE  IsSafest(PreferredServer(best, servers[n + 1]), servers, n + 1)
<1> DEFINE s == servers[n + 1]
<1>1. Len(servers) \in Nat /\ n + 1 \in 1..Len(servers) /\ 1..n \subseteq 1..Len(servers)
  BY LenProperties
<1>2. ASSUME NEW i \in 1..Len(servers)
      PROVE  servers[i].socketType \in Encryptions
  <2>1. servers[i] \in Listed(kinds)
    BY ElementOfSeq
  <2> QED
    BY <2>1 DEF Listed, ServersOf
<1>3. \A i \in 1..Len(servers) : Rank[servers[i].socketType] \in Nat
  BY <1>2, RankFact
<1>4. CASE n = 0
  <2>1. best = {} /\ PreferredServer(best, s) = {s}
    BY <1>4 DEF IsSafest, PreferredServer
  <2>2. 1..(n + 1) = {1}
    BY <1>4
  <2> QED
    BY <1>1, <1>3, <1>4, <2>1, <2>2 DEF IsSafest
<1>5. CASE n # 0
  <2>1. PICK k \in 1..n :
           /\ best = {servers[k]}
           /\ \A j \in 1..n :
                 IF j < k THEN Rank[servers[j].socketType] < Rank[servers[k].socketType]
                 ELSE Rank[servers[j].socketType] <= Rank[servers[k].socketType]
    BY <1>5 DEF IsSafest
  <2>2. 1..(n + 1) = (1..n) \cup {n + 1} /\ n + 1 # 0 /\ k < n + 1
    BY <1>1
  <2>3. CASE Rank[servers[k].socketType] < Rank[s.socketType]
    <3>1. PreferredServer(best, s) = {s}
      BY <2>1, <2>3 DEF PreferredServer
    <3>2. \A j \in 1..n : j < n + 1 /\ Rank[servers[j].socketType] < Rank[s.socketType]
      BY <1>1, <1>3, <2>1, <2>3
    <3>3. ~(n + 1 < n + 1) /\ Rank[s.socketType] <= Rank[s.socketType]
      BY <1>1, <1>3
    <3> QED
      BY <2>2, <3>1, <3>2, <3>3 DEF IsSafest
  <2>4. CASE ~(Rank[servers[k].socketType] < Rank[s.socketType])
    <3>1. PreferredServer(best, s) = {servers[k]}
      BY <2>1, <2>4 DEF PreferredServer
    <3>2. ~(n + 1 < k) /\ Rank[s.socketType] <= Rank[servers[k].socketType]
      BY <1>1, <1>3, <2>2, <2>4
    <3> QED
      BY <2>1, <2>2, <3>1, <3>2 DEF IsSafest
  <2> QED
    BY <2>3, <2>4
<1> QED
  BY <1>4, <1>5

-----------------------------------------------------------------------------
\* The account that is made of a configuration.

\* A new account, before the servers that were found are filled in.
LEMMA NewAccountFact ==
    LET f == WithEmail(Address, Domain) IN
    /\ IsForm(f) /\ f.security = Fresh.security /\ f.hasTransport
    /\ f.smtp.port = FreshTransport.port /\ f.smtp.user = Address
    /\ ~f.smtp.requiresAuth
<1> DEFINE f == WithEmail(Address, Domain)
           t == [FreshTransport EXCEPT !.host = Domain, !.user = Address]
<1>1. /\ IsForm(f)
      /\ ServerFields(f) = <<Domain, Fresh.protocol, Fresh.security, Fresh.port>>
      /\ PageFields(f) = <<Fresh.inProgress, Fresh.hasTransport, t>>
  BY WithEmailFact
<1>2. Fresh.hasTransport
  BY DEF Fresh
<1>3. t.port = FreshTransport.port /\ t.user = Address
  BY DEF FreshTransport
<1>4. ~t.requiresAuth
  BY DEF FreshTransport
<1> HIDE DEF f, t
<1>5. /\ f.security = Fresh.security /\ f.hasTransport = Fresh.hasTransport
      /\ f.smtp = t
  BY <1>1 DEF ServerFields, PageFields
<1> QED
  BY <1>1, <1>2, <1>3, <1>4, <1>5 DEF f

\* Its incoming server is the one that was found, its outgoing one too.
LEMMA AccountFact ==
    ASSUME NEW c, c.outgoing = {} \/ \E s : c.outgoing = {s}
    PROVE  LET a == AccountOf(c)
               i == c.incoming
           IN  /\ a.host = i.hostname /\ a.protocol = i.type /\ a.security = i.socketType
               /\ a.user = i.username /\ a.auth = i.authType
               /\ a.port = IF Fresh.security = i.socketType THEN Unsigned(i.port)
                           ELSE PortOf(i.type, i.socketType)
               /\ a.hasTransport <=> c.outgoing # {}
               /\ \A s \in c.outgoing :
                     /\ a.smtp.host = s.hostname /\ a.smtp.encryption = s.socketType
                     /\ a.smtp.port = IF s.port > 0 THEN s.port ELSE FreshTransport.port
                     /\ a.smtp.user = IF s.username # Blank THEN s.username ELSE Address
                     /\ a.smtp.auth = s.authType
                     /\ a.smtp.requiresAuth <=> s.username # Blank
<1> DEFINE f == WithEmail(Address, Domain)
           g == Incoming(f, c.incoming)
           a == Outgoing(g, c.outgoing)
<1>1. AccountOf(c) = a
  BY DEF AccountOf, Automatic
<1>2. /\ IsForm(f) /\ f.security = Fresh.security /\ f.hasTransport
      /\ f.smtp.port = FreshTransport.port /\ f.smtp.user = Address
      /\ ~f.smtp.requiresAuth
  BY NewAccountFact
<1> HIDE DEF f
<1>3. /\ IsForm(g)
      /\ ServerFields(g) =
            <<c.incoming.hostname, c.incoming.type, c.incoming.socketType,
              IF f.security = c.incoming.socketType THEN Unsigned(c.incoming.port)
              ELSE PortOf(c.incoming.type, c.incoming.socketType)>>
      /\ LoginFields(g) = <<c.incoming.username, c.incoming.authType>>
      /\ PageFields(g) = PageFields(f)
  BY <1>2, IncomingFact
<1> HIDE DEF g
<1>4. g.hasTransport = f.hasTransport /\ g.smtp = f.smtp
  BY <1>3 DEF PageFields
<1>5. CASE c.outgoing = {}
  <2>1. /\ ServerFields(a) = ServerFields(g) /\ LoginFields(a) = LoginFields(g)
        /\ a.hasTransport = FALSE
    BY <1>3, <1>5, OutgoingFact
  <2> HIDE DEF a
  <2>2. ~a.hasTransport
    BY <2>1
  <2> QED
    BY <1>1, <1>2, <1>3, <1>5, <2>1, <2>2 DEF ServerFields, LoginFields
<1>6. ASSUME NEW s, c.outgoing = {s}
      PROVE  /\ ServerFields(a) = ServerFields(g) /\ LoginFields(a) = LoginFields(g)
             /\ a.hasTransport
             /\ a.smtp.host = s.hostname /\ a.smtp.encryption = s.socketType
             /\ a.smtp.port = IF s.port > 0 THEN s.port ELSE FreshTransport.port
             /\ a.smtp.user = IF s.username # Blank THEN s.username ELSE Address
             /\ a.smtp.auth = s.authType
             /\ a.smtp.requiresAuth <=> s.username # Blank
  <2>1. a = Outgoing(g, {s})
    BY <1>6
  <2> HIDE DEF a
  <2>2. ServerFields(a) = ServerFields(g) /\ LoginFields(a) = LoginFields(g)
    BY <1>3, <2>1, OutgoingFact
  <2>3. a.smtp.host = s.hostname
    BY <1>3, <2>1, OutgoingFact
  <2>4. a.smtp.encryption = s.socketType
    BY <1>3, <2>1, OutgoingFact
  <2>5. a.smtp.auth = s.authType
    BY <1>3, <2>1, OutgoingFact
  <2>6. a.smtp.port = IF s.port > 0 THEN s.port ELSE g.smtp.port
    BY <1>3, <2>1, OutgoingFact
  <2>7. a.smtp.user = IF s.username # Blank THEN s.username ELSE g.smtp.user
    BY <1>3, <2>1, OutgoingFact
  <2>8. a.hasTransport = g.hasTransport
    BY <1>3, <2>1, OutgoingFact
  <2>9. a.smtp.requiresAuth <=> (s.username # Blank \/ g.smtp.requiresAuth)
    BY <1>3, <2>1, OutgoingFact
  <2>10. a.hasTransport
    BY <1>2, <1>4, <2>8
  <2>11. a.smtp.requiresAuth <=> s.username # Blank
    BY <1>2, <1>4, <2>9
  <2> QED
    BY <1>2, <1>4, <2>2, <2>3, <2>4, <2>5, <2>6, <2>7, <2>10, <2>11
<1> HIDE DEF a
<1>7. ASSUME NEW s, c.outgoing = {s}
      PROVE  /\ ServerFields(a) = ServerFields(g) /\ LoginFields(a) = LoginFields(g)
             /\ a.hasTransport <=> c.outgoing # {}
  BY <1>6, <1>7
<1> QED
  BY <1>1, <1>2, <1>3, <1>5, <1>6, <1>7 DEF ServerFields, LoginFields

-----------------------------------------------------------------------------
\* The invariant.

\* Nothing was read yet.
LEMMA Init_Inv == Init => Inv
<1> SUFFICES ASSUME Init PROVE Inv
  OBVIOUS
<1>1. NewServer \in ServerAtHand
  BY DEF NewServer, ServerAtHand, ServersOf, Encryptions
<1>2. TypeOK
  BY <1>1, DocumentAssumption, EmptySeq DEF Init, TypeOK, ServerAtHand
<1>3. Describes(<<>>, NewServer)
  BY NothingReadFact
<1>4. ServerIsWhatTheDocumentSays
  BY <1>3 DEF Init, ServerIsWhatTheDocumentSays
<1>5. PreferredIsSafestSoFar /\ ChoiceIsMade
  BY DEF Init, PreferredIsSafestSoFar, ChoiceIsMade, IsSafest
<1> QED
  BY <1>2, <1>4, <1>5 DEF Inv

\* The server at hand stays what its elements mean.
LEMMA ReadChild_Inv ==
    ASSUME Inv, NEW child \in Children, ReadChild(child)
    PROVE  Inv'
<1> USE DEF ReadChild, Reading
<1>1. TypeOK'
  <2>1. (elements \in 0..MaxElements)'
    BY DocumentAssumption DEF Inv, TypeOK
  <2>2. (children \in Seq(Children))'
    BY AppendProperties DEF Inv, TypeOK
  <2>3. server' \in ServerAtHand
    BY ReadTypeFact DEF Inv, TypeOK, ServerAtHand
  <2> QED
    BY <2>1, <2>2, <2>3 DEF Inv, TypeOK, ServerAtHand
<1>2. ServerIsWhatTheDocumentSays'
  BY DescribesFact DEF Inv, TypeOK, ServerIsWhatTheDocumentSays, ServerAtHand
<1>3. PreferredIsSafestSoFar' /\ ChoiceIsMade'
  BY DEF Inv, PreferredIsSafestSoFar, ChoiceIsMade
<1> QED
  BY <1>1, <1>2, <1>3 DEF Inv

\* A server with a port is appended to those of its kind, before any is chosen.
LEMMA CloseServer_Inv ==
    ASSUME Inv, NEW kind \in Kinds, CloseServer(kind)
    PROVE  Inv'
<1> DEFINE closed == [server EXCEPT !.type = kind]
<1> USE DEF CloseServer, Reading
<1>1. ASSUME Kept(kind)
      PROVE  /\ closed \in Listed({kind})
             /\ kind \in KnownKinds
             /\ provider' = [provider EXCEPT ![kind] = Append(@, closed)]
  BY <1>1 DEF Kept, Inv, TypeOK, Listed, ServersOf
<1> HIDE DEF closed
<1>2. /\ DOMAIN provider' = KnownKinds
      /\ \A known \in KnownKinds : provider'[known] \in Seq(Listed({known}))
  <2>1. CASE ~Kept(kind)
    BY <2>1 DEF Inv, TypeOK
  <2>2. CASE Kept(kind)
    <3>1. Append(provider[kind], closed) \in Seq(Listed({kind}))
      BY <1>1, <2>2, AppendProperties DEF Inv, TypeOK
    <3> QED
      BY <1>1, <2>2, <3>1 DEF Inv, TypeOK
  <2> QED
    BY <2>1, <2>2
<1>3. examined = 0 /\ preferred = {} /\ configurations = <<>>
  BY DEF Inv, PreferredIsSafestSoFar, IsSafest
<1>4. /\ NewServer \in ServerAtHand
      /\ Describes(<<>>, NewServer)
  BY NothingReadFact DEF NewServer, ServerAtHand, ServersOf, Encryptions
<1>5. examined' \in 0..Len(provider'["SMTP"])
  BY <1>2, <1>3, LenProperties DEF KnownKinds
<1>6. TypeOK'
  BY <1>2, <1>3, <1>4, <1>5, EmptySeq DEF Inv, TypeOK, ServerAtHand
<1>7. ServerIsWhatTheDocumentSays'
  BY <1>4 DEF ServerIsWhatTheDocumentSays
<1>8. PreferredIsSafestSoFar' /\ ChoiceIsMade'
  BY <1>3 DEF PreferredIsSafestSoFar, ChoiceIsMade, IsSafest
<1> QED
  BY <1>6, <1>7, <1>8 DEF Inv

\* The choice among the servers seen so far stays the first of the safest.
LEMMA ExamineOutgoing_Inv ==
    ASSUME Inv, ExamineOutgoing
    PROVE  Inv'
<1> DEFINE servers == provider["SMTP"]
           s       == servers[examined + 1]
<1>1. /\ servers \in Seq(Listed({"SMTP"})) /\ Len(servers) \in Nat
      /\ examined \in Nat /\ examined < Len(servers)
  BY LenProperties DEF Inv, TypeOK, ExamineOutgoing, KnownKinds
<1>2. /\ IsSafest(preferred, servers, examined)
      /\ examined' = examined + 1 /\ servers' = servers
      /\ preferred' = PreferredServer(preferred, s)
      /\ configurations = <<>> /\ configurations' = configurations
      /\ UNCHANGED <<elements, children, server, provider>>
  BY DEF Inv, PreferredIsSafestSoFar, ExamineOutgoing
<1>3. s \in Listed({"SMTP"})
  BY <1>1, ElementOfSeq
<1>4. IsSafest(preferred', servers, examined + 1)
  BY <1>1, <1>2, SafestFact
<1>5. preferred' \in SUBSET Listed({"SMTP"})
  BY <1>2, <1>3 DEF PreferredServer, Inv, TypeOK
<1>6. examined + 1 \in 0..Len(servers)
  BY <1>1
<1>7. TypeOK'
  BY <1>2, <1>5, <1>6 DEF Inv, TypeOK
<1>8. ServerIsWhatTheDocumentSays'
  BY <1>2 DEF Inv, ServerIsWhatTheDocumentSays
<1>9. PreferredIsSafestSoFar'
  BY <1>2, <1>4 DEF PreferredIsSafestSoFar
<1>10. ChoiceIsMade'
  BY <1>2 DEF ChoiceIsMade
<1> QED
  BY <1>7, <1>8, <1>9, <1>10 DEF Inv

\* Every incoming server gets the outgoing server that was chosen.
LEMMA SetEmailProvider_Inv ==
    ASSUME Inv, SetEmailProvider
    PROVE  Inv'
<1> DEFINE incoming == provider["IMAP"] \o provider["POP3"]
           offered  == [i \in 1..Len(incoming) |->
                           [incoming |-> incoming[i], outgoing |-> preferred]]
           Offers   == [incoming : Listed({"IMAP", "POP3"}),
                        outgoing : SUBSET Listed({"SMTP"})]
<1>1. Listed({"IMAP"}) \subseteq Listed({"IMAP", "POP3"})
  BY DEF Listed, ServersOf
<1>2. Listed({"POP3"}) \subseteq Listed({"IMAP", "POP3"})
  BY DEF Listed, ServersOf
<1>3. provider["IMAP"] \in Seq(Listed({"IMAP"})) /\ provider["POP3"] \in Seq(Listed({"POP3"}))
  BY DEF Inv, TypeOK, KnownKinds
<1>4. incoming \in Seq(Listed({"IMAP", "POP3"}))
  BY <1>1, <1>2, <1>3, ConcatProperties, SeqMonotonic
<1>5. preferred \in SUBSET Listed({"SMTP"})
  BY DEF Inv, TypeOK
<1>6. /\ configurations' = offered
      /\ examined = Len(provider["SMTP"])
      /\ UNCHANGED <<elements, children, server, provider, examined, preferred>>
  BY DEF SetEmailProvider
<1> HIDE DEF incoming
<1>7. \A i \in 1..Len(incoming) : offered[i] \in Offers
  BY <1>4, <1>5, ElementOfSeq
<1>8. offered \in Seq(Offers) /\ DOMAIN offered = 1..Len(incoming)
  BY <1>4, <1>7, LenProperties, SeqDef
<1>9. \A i \in DOMAIN offered : offered[i].outgoing = preferred
  OBVIOUS
<1> HIDE DEF offered
<1>10. TypeOK'
  BY <1>6, <1>8 DEF Inv, TypeOK
<1>11. ServerIsWhatTheDocumentSays' /\ PreferredIsSafestSoFar'
  BY <1>6 DEF Inv, ServerIsWhatTheDocumentSays, PreferredIsSafestSoFar
<1>12. ChoiceIsMade'
  BY <1>6, <1>9 DEF ChoiceIsMade
<1> QED
  BY <1>10, <1>11, <1>12 DEF Inv

\* No step breaks the invariant.
LEMMA Next_Inv == Inv /\ [Next]_vars => Inv'
<1> SUFFICES ASSUME Inv, [Next]_vars PROVE Inv'
  OBVIOUS
<1>1. ASSUME NEW child \in Children, ReadChild(child) PROVE Inv'
  BY <1>1, ReadChild_Inv
<1>2. ASSUME NEW kind \in Kinds, CloseServer(kind) PROVE Inv'
  BY <1>2, CloseServer_Inv
<1>3. CASE ExamineOutgoing
  BY <1>3, ExamineOutgoing_Inv
<1>4. CASE SetEmailProvider
  BY <1>4, SetEmailProvider_Inv
<1>5. CASE UNCHANGED vars
  BY <1>5 DEF vars, Inv, TypeOK, ServerIsWhatTheDocumentSays,
              PreferredIsSafestSoFar, ChoiceIsMade
<1> QED
  BY <1>1, <1>2, <1>3, <1>4, <1>5 DEF Next

\* The inductive invariant of the model holds, whatever the document.
THEOREM DocumentInvariant == Spec => []Inv
BY Init_Inv, Next_Inv, PTL DEF Spec

-----------------------------------------------------------------------------
\* The properties.

\* The variables have their types: what was read are elements of the document,
\* and every configuration is made of servers that were found.
THEOREM TypeCorrect == Spec => []TypeOK
<1>1. Inv => TypeOK
  BY DEF Inv
<1> QED
  BY <1>1, DocumentInvariant, PTL

\* Read element by element, the server is what the document means as a whole
\* (fromDomElement).
THEOREM ServerIsRead == Spec => []ServerIsWhatTheDocumentSays
<1>1. Inv => ServerIsWhatTheDocumentSays
  BY DEF Inv
<1> QED
  BY <1>1, DocumentInvariant, PTL

\* setEmailProvider's loop finds the first of the safest outgoing servers for
\* every configuration.
THEOREM SafestIsOffered == Spec => []SafestOutgoingIsOffered
<1>1. Inv => SafestOutgoingIsOffered
  BY DEF Inv, TypeOK, ChoiceIsMade, PreferredIsSafestSoFar, SafestOutgoingIsOffered
<1> QED
  BY <1>1, DocumentInvariant, PTL

\* A configuration has one outgoing server or none, with the types of both.
LEMMA ConfigurationFact ==
    ASSUME Inv, NEW i \in DOMAIN configurations
    PROVE  LET c == configurations[i] IN
           /\ c.incoming \in Listed({"IMAP", "POP3"})
           /\ c.outgoing \in SUBSET Listed({"SMTP"})
           /\ c.outgoing = {} \/ \E s : c.outgoing = {s}
<1>1. configurations[i] \in [incoming : Listed({"IMAP", "POP3"}),
                             outgoing : SUBSET Listed({"SMTP"})]
  BY ElementOfSeq, LenProperties DEF Inv, TypeOK
<1>2. configurations[i].outgoing = {} \/ \E s : configurations[i].outgoing = {s}
  BY DEF Inv, ChoiceIsMade, PreferredIsSafestSoFar, IsSafest
<1> QED
  BY <1>1, <1>2

\* createAutomaticAccount fills in what the selection page showed.
THEOREM AccountIsShown == Spec => []AccountIsTheOneShown
<1>1. ASSUME Inv, NEW i \in DOMAIN configurations
      PROVE  LET shown   == Shown(configurations[i])
                 account == AccountOf(configurations[i])
             IN  /\ account.host = shown.incomingHost
                 /\ <<account.protocol, account.security>> = shown.incomingTags
                 /\ account.hasTransport <=> shown.outgoingTags # {}
                 /\ account.hasTransport =>
                       /\ shown.outgoingHost = {account.smtp.host}
                       /\ shown.outgoingTags = {<<"SMTP", account.smtp.encryption>>}
  <2> DEFINE c == configurations[i]
             a == AccountOf(c)
  <2>1. c.outgoing = {} \/ \E s \in Listed({"SMTP"}) : c.outgoing = {s}
    BY <1>1, ConfigurationFact
  <2>2. a.host = c.incoming.hostname /\ a.protocol = c.incoming.type
        /\ a.security = c.incoming.socketType
    BY <2>1, AccountFact
  <2>3. a.hasTransport <=> c.outgoing # {}
    BY <2>1, AccountFact
  <2>4. \A s \in c.outgoing : a.smtp.host = s.hostname /\ a.smtp.encryption = s.socketType
    BY <2>1, AccountFact
  <2>5. \A s \in Listed({"SMTP"}) : s.type = "SMTP"
    BY DEF Listed, ServersOf
  <2> HIDE DEF a, c
  <2>6. a.host = Shown(c).incomingHost /\ <<a.protocol, a.security>> = Shown(c).incomingTags
    BY <2>2 DEF Shown, Tags
  <2>7. c.outgoing # {} <=> Shown(c).outgoingTags # {}
    BY DEF Shown
  <2>8. ASSUME NEW s \in Listed({"SMTP"}), c.outgoing = {s}
        PROVE  /\ Shown(c).outgoingHost = {a.smtp.host}
               /\ Shown(c).outgoingTags = {<<"SMTP", a.smtp.encryption>>}
    BY <2>4, <2>5, <2>8 DEF Shown, Tags
  <2>9. a.hasTransport =>
           /\ Shown(c).outgoingHost = {a.smtp.host}
           /\ Shown(c).outgoingTags = {<<"SMTP", a.smtp.encryption>>}
    BY <2>1, <2>3, <2>8
  <2> QED
    BY <2>3, <2>6, <2>7, <2>9 DEF a, c
<1>2. Inv => AccountIsTheOneShown
  BY <1>1 DEF AccountIsTheOneShown
<1> QED
  BY <1>2, DocumentInvariant, PTL

\* createAutomaticAccount fills in what was found and is not shown.
THEOREM AccountIsFound == Spec => []AccountIsTheOneFound
<1>1. ASSUME Inv, NEW i \in DOMAIN configurations
      PROVE  LET found   == configurations[i]
                 account == AccountOf(found)
             IN  /\ account.user = found.incoming.username
                 /\ account.auth = found.incoming.authType
                 /\ found.incoming.socketType = Fresh.security =>
                       account.port = Unsigned(found.incoming.port)
                 /\ \A s \in found.outgoing :
                       /\ account.smtp.auth = s.authType
                       /\ account.smtp.port =
                             IF s.port > 0 THEN s.port ELSE FreshTransport.port
                       /\ account.smtp.user =
                             IF s.username = Blank THEN Address ELSE s.username
                       /\ account.smtp.requiresAuth <=> s.username # Blank
  <2> DEFINE c == configurations[i]
             a == AccountOf(c)
  <2>1. c.outgoing = {} \/ \E s : c.outgoing = {s}
    BY <1>1, ConfigurationFact
  <2>2. /\ a.user = c.incoming.username /\ a.auth = c.incoming.authType
        /\ a.port = IF Fresh.security = c.incoming.socketType THEN Unsigned(c.incoming.port)
                    ELSE PortOf(c.incoming.type, c.incoming.socketType)
    BY <2>1, AccountFact
  <2>3. \A s \in c.outgoing :
           /\ a.smtp.port = IF s.port > 0 THEN s.port ELSE FreshTransport.port
           /\ a.smtp.user = IF s.username # Blank THEN s.username ELSE Address
           /\ a.smtp.auth = s.authType
    BY <2>1, AccountFact
  <2>4. \A s \in c.outgoing : a.smtp.requiresAuth <=> s.username # Blank
    BY <2>1, AccountFact
  <2> HIDE DEF a, c
  <2>5. c.incoming.socketType = Fresh.security => a.port = Unsigned(c.incoming.port)
    BY <2>2
  <2> QED
    BY <2>2, <2>3, <2>4, <2>5 DEF a, c
<1>2. Inv => AccountIsTheOneFound
  BY <1>1 DEF AccountIsTheOneFound
<1> QED
  BY <1>2, DocumentInvariant, PTL
=============================================================================
