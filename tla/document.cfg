\* Documents of up to 4 elements in any number of servers, every text.
SPECIFICATION Spec
CONSTANTS
    h1 = h1
    Hostnames <- SomeHostnames
    Usernames <- SomeUsernames
    Address = a1
    Domain = d1
    LocalPart = l1
    Blank = Blank
    PortNumbers <- SomePorts
    SocketTypes <- AllSocketTypes
    AuthTypes <- AllAuthTypes
    MaxElements = 4
INVARIANTS
    TypeOK
    ServerIsWhatTheDocumentSays
    SafestOutgoingIsOffered
    AccountIsTheOneShown
    AccountIsTheOneFound
\* A document ends.
CHECK_DEADLOCK FALSE
