\* Documents of up to 2 elements in any number of servers, every text.
SPECIFICATION Spec
CONSTANTS
    h1 = h1
    Hostnames <- SomeHostnames
    Usernames <- SomeUsernames
    Address = a1
    Domain = d1
    LocalPart = l1
    Blank = Blank
    PortNumbers <- SomePorts
    SocketTypes <- AllSocketTypes
    AuthTypes <- AllAuthTypes
    MaxElements = 2
INVARIANT
    AccountKeepsFoundPort
\* A document ends.
CHECK_DEADLOCK FALSE
