\* Two servers, a user; for each server a default port and one of the user's
\* own; tests end.
SPECIFICATION FairSpec
CONSTANTS
    Hosts = {h1, h2}
    Users = {u1}
    Blank = Blank
    Ports = {1143}
    SmtpPorts = {465}
INVARIANTS
    TypeOK
    FlagsAreCurrent
    WaitsForItsTest
    DetectionFitsTheForm
    PortFitsTheEncryption
PROPERTY
    TestEnds
\* The page has been left when the account is saved.
CHECK_DEADLOCK FALSE
