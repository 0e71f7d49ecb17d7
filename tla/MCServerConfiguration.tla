----------------------- MODULE MCServerConfiguration -----------------------
(* Instances of ServerConfiguration for TLC.                               *)
EXTENDS ServerConfiguration

CONSTANT h1

SomeHostnames == {h1, "%EMAILDOMAIN%"}
SomeUsernames == {"%EMAILLOCALPART%", "%EMAILADDRESS%"}

\* Every text the parser knows, and one it does not.
AllSocketTypes == {"plain", "SSL", "STARTTLS", "unknown"}
AllAuthTypes ==
    {"password-cleartext", "plain", "password-encrypted", "secure", "NTLM", "GSSAPI",
     "client-ip-based", "none", "OAuth2", "unknown"}

\* A default port, one of the provider's own, and a negative number.
SomePorts == {993, 1143, -2}
=============================================================================
