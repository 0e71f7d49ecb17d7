--------------------------- MODULE MCSetupManager ---------------------------
(* Instances of SetupManager for TLC: an address of an ordinary provider,  *)
(* one of Gmail, and the ordinary one typed with a trailing blank.         *)
EXTENDS SetupManager, TLC

CONSTANTS a1, g1, a1blank

MCTrimmed == (a1 :> a1) @@ (g1 :> g1) @@ (a1blank :> a1)

\* Any status with any body; a provider has an IMAP server and maybe POP.
AnyReplies ==
    [ok : BOOLEAN, xml : {"malformed", "other"}, imap : {0}, pop : {0}]
        \cup [ok : BOOLEAN, xml : {"provider"}, imap : {1}, pop : {0, 1}]
        \cup [ok : {TRUE}, xml : {"provider"}, imap : {0}, pop : {0}]

\* The replies of sites that answer 200 exactly when they have something.
Polite ==
    {reply \in AnyReplies :
        reply.xml # "other" /\ (reply.ok <=> reply.xml = "provider")}

\* ... and at least one incoming server.
Helpful == {reply \in Polite : reply.xml = "provider" => reply.imap > 0}
=============================================================================
