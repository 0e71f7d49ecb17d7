------------------------------ MODULE MCWizard ------------------------------
(* Instances of Wizard for TLC: an address of an ordinary provider and one *)
(* of Gmail.                                                               *)
EXTENDS Wizard, TLC

CONSTANTS a1, g1

MCTrimmed == (a1 :> a1) @@ (g1 :> g1)

\* Sites that answer 200 exactly when they have a provider, with one server of
\* either kind.
Helpful ==
    [ok : {FALSE}, xml : {"malformed"}, imap : {0}, pop : {0}]
        \cup [ok : {TRUE}, xml : {"provider"}, imap : {1}, pop : {0}]
        \cup [ok : {TRUE}, xml : {"provider"}, imap : {0}, pop : {1}]
=============================================================================
