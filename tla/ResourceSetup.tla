--------------------------- MODULE ResourceSetup ---------------------------
(***************************************************************************)
(* What setting up the resources of an account promises the user of one    *)
(* run of the wizard, without jobs, logs or the parts of save().  Each     *)
(* resource is asked for once; the user is told one end of it, which is    *)
(* success only together with the agent's settings; agents are written     *)
(* only while somebody waits for them; the waiting ends.                   *)
(***************************************************************************)
CONSTANT Slots          \* the resources of an account

VARIABLES
    asked,              \* the resources Akonadi was asked for
    told,               \* [Slots -> what the user knows]
    agent,              \* [Slots -> what the agent of this run was given]
    over                \* the run has ended

vars == <<asked, told, agent, over>>

Nowhere == [s \in Slots |-> "absent"]
Unsaid  == [s \in Slots |-> "nothing"]

TypeOK ==
    /\ asked \in SUBSET Slots
    /\ told \in [Slots -> {"nothing", "waiting", "success", "exists", "error", "lost"}]
    /\ agent \in [Slots -> {"absent", "bare", "touched", "saved"}]
    /\ over \in BOOLEAN

Init == asked = {} /\ told = Unsaid /\ agent = Nowhere /\ over = FALSE

Tell(s, what) == told' = [told EXCEPT ![s] = what]

Ask(s) ==
    /\ ~over
    /\ told[s] = "nothing"
    /\ \/ Tell(s, "waiting") /\ asked' = asked \cup {s}
       \/ (Tell(s, "exists") \/ Tell(s, "error")) /\ UNCHANGED asked
    /\ UNCHANGED <<agent, over>>

\* An agent nobody waits for any more may appear, too.
Appear(s) ==
    /\ s \in asked
    /\ agent[s] = "absent"
    /\ agent' = [agent EXCEPT ![s] = "bare"]
    /\ UNCHANGED <<asked, told, over>>

\* All the settings and success, or fewer and an error.
Resolve(s) ==
    /\ told[s] = "waiting"
    /\ \/ /\ agent[s] = "bare"
          /\ agent' = [agent EXCEPT ![s] = "saved"]
          /\ Tell(s, "success")
       \/ /\ \/ UNCHANGED agent
             \/ agent[s] = "bare" /\ agent' = [agent EXCEPT ![s] = "touched"]
          /\ Tell(s, "error")
    /\ UNCHANGED <<asked, over>>

\* Who waits is deleted; what becomes of the agent is not told.
Abandon ==
    /\ told' = [s \in Slots |-> IF told[s] = "waiting" THEN "lost" ELSE told[s]]
    /\ UNCHANGED <<asked, agent, over>>

End ==
    /\ ~over
    /\ over' = TRUE
    /\ told' = Unsaid
    /\ UNCHANGED <<asked, agent>>

NewRun ==
    /\ over
    /\ over' = FALSE
    /\ asked' = {} /\ agent' = Nowhere
    /\ UNCHANGED told

Next ==
    \/ \E s \in Slots : Ask(s) \/ Appear(s) \/ Resolve(s)
    \/ Abandon
    \/ End
    \/ NewRun

Spec == Init /\ [][Next]_vars

FairSpec == Spec /\ \A s \in Slots : WF_vars(Resolve(s))
=============================================================================
