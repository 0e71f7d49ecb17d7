--------------------- MODULE AccountCreation_refinement ---------------------
(***************************************************************************)
(* The safety part of the refinement: what save(), its Resource objects    *)
(* and Akonadi do is what ResourceSetup allows, for every set of unique    *)
(* agent types and every number of runs of the wizard.                     *)
(***************************************************************************)
EXTENDS AccountCreation_proofs

\* The mapping, read off the Resource object, its verdict and its agent.
ToldFollows ==
    \A s \in Slots :
        /\ client[s] = "none" => Told[s] = "nothing"
        /\ client[s] = "waiting" => Told[s] = "waiting"
        /\ client[s] = "destroyed" => Told[s] = "lost"
        /\ client[s] = "settled" =>
              /\ Told[s] \in {"success", "exists", "error"}
              /\ \A i \in Verdicts(s) : Told[s] = log[i].kind

AgentFollows ==
    \A s \in Slots :
        /\ Agent(s) = {} => AgentState[s] = "absent"
        /\ \A a \in Agent(s) : AgentState[s] = a.setup

Follows == Inv /\ ToldFollows /\ AgentFollows

\* A resource has one verdict at most.
LEMMA SameVerdict ==
    ASSUME Inv, NEW s \in Slots, NEW i \in Verdicts(s), NEW j \in Verdicts(s)
    PROVE  i = j
<1> SUFFICES ASSUME i # j PROVE FALSE
  OBVIOUS
<1>1. log \in Seq(Entries) /\ Cardinality(Verdicts(s)) <= 1
  BY DEF Inv, TypeOK, OneVerdictPerResource
<1>2. IsFiniteSet(1..Len(log)) /\ Verdicts(s) \subseteq 1..Len(log)
  <2>1. Len(log) \in Nat
    BY <1>1
  <2>2. Verdicts(s) \subseteq 1..Len(log)
    BY <1>1 DEF Verdicts, VerdictsIn
  <2> QED
    BY <2>1, <2>2, FS_Interval
<1>3. IsFiniteSet(Verdicts(s)) /\ Cardinality(Verdicts(s)) \in Nat
  BY <1>2, FS_Subset, FS_CardinalityType
<1> DEFINE one == {i}
           two == one \cup {j}
<1>4. IsFiniteSet(one) /\ Cardinality(one) = 1 /\ j \notin one
  BY FS_Singleton
<1>5. two \subseteq Verdicts(s)
  OBVIOUS
<1> HIDE DEF one
<1>6. Cardinality(two) = Cardinality(one) + 1
  BY <1>4, FS_AddElement
<1> HIDE DEF two
<1>7. Cardinality(two) <= Cardinality(Verdicts(s))
  BY <1>3, <1>5, FS_Subset
<1> QED
  BY <1>1, <1>3, <1>4, <1>6, <1>7

\* What the mapping relies on follows from the invariant.
LEMMA InvFollows == Inv => Follows
<1> SUFFICES ASSUME Inv PROVE ToldFollows /\ AgentFollows
  BY DEF Follows
<1>1. ASSUME NEW s \in Slots
      PROVE  /\ client[s] = "none" => Told[s] = "nothing"
             /\ client[s] = "waiting" => Told[s] = "waiting"
             /\ client[s] = "destroyed" => Told[s] = "lost"
             /\ client[s] = "settled" =>
                   /\ Told[s] \in {"success", "exists", "error"}
                   /\ \A i \in Verdicts(s) : Told[s] = log[i].kind
  <2>1. client[s] \in {"none", "waiting", "settled", "destroyed"}
    BY DEF Inv, TypeOK
  <2>2. client[s] = "settled" <=> Verdicts(s) # {}
    BY DEF Inv, OneVerdictPerResource
  <2>3. CASE client[s] # "settled"
    <3>1. client[s] = "waiting" => Told[s] = "waiting"
      BY DEF Told
    <3>2. client[s] = "destroyed" => Told[s] = "lost"
      BY DEF Told
    <3>3. client[s] = "none" => Told[s] = "nothing"
      BY <2>2 DEF Told
    <3> QED
      BY <2>3, <3>1, <3>2, <3>3
  <2>4. CASE client[s] = "settled"
    <3>1. PICK i \in Verdicts(s) : TRUE
      BY <2>2, <2>4
    <3>2. Verdicts(s) = {i}
      BY SameVerdict
    <3>3. Told[s] = log[i].kind
      BY <2>4, <3>2 DEF Told
    <3>4. log[i].kind \in {"success", "exists", "error"}
      <4>1. log \in Seq(Entries) /\ i \in DOMAIN log /\ log[i].kind # "info"
        BY <3>1 DEF Verdicts, VerdictsIn, Inv, TypeOK
      <4>2. log[i] \in Entries
        BY <4>1
      <4> QED
        BY <4>1, <4>2 DEF Entries
    <3> QED
      BY <2>4, <3>2, <3>3, <3>4
  <2> QED
    BY <2>3, <2>4
<1>2. ASSUME NEW s \in Slots
      PROVE  /\ Agent(s) = {} => AgentState[s] = "absent"
             /\ \A a \in Agent(s) : AgentState[s] = a.setup
  <2>1. \A a, b \in Agent(s) : a = b
    BY DEF Agent, Inv, OneAgentPerRequest
  <2> QED
    BY <2>1 DEF AgentState
<1> QED
  BY <1>1, <1>2 DEF ToldFollows, AgentFollows

\* ... before and after each step.
LEMMA StepFollows == Inv /\ [Next]_vars => Follows /\ Follows'
  BY InvFollows, Next_Inv, PTL

\* While the process runs, its log only grows.
LogGrows ==
    \A s \in Slots : \A i \in Verdicts(s) : i \in Verdicts(s)' /\ log'[i] = log[i]

\* An entry that is appended leaves the earlier ones where they were.
LEMMA AppendGrows ==
    ASSUME log \in Seq(Entries), NEW e \in Entries, log' = Append(log, e)
    PROVE  LogGrows
  BY VerdictsAppend DEF LogGrows, Verdicts

\* So does a step that leaves the log alone.
LEMMA SameLogGrows == UNCHANGED log => LogGrows
  BY DEF LogGrows, Verdicts

\* What the user was told of a resource stands as long as its object is as it was.
LEMMA SameTold ==
    ASSUME Follows, Follows', LogGrows, NEW s \in Slots, client'[s] = client[s]
    PROVE  Told'[s] = Told[s]
<1>1. client[s] \in {"none", "waiting", "settled", "destroyed"}
  BY DEF Follows, Inv, TypeOK
<1>2. CASE client[s] # "settled"
  BY <1>1, <1>2 DEF Follows, ToldFollows
<1>3. CASE client[s] = "settled"
  <2>1. PICK i \in Verdicts(s) : TRUE
    BY <1>3 DEF Follows, Inv, OneVerdictPerResource
  <2> QED
    BY <1>3, <2>1 DEF Follows, ToldFollows, LogGrows
<1> QED
  BY <1>2, <1>3

\* The mapped functions have the slots as their domain,
LEMMA Domains ==
    /\ Told = [s \in Slots |-> Told[s]]
    /\ AgentState = [s \in Slots |-> AgentState[s]]
  BY DEF Told, AgentState

\* before and after a step.
LEMMA DomainsAfter ==
    /\ Told' = [s \in Slots |-> Told'[s]]
    /\ AgentState' = [s \in Slots |-> AgentState'[s]]
  BY DEF Told, AgentState

\* A step that leaves agents and run alone leaves the mapped agents alone.
LEMMA SameAgent ==
    ASSUME Follows, Follows', \A s \in Slots : Agent(s)' = Agent(s)
    PROVE  AgentState' = AgentState
<1>1. ASSUME NEW s \in Slots PROVE AgentState'[s] = AgentState[s]
  <2>1. CASE Agent(s) = {}
    BY <2>1 DEF Follows, AgentFollows
  <2>2. CASE \E a \in Agent(s) : TRUE
    BY <2>2 DEF Follows, AgentFollows
  <2> QED
    BY <2>1, <2>2
<1> QED
  BY <1>1, Domains, DomainsAfter

\* A step that leaves the objects, the requests and the agents alone.
LEMMA QuietStep ==
    ASSUME Follows, Follows', LogGrows,
           UNCHANGED <<client, session, Asked, saving = "off">>,
           \A s \in Slots : Agent(s)' = Agent(s)
    PROVE  UNCHANGED Setup!vars
<1>1. \A s \in Slots : Told'[s] = Told[s]
  BY SameTold
<1>2. Told' = Told
  BY <1>1, Domains, DomainsAfter
<1>3. AgentState' = AgentState
  BY SameAgent
<1> QED
  BY <1>2, <1>3 DEF Setup!vars

\* createResource is the question, or an end of it.
LEMMA AskStep ==
    ASSUME Follows, Follows', LogGrows, NEW slot \in Slots, NEW f \in Forms,
           NEW before, CreateResource(slot, f, before), client[slot] = "none",
           saving # "off", saving' # "off", Agent(slot) = {}, UNCHANGED <<agents, session>>
    PROVE  Setup!Ask(slot)
<1>1. \A s \in Slots : s # slot => client'[s] = client[s]
  BY DEF CreateResource, Follows, Inv, TypeOK
<1>2. \A s \in Slots : s # slot => Told'[s] = Told[s]
  BY <1>1, SameTold
<1>3. \A s \in Slots : Agent(s)' = Agent(s)
  BY DEF Agent
<1>4. AgentState' = AgentState
  BY <1>3, SameAgent
<1>5. Told[slot] = "nothing"
  BY DEF Follows, ToldFollows
<1>6. \/ Told'[slot] = "waiting" /\ Asked' = Asked \cup {slot}
      \/ Told'[slot] \in {"exists", "error"} /\ Asked' = Asked
  <2>1. CASE client'[slot] = "waiting"
    <3> DEFINE request == [session |-> session, slot |-> slot,
                           type |-> TypeOf(slot, f), state |-> "sent"]
    <3>1. requests' = requests \cup {request}
      BY <2>1 DEF CreateResource, Follows, Inv, TypeOK
    <3>2. request.session = session /\ request.slot = slot
      OBVIOUS
    <3> HIDE DEF request
    <3>3. \A s \in Slots : RequestsOf(s)' # {} <=> (RequestsOf(s) # {} \/ s = slot)
      BY <3>1, <3>2 DEF RequestsOf
    <3>4. Asked' = Asked \cup {slot}
      BY <3>3 DEF Asked
    <3> QED
      BY <2>1, <3>4 DEF Follows, ToldFollows
  <2>2. CASE client'[slot] = "settled"
    <3>1. requests' = requests
      BY <2>2 DEF CreateResource, Follows, Inv, TypeOK
    <3>2. Asked' = Asked
      BY <3>1 DEF Asked, RequestsOf
    <3>3. Told'[slot] \in {"success", "exists", "error"}
      BY <2>2 DEF Follows, ToldFollows
    <3>4. Told'[slot] # "success"
      <4>1. PICK i \in Verdicts(slot)' : TRUE
        BY <2>2 DEF Follows, Inv, OneVerdictPerResource
      <4>2. Told'[slot] = log'[i].kind
        BY <2>2, <4>1 DEF Follows, ToldFollows
      <4> QED
        BY <1>3, <4>1, <4>2 DEF Follows, Inv, ReportedSuccessIsReal
    <3> QED
      BY <3>2, <3>3, <3>4
  <2> QED
    BY <2>1, <2>2 DEF CreateResource, Follows, Inv, TypeOK
<1>7. Told' = [Told EXCEPT ![slot] = Told'[slot]]
  BY <1>2, Domains, DomainsAfter
<1> QED
  BY <1>4, <1>5, <1>6, <1>7 DEF Setup!Ask, Setup!Tell

-----------------------------------------------------------------------------
\* The mapping, action by action.

\* The first run begins where ResourceSetup begins.
THEOREM Init_Maps == Init => Setup!Init
<1> SUFFICES ASSUME Init PROVE Setup!Init
  OBVIOUS
<1>1. \A s \in Slots : client[s] = "none" /\ RequestsOf(s) = {} /\ Agent(s) = {}
  BY DEF Init, Idle, RequestsOf, Agent
<1>2. Follows
  BY Init_Inv, InvFollows
<1>3. Asked = {} /\ \A s \in Slots : Told[s] = "nothing" /\ AgentState[s] = "absent"
  BY <1>1, <1>2 DEF Follows, ToldFollows, AgentFollows, Asked
<1>4. Told = Setup!Unsaid /\ AgentState = Setup!Nowhere
  BY <1>3, Domains DEF Setup!Unsaid, Setup!Nowhere
<1>5. (saving = "off") = FALSE
  BY DEF Init
<1> QED
  BY <1>3, <1>4, <1>5 DEF Setup!Init

\* The first part of save() asks for the incoming resource.
THEOREM SaveResource_Maps ==
    ASSUME Follows, Follows', NEW f \in Forms, SaveResource(f)
    PROVE  Setup!Next
<1> DEFINE slot == "incoming"
<1>1. /\ saving = "no" /\ saving' = "transport" /\ slot \in Slots
      /\ \E before : CreateResource(slot, f, before)
      /\ UNCHANGED <<agents, session>>
  BY DEF SaveResource, Slots
<1>2. client[slot] = "none" /\ Agent(slot) = {} /\ \A s \in Slots : Verdicts(s) = {}
  BY <1>1 DEF Follows, Inv, ClientsAreCurrent, Idle, OneAgentPerRequest, Agent,
     RequestsOf, OneVerdictPerResource
<1>3. LogGrows
  BY <1>2 DEF LogGrows
<1> HIDE DEF slot
<1>4. Setup!Ask(slot)
  BY <1>1, <1>2, <1>3, AskStep
<1> QED
  BY <1>1, <1>4 DEF Setup!Next

\* Storing the transport tells nothing of a resource.
THEOREM SaveTransport_Maps ==
    ASSUME Follows, Follows', SaveTransport PROVE UNCHANGED Setup!vars
<1>1. LogGrows
  <2>1. Entry("transport", "success") \in Entries /\ log \in Seq(Entries)
    BY DEF Entry, Entries, Follows, Inv, TypeOK
  <2> QED
    BY <2>1, AppendGrows, SameLogGrows DEF SaveTransport
<1>2. /\ UNCHANGED <<client, session, Asked, saving = "off">>
      /\ \A s \in Slots : Agent(s)' = Agent(s)
  BY DEF SaveTransport, Asked, RequestsOf, Agent
<1> QED
  BY <1>1, <1>2, QuietStep

\* The third part asks for the Google resource or for none.
THEOREM SaveGroupware_Maps ==
    ASSUME Follows, Follows', SaveGroupware
    PROVE  Setup!Next \/ UNCHANGED Setup!vars
<1> DEFINE slot == "google"
<1>1. /\ saving = "groupware" /\ saving' = "identity" /\ slot \in Slots
      /\ UNCHANGED <<agents, session, form>>
      /\ \A s \in Slots : Agent(s)' = Agent(s)
  BY DEF SaveGroupware, Slots, Agent
<1>2. client[slot] = "none" /\ Agent(slot) = {} /\ form \in Forms
  BY <1>1 DEF Follows, Inv, ClientsAreCurrent, OneAgentPerRequest, Agent, RequestsOf
<1> HIDE DEF slot
<1>3. CASE CreateResource(slot, form, log)
  <2>1. LogGrows
    <3>1. \A kind \in {"info", "exists", "error"} :
             Entry(slot, kind) \in Entries /\ log \in Seq(Entries)
      BY <1>1 DEF Entry, Entries, Follows, Inv, TypeOK
    <3> QED
      BY <1>3, <3>1, AppendGrows DEF CreateResource
  <2>2. Setup!Ask(slot)
    BY <1>1, <1>2, <1>3, <2>1, AskStep
  <2> QED
    BY <1>1, <2>2 DEF Setup!Next
<1>4. CASE UNCHANGED <<requests, client, log>>
  <2>1. UNCHANGED <<client, session, Asked, saving = "off">>
    BY <1>1, <1>4 DEF Asked, RequestsOf
  <2> QED
    BY <1>1, <1>4, <2>1, SameLogGrows, QuietStep
<1> QED
  BY <1>3, <1>4 DEF SaveGroupware, slot

\* Saving the identity tells nothing of a resource.
THEOREM SaveIdentity_Maps ==
    ASSUME Follows, Follows', SaveIdentity PROVE UNCHANGED Setup!vars
<1>1. /\ UNCHANGED <<log, client, session, Asked, saving = "off">>
      /\ \A s \in Slots : Agent(s)' = Agent(s)
  BY DEF SaveIdentity, Asked, RequestsOf, Agent
<1> QED
  BY <1>1, SameLogGrows, QuietStep

\* The objects that wait are destroyed: Abandon.
THEOREM DeferredDelete_Maps ==
    ASSUME Follows, Follows', DeferredDelete PROVE Setup!Next
<1>1. /\ UNCHANGED <<log, session, Asked, saving = "off">>
      /\ \A s \in Slots : Agent(s)' = Agent(s)
      /\ \A s \in Slots : client'[s] =
            IF client[s] = "waiting" THEN "destroyed" ELSE client[s]
  BY DEF DeferredDelete, persistent, Asked, RequestsOf, Agent
<1>2. AgentState' = AgentState
  BY <1>1, SameAgent
<1>3. ASSUME NEW s \in Slots
      PROVE  Told'[s] = IF Told[s] = "waiting" THEN "lost" ELSE Told[s]
  <2>1. CASE client[s] = "waiting"
    BY <1>1, <2>1 DEF Follows, ToldFollows
  <2>2. CASE client[s] # "waiting"
    <3>1. Told[s] # "waiting"
      BY <2>2 DEF Follows, ToldFollows, Inv, TypeOK
    <3>2. Told'[s] = Told[s]
      BY <1>1, <2>2, SameLogGrows, SameTold
    <3> QED
      BY <3>1, <3>2
  <2> QED
    BY <2>1, <2>2
<1>4. Setup!Abandon
  BY <1>1, <1>2, <1>3, DomainsAfter DEF Setup!Abandon
<1> QED
  BY <1>4 DEF Setup!Next

\* An agent of this run appears, or one of an earlier run, which is no step.
THEOREM AkonadiAnswers_Maps ==
    ASSUME Follows, Follows', NEW request \in requests, AkonadiAnswers(request)
    PROVE  Setup!Next \/ UNCHANGED Setup!vars
<1> DEFINE slot == request.slot
           instance == [session |-> request.session, slot |-> request.slot,
                        type |-> request.type, setup |-> "bare"]
<1>1. /\ slot \in Slots /\ request.state = "sent"
      /\ UNCHANGED <<log, client, session, saving = "off">>
      /\ agents' = agents \/ agents' = agents \cup {instance}
  BY DEF AkonadiAnswers, volatile, Follows, Inv, TypeOK, Requests
<1>2. UNCHANGED Asked
  <2> DEFINE Answer(state) == [request EXCEPT !.state = state]
  <2>1. PICK state \in {"created", "refused"} :
           requests' = (requests \ {request}) \cup {Answer(state)}
    BY DEF AkonadiAnswers
  <2>2. Answer(state).session = request.session /\ Answer(state).slot = request.slot
    BY DEF Follows, Inv, TypeOK, Requests
  <2> HIDE DEF Answer
  <2>3. \A s \in Slots : RequestsOf(s)' # {} <=> RequestsOf(s) # {}
    BY <1>1, <2>1, <2>2 DEF RequestsOf
  <2> QED
    BY <2>3 DEF Asked
<1>3. CASE \A s \in Slots : Agent(s)' = Agent(s)
  BY <1>1, <1>2, <1>3, SameLogGrows, QuietStep
<1>4. CASE agents' = agents \cup {instance} /\ request.session = session
  <2>1. /\ instance.session = session /\ instance.slot = slot
        /\ instance.setup = "bare"
    BY <1>4
  <2> HIDE DEF instance
  <2>2. Agent(slot) = {} /\ instance \in Agent(slot)'
    BY <1>1, <1>4, <2>1 DEF Agent, Follows, Inv, OneAgentPerRequest
  <2>3. \A s \in Slots : s # slot => Agent(s)' = Agent(s)
    BY <1>1, <1>4, <2>1 DEF Agent
  <2>4. slot \in Asked
    BY <1>1, <1>4 DEF Asked, RequestsOf
  <2> HIDE DEF slot
  <2>5. \A s \in Slots : s # slot => AgentState'[s] = AgentState[s]
    <3> SUFFICES ASSUME NEW s \in Slots, s # slot PROVE AgentState'[s] = AgentState[s]
      OBVIOUS
    <3>1. CASE Agent(s) = {}
      BY <2>3, <3>1 DEF Follows, AgentFollows
    <3>2. CASE \E a \in Agent(s) : TRUE
      BY <2>3, <3>2 DEF Follows, AgentFollows
    <3> QED
      BY <3>1, <3>2
  <2>6. AgentState[slot] = "absent" /\ AgentState'[slot] = "bare"
    BY <1>1, <2>1, <2>2 DEF Follows, AgentFollows
  <2>7. AgentState' = [AgentState EXCEPT ![slot] = "bare"]
    BY <1>1, <2>5, <2>6, Domains, DomainsAfter
  <2>8. UNCHANGED Told
    <3>1. \A s \in Slots : Told'[s] = Told[s]
      BY <1>1, SameLogGrows, SameTold
    <3> QED
      BY <3>1, Domains, DomainsAfter
  <2>9. Setup!Appear(slot)
    BY <1>1, <1>2, <2>4, <2>6, <2>7, <2>8 DEF Setup!Appear
  <2> QED
    BY <1>1, <2>9 DEF Setup!Next
<1>5. \/ \A s \in Slots : Agent(s)' = Agent(s)
      \/ agents' = agents \cup {instance} /\ request.session = session
  <2>1. CASE agents' = agents
    BY <1>1, <2>1 DEF Agent
  <2>2. CASE agents' = agents \cup {instance} /\ request.session # session
    <3>1. instance.session # session
      BY <2>2
    <3> HIDE DEF instance
    <3> QED
      BY <1>1, <2>2, <3>1 DEF Agent
  <2> QED
    BY <1>1, <2>1, <2>2
<1> QED
  BY <1>3, <1>4, <1>5

\* Settings and report come in one step: Resolve.
THEOREM InstanceCreateResult_Maps ==
    ASSUME Follows, Follows', NEW slot \in Slots, InstanceCreateResult(slot)
    PROVE  Setup!Next
<1>1. /\ client[slot] = "waiting" /\ client'[slot] = "settled"
      /\ \A s \in Slots : s # slot => client'[s] = client[s]
      /\ UNCHANGED <<session, Asked, saving = "off">>
  BY DEF InstanceCreateResult, Waiting, Follows, Inv, TypeOK, Asked, RequestsOf
<1>2. /\ Verdicts(slot) = {} /\ log \in Seq(Entries) /\ agents \subseteq Instances
      /\ \A a, b \in agents : a.session = b.session /\ a.slot = b.slot => a = b
      /\ \A a \in Agent(slot) : a.setup = "bare"
  BY <1>1 DEF Follows, Inv, OneVerdictPerResource, TypeOK, OneAgentPerRequest,
     ClientsAreCurrent
<1>3. Told[slot] = "waiting"
  BY <1>1 DEF Follows, ToldFollows
\* The other resource is as it was.
<1>4. ASSUME \A s \in Slots : s # slot =>
                /\ Verdicts(s)' = Verdicts(s)
                /\ \A i \in Verdicts(s) : log'[i] = log[i]
      PROVE  Told' = [Told EXCEPT ![slot] = Told'[slot]]
  <2>1. LogGrows
    BY <1>2, <1>4 DEF LogGrows
  <2>2. \A s \in Slots : s # slot => Told'[s] = Told[s]
    BY <1>1, <2>1, SameTold
  <2> QED
    BY <2>2, Domains, DomainsAfter
<1>5. CASE log' = Append(log, Entry(slot, "error")) /\ UNCHANGED agents
  <2>1. /\ \A s \in Slots : s # slot =>
              /\ Verdicts(s)' = Verdicts(s)
              /\ \A i \in Verdicts(s) : log'[i] = log[i]
        /\ \E i \in Nat : Verdicts(slot)' = {i} /\ log'[i].kind = "error"
    BY <1>2, <1>5, ReportFact
  <2>2. Told'[slot] = "error"
    BY <1>1, <2>1 DEF Follows, ToldFollows
  <2>3. AgentState' = AgentState
    <3>1. \A s \in Slots : Agent(s)' = Agent(s)
      BY <1>1, <1>5 DEF Agent
    <3> QED
      BY <3>1, SameAgent
  <2>4. Setup!Resolve(slot)
    BY <1>1, <1>3, <1>4, <2>1, <2>2, <2>3 DEF Setup!Resolve, Setup!Tell
  <2> QED
    BY <2>4 DEF Setup!Next
<1>6. CASE /\ \E request \in RequestsOf(slot) : request.state = "created"
           /\ \E outcome \in SetupOutcomes : Configure(slot, outcome)
  <2>1. PICK outcome \in SetupOutcomes : Configure(slot, outcome)
    BY <1>6
  <2>2. /\ outcome.kind \in {"success", "error"}
        /\ outcome.kind = "success" => outcome.setup = "saved"
        /\ outcome.kind = "error" => outcome.setup \in {"bare", "touched"}
    BY DEF SetupOutcomes
  <2>3. log' = Append(log, Entry(slot, "info")) \o <<Entry(slot, outcome.kind)>>
    BY <2>1 DEF Configure, Reported
  <2>4. /\ \A s \in Slots : s # slot =>
              /\ Verdicts(s)' = Verdicts(s)
              /\ \A i \in Verdicts(s) : log'[i] = log[i]
        /\ \E i \in Nat : Verdicts(slot)' = {i} /\ log'[i].kind = outcome.kind
    BY <1>2, <2>2, <2>3, ReportFact
  <2>5. Told'[slot] = outcome.kind
    BY <1>1, <2>4 DEF Follows, ToldFollows
  <2>6. /\ \A s \in Slots : s # slot => Agent(s)' = Agent(s)
        /\ \A a \in Agent(slot)' : a.setup = outcome.setup
        /\ \A b \in agents : \E a \in agents' :
              /\ a.session = b.session /\ a.slot = b.slot /\ a.type = b.type
    BY <1>1, <1>2, <2>1, ConfigureFact
  <2>7. PICK b \in Agent(slot) : b.setup = "bare"
    <3>1. \E a \in agents : a.session = session /\ a.slot = slot
      BY <1>6 DEF Follows, Inv, OneAgentPerRequest, RequestsOf
    <3> QED
      BY <1>2, <3>1 DEF Agent
  <2>8. AgentState[slot] = "bare" /\ AgentState'[slot] = outcome.setup
    <3>1. \E a \in Agent(slot)' : TRUE
      BY <1>1, <2>6, <2>7 DEF Agent
    <3> QED
      BY <2>6, <2>7, <3>1 DEF Follows, AgentFollows
  <2>9. AgentState' = [AgentState EXCEPT ![slot] = outcome.setup]
    <3>1. ASSUME NEW s \in Slots, s # slot PROVE AgentState'[s] = AgentState[s]
      <4>1. CASE Agent(s) = {}
        BY <2>6, <3>1, <4>1 DEF Follows, AgentFollows
      <4>2. CASE \E a \in Agent(s) : TRUE
        BY <2>6, <3>1, <4>2 DEF Follows, AgentFollows
      <4> QED
        BY <4>1, <4>2
    <3> QED
      BY <2>8, <3>1, Domains, DomainsAfter
  <2>10. outcome.setup = "bare" => AgentState' = AgentState
    BY <2>8, <2>9, Domains
  <2>11. Setup!Resolve(slot)
    BY <1>1, <1>3, <1>4, <2>2, <2>4, <2>5, <2>8, <2>9, <2>10
    DEF Setup!Resolve, Setup!Tell
  <2> QED
    BY <2>11 DEF Setup!Next
<1> QED
  BY <1>5, <1>6 DEF InstanceCreateResult

\* The end of the process is the end of the run.
THEOREM Stop_Maps == ASSUME Follows, Follows', Stop PROVE Setup!Next
<1>1. /\ (saving = "off") = FALSE /\ (saving = "off")' = TRUE
      /\ UNCHANGED <<session, Asked>>
      /\ \A s \in Slots : Agent(s)' = Agent(s)
      /\ \A s \in Slots : client'[s] = "none"
  BY DEF Stop, persistent, Asked, RequestsOf, Agent, Idle
<1>2. Told' = Setup!Unsaid
  BY <1>1, DomainsAfter DEF Follows, ToldFollows, Setup!Unsaid
<1>3. AgentState' = AgentState
  BY <1>1, SameAgent
<1> QED
  BY <1>1, <1>2, <1>3 DEF Setup!Next, Setup!End

\* The next run asks anew.
THEOREM Restart_Maps == ASSUME Follows, Follows', Restart PROVE Setup!Next
<1>1. /\ (saving = "off") = TRUE /\ (saving = "off")' = FALSE
      /\ session' = session + 1
      /\ UNCHANGED <<requests, agents, client, log>>
  BY DEF Restart, persistent
<1>2. \A s \in Slots : RequestsOf(s)' = {} /\ Agent(s)' = {}
  <2>1. session \in Int /\ \A q \in requests : q.session \in Int
    BY DEF Follows, Inv, TypeOK, Requests, Sessions
  <2> QED
    BY <1>1, <2>1 DEF Follows, Inv, OneAgentPerRequest, RequestsOf, Agent
<1>3. Asked' = {} /\ AgentState' = Setup!Nowhere
  BY <1>2, DomainsAfter DEF Asked, Follows, AgentFollows, Setup!Nowhere
<1>4. UNCHANGED Told
  <2>1. \A s \in Slots : Told'[s] = Told[s]
    BY <1>1, SameLogGrows, SameTold
  <2> QED
    BY <2>1, Domains, DomainsAfter
<1> QED
  BY <1>1, <1>3, <1>4 DEF Setup!Next, Setup!NewRun

\* Every step is a step of ResourceSetup or a stutter.
THEOREM Next_Maps ==
    ASSUME Follows, Follows', [Next]_vars PROVE [Setup!Next]_(Setup!vars)
<1>1. ASSUME NEW f \in Forms, SaveResource(f) PROVE Setup!Next
  BY <1>1, SaveResource_Maps
<1>2. CASE SaveGoesOn
  BY <1>2, SaveTransport_Maps, SaveGroupware_Maps, SaveIdentity_Maps DEF SaveGoesOn
<1>3. CASE DeferredDelete
  BY <1>3, DeferredDelete_Maps
<1>4. ASSUME NEW request \in requests, AkonadiAnswers(request)
      PROVE  Setup!Next \/ UNCHANGED Setup!vars
  BY <1>4, AkonadiAnswers_Maps
<1>5. ASSUME NEW slot \in Slots, InstanceCreateResult(slot) PROVE Setup!Next
  BY <1>5, InstanceCreateResult_Maps
<1>6. CASE Stop
  BY <1>6, Stop_Maps
<1>7. CASE Restart
  BY <1>7, Restart_Maps
<1>8. CASE UNCHANGED vars
  <2>1. UNCHANGED <<log, client, session, Asked, saving = "off">>
    BY <1>8 DEF vars, persistent, volatile, Asked, RequestsOf
  <2>2. \A s \in Slots : Agent(s)' = Agent(s)
    BY <1>8 DEF vars, persistent, volatile, Agent
  <2> QED
    BY <2>1, <2>2, SameLogGrows, QuietStep
<1> QED
  BY <1>1, <1>2, <1>3, <1>4, <1>5, <1>6, <1>7, <1>8 DEF Next

\* save(), its Resource objects and Akonadi do what ResourceSetup allows; the
\* liveness of ImplementsResourceSetup stays with the run
\* (accountconfiguration.cpp:179-254, resource.cpp:62-183).
THEOREM SetupRefined == Spec => Setup!Spec
<1>1. Inv /\ [Next]_vars => [Setup!Next]_(Setup!vars)
  BY StepFollows, Next_Maps
<1> QED
  BY <1>1, Init_Maps, CreationInvariant, PTL DEF Spec, Setup!Spec
=============================================================================
