----------------------- MODULE AccountCreation_proofs -----------------------
(***************************************************************************)
(* The safety of save() for every set of unique agent types and every      *)
(* number of runs of the wizard: Inv is inductive.                         *)
(***************************************************************************)
EXTENDS AccountCreation, FiniteSetTheorems, SequenceTheorems, TLAPS

USE CreationAssumption

-----------------------------------------------------------------------------
\* What the operators the steps are built from return.

\* No verdict, or one.
LEMMA AtMostOne ==
    ASSUME NEW S, NEW x, S = {} \/ S = {x}
    PROVE  Cardinality(S) <= 1
<1>1. Cardinality(S) = 0 \/ Cardinality(S) = 1
  BY FS_EmptySet, FS_Singleton
<1> QED
  BY <1>1

\* A verdict is added by an entry about the resource that is not information.
LEMMA VerdictsAppend ==
    ASSUME NEW entries \in Seq(Entries), NEW e \in Entries, NEW slot \in Slots
    PROVE  /\ VerdictsIn(entries, slot) \subseteq 1..Len(entries)
           /\ e.about = slot /\ e.kind # "info" =>
                VerdictsIn(Append(entries, e), slot) =
                    VerdictsIn(entries, slot) \cup {Len(entries) + 1}
           /\ ~(e.about = slot /\ e.kind # "info") =>
                VerdictsIn(Append(entries, e), slot) = VerdictsIn(entries, slot)
           /\ \A i \in VerdictsIn(entries, slot) : Append(entries, e)[i] = entries[i]
<1> DEFINE more == Append(entries, e)
<1>1. /\ more \in Seq(Entries)
      /\ Len(more) = Len(entries) + 1
      /\ \A i \in 1..Len(entries) : more[i] = entries[i]
      /\ more[Len(entries) + 1] = e
  OBVIOUS
<1>2. /\ DOMAIN entries = 1..Len(entries)
      /\ DOMAIN more = 1..(Len(entries) + 1)
      /\ Len(entries) \in Nat
  BY <1>1
<1> HIDE DEF more
<1>3. VerdictsIn(entries, slot) \subseteq 1..Len(entries)
  BY <1>2 DEF VerdictsIn
<1>4. ASSUME e.about = slot /\ e.kind # "info"
      PROVE  VerdictsIn(more, slot) = VerdictsIn(entries, slot) \cup {Len(entries) + 1}
  BY <1>1, <1>2, <1>4 DEF VerdictsIn
<1>5. ASSUME ~(e.about = slot /\ e.kind # "info")
      PROVE  VerdictsIn(more, slot) = VerdictsIn(entries, slot)
  BY <1>1, <1>2, <1>5 DEF VerdictsIn
<1> QED
  BY <1>1, <1>3, <1>4, <1>5 DEF more

\* The variant of the name that makeUnique finds is nobody's.
LEMMA UniqueNameFact ==
    ASSUME IsFiniteSet(identities)
    PROVE  UniqueName \in Nat /\ UniqueName \notin Taken
<1>1. IsFiniteSet(Taken)
  <2> DEFINE name == [i \in identities |-> i.name]
  <2>1. name \in Surjection(identities, Taken)
    BY DEF Surjection, Taken
  <2> QED
    BY <2>1, FS_Surjection
<1>2. Cardinality(Taken) \in Nat
  BY <1>1, FS_CardinalityType
<1> DEFINE n == Cardinality(Taken)
           Variants == 1..(n + 1)
<1>3. IsFiniteSet(Variants) /\ Cardinality(Variants) = n + 1
  BY <1>2, FS_Interval
<1>4. \E v \in Variants : v \notin Taken
  <2> SUFFICES ASSUME Variants \subseteq Taken PROVE FALSE
    OBVIOUS
  <2>1. Cardinality(Variants) <= n
    BY <1>1, FS_Subset
  <2> QED
    BY <1>2, <1>3, <2>1
<1> QED
  BY <1>2, <1>4 DEF UniqueName

\* createResource asks for an agent once, and each of its returns says so.
LEMMA CreateResourceFact ==
    ASSUME TypeOK, OneAgentPerRequest,
           NEW slot \in Slots, NEW f \in Forms, NEW before \in Seq(Entries),
           CreateResource(slot, f, before), UNCHANGED <<agents, session>>,
           RequestsOf(slot) = {}
    PROVE  /\ requests' \subseteq Requests
           /\ OneAgentPerRequest'
           /\ client' \in [Slots -> {"none", "waiting", "settled", "destroyed"}]
           /\ \A s \in Slots : s # slot =>
                 client'[s] = client[s] /\ RequestsOf(s)' = RequestsOf(s)
           /\ \E e \in Entries :
                 /\ log' = Append(before, e)
                 /\ e.about = slot
                 /\ \/ /\ client'[slot] = "settled"
                       /\ e.kind = "error"
                       /\ requests' = requests
                    \/ /\ client'[slot] = "settled"
                       /\ e.kind = "exists"
                       /\ \E a \in agents : a.type = TypeOf(slot, f)
                       /\ requests' = requests
                    \/ /\ client'[slot] = "waiting"
                       /\ e.kind = "info"
<1> DEFINE type == TypeOf(slot, f)
           request == [session |-> session, slot |-> slot, type |-> type,
                       state |-> "sent"]
<1>1. request \in Requests
  BY DEF TypeOf, Forms, Types, Requests, TypeOK
<1>2. \A kind \in {"info", "success", "exists", "error"} :
         /\ Entry(slot, kind) \in Entries
         /\ Entry(slot, kind).about = slot
         /\ Entry(slot, kind).kind = kind
  BY DEF Entry, Entries
<1>3. \/ requests' = requests
      \/ requests' = requests \cup {request}
  BY DEF CreateResource
<1>4. \A what : [client EXCEPT ![slot] = what][slot] = what
  BY DEF TypeOK
<1>5. requests' \subseteq Requests
  BY <1>1, <1>3 DEF TypeOK
<1>6. OneAgentPerRequest'
  <2>1. CASE requests' = requests
    BY <2>1 DEF OneAgentPerRequest
  <2>2. CASE requests' = requests \cup {request}
    <3>1. \A q \in requests : ~(q.session = request.session /\ q.slot = request.slot)
      BY DEF RequestsOf
    <3>2. request.session = session /\ request.state = "sent"
      OBVIOUS
    <3> HIDE DEF request
    <3>3. session \in Int
      BY DEF TypeOK, Sessions
    <3> QED
      BY <2>2, <3>1, <3>2, <3>3 DEF OneAgentPerRequest
  <2> QED
    BY <1>3, <2>1, <2>2
<1>7. client' \in [Slots -> {"none", "waiting", "settled", "destroyed"}]
  BY DEF CreateResource, TypeOK
<1>8. \A s \in Slots : s # slot =>
         client'[s] = client[s] /\ RequestsOf(s)' = RequestsOf(s)
  <2>1. \A s \in Slots : s # slot => client'[s] = client[s]
    BY DEF CreateResource, TypeOK
  <2>2. \A s \in Slots : s # slot => RequestsOf(s)' = RequestsOf(s)
    BY <1>3 DEF RequestsOf
  <2> QED
    BY <2>1, <2>2
<1> HIDE DEF request
<1> QED
  BY <1>2, <1>4, <1>5, <1>6, <1>7, <1>8 DEF CreateResource

\* An entry that is no verdict changes no verdict.
LEMMA NoteKeepsVerdicts ==
    ASSUME log \in Seq(Entries), NEW e \in Entries, log' = Append(log, e),
           e.kind = "info" \/ e.about \notin Slots
    PROVE  \A slot \in Slots :
              /\ Verdicts(slot)' = Verdicts(slot)
              /\ \A i \in Verdicts(slot) : log'[i] = log[i]
  BY VerdictsAppend DEF Verdicts

-----------------------------------------------------------------------------
\* The invariant, action by action.

\* The first run begins with nothing asked for, written or reported.
THEOREM Init_Inv == Init => Inv
<1> SUFFICES ASSUME Init PROVE Inv
  OBVIOUS
<1> USE DEF Init
<1>1. TypeOK
  BY DEF TypeOK, Sessions, Names, Idle
<1>2. \A slot \in Slots : Verdicts(slot) = {} /\ client[slot] = "none"
  BY DEF Verdicts, VerdictsIn, Idle
<1>3. OneAgentPerRequest
  BY DEF OneAgentPerRequest
<1>4. ClientsAreCurrent
  BY <1>2 DEF ClientsAreCurrent, RequestsOf, Idle
<1>5. SavedSoFar /\ ManualIsWatched /\ NoSilentOrphan
  BY DEF SavedSoFar, ManualIsWatched, NoSilentOrphan
<1>6. ReportedSuccessIsReal
  BY <1>2 DEF ReportedSuccessIsReal
<1>7. OneVerdictPerResource
  <2>1. \A slot \in Slots : Cardinality(Verdicts(slot)) = 0
    BY <1>2, FS_EmptySet
  <2> HIDE DEF Init
  <2> QED
    BY <1>2, <2>1 DEF OneVerdictPerResource
<1>8. AgentIdentityExists /\ IdentityTransportExists /\ IdentityNamesDiffer
  BY DEF AgentIdentityExists, IdentityTransportExists, IdentityNamesDiffer
<1>9. IsFiniteSet(identities)
  BY FS_EmptySet
<1> QED
  BY <1>1, <1>3, <1>4, <1>5, <1>6, <1>7, <1>8, <1>9 DEF Inv

\* The transport is stored in the step in which the identity refers to it.
THEOREM SaveTransport_Inv == Inv /\ SaveTransport => Inv'
<1> SUFFICES ASSUME Inv, SaveTransport PROVE Inv'
  OBVIOUS
<1> USE DEF Inv
<1>1. /\ saving = "transport" /\ saving' = "groupware"
      /\ UNCHANGED <<requests, agents, identities, session, form, account, client>>
      /\ \A slot \in Slots : Agent(slot)' = Agent(slot)
      /\ \A slot \in Slots : RequestsOf(slot)' = RequestsOf(slot)
  BY DEF SaveTransport, Agent, RequestsOf
<1>2. \A slot \in Slots :
         /\ Verdicts(slot)' = Verdicts(slot)
         /\ \A i \in Verdicts(slot) : log'[i] = log[i]
  <2>1. Entry("transport", "success") \in Entries /\ log \in Seq(Entries)
    BY DEF Entry, Entries, TypeOK
  <2>2. Entry("transport", "success").about \notin Slots
    BY DEF Entry, Slots
  <2> QED
    BY <2>1, <2>2, NoteKeepsVerdicts DEF Verdicts, SaveTransport
<1>3. TypeOK'
  <2>1. identity' \in [name : Names, transport : BOOLEAN]
    BY DEF TypeOK, ClientsAreCurrent, Forms, SaveTransport
  <2>2. transports' \subseteq Sessions
    BY DEF TypeOK, NewTransport, SaveTransport
  <2>3. log' \in Seq(Entries)
    <3>1. Entry("transport", "success") \in Entries /\ log \in Seq(Entries)
      BY DEF Entry, Entries, TypeOK
    <3> QED
      BY <3>1 DEF SaveTransport
  <2> QED
    BY <1>1, <2>1, <2>2, <2>3 DEF TypeOK
<1>4. OneAgentPerRequest'
  BY <1>1 DEF OneAgentPerRequest
<1>5. ClientsAreCurrent'
  BY <1>1 DEF ClientsAreCurrent
<1>6. SavedSoFar'
  BY DEF SavedSoFar, Taken, NewTransport, TypeOK, SaveTransport
<1>7. ManualIsWatched'
  BY <1>1, <1>2 DEF ManualIsWatched
<1>8. NoSilentOrphan'
  BY <1>1, <1>2 DEF NoSilentOrphan, AccountedFor
<1>9. ReportedSuccessIsReal'
  BY <1>1, <1>2 DEF ReportedSuccessIsReal, TypeOf
<1>10. OneVerdictPerResource'
  BY <1>1, <1>2 DEF OneVerdictPerResource
<1>11. AgentIdentityExists' /\ IdentityTransportExists' /\ IdentityNamesDiffer'
  BY DEF AgentIdentityExists, IdentityTransportExists, IdentityNamesDiffer, SaveTransport
<1> QED
  BY <1>1, <1>3, <1>4, <1>5, <1>6, <1>7, <1>8, <1>9, <1>10, <1>11

\* The identity takes a name nobody has, and its transport is stored by now.
THEOREM SaveIdentity_Inv == Inv /\ SaveIdentity => Inv'
<1> SUFFICES ASSUME Inv, SaveIdentity PROVE Inv'
  OBVIOUS
<1> USE DEF Inv, SaveIdentity
<1>1. TypeOK'
  BY DEF TypeOK, NewIdentity, AfterSave, Identities
<1>2. OneAgentPerRequest'
  BY DEF OneAgentPerRequest
<1>3. ClientsAreCurrent'
  BY DEF ClientsAreCurrent, RequestsOf, Agent
<1>4. SavedSoFar'
  <2>1. \E i \in NewIdentity : i.session = session
    BY DEF NewIdentity
  <2> QED
    BY <2>1 DEF SavedSoFar
<1>5. ManualIsWatched'
  BY DEF ManualIsWatched, RequestsOf, Verdicts, AfterSave
<1>6. NoSilentOrphan'
  BY DEF NoSilentOrphan, AccountedFor, Agent, Verdicts
<1>7. ReportedSuccessIsReal'
  BY DEF ReportedSuccessIsReal, Agent, Verdicts
<1>8. OneVerdictPerResource'
  BY DEF OneVerdictPerResource, Verdicts
<1>9. AgentIdentityExists'
  BY DEF AgentIdentityExists
<1>10. IdentityTransportExists'
  BY DEF IdentityTransportExists, NewIdentity, SavedSoFar
<1>11. IdentityNamesDiffer'
  BY DEF IdentityNamesDiffer, NewIdentity, SavedSoFar, Taken
<1>12. IsFiniteSet(identities)'
  BY FS_AddElement DEF NewIdentity
<1> QED
  BY <1>1, <1>2, <1>3, <1>4, <1>5, <1>6, <1>7, <1>8, <1>9, <1>10, <1>11, <1>12 DEF Inv

\* An object that waits is destroyed on the automatic path only, and its agent is
\* bare.
THEOREM DeferredDelete_Inv == Inv /\ DeferredDelete => Inv'
<1> SUFFICES ASSUME Inv, DeferredDelete PROVE Inv'
  OBVIOUS
<1> USE DEF Inv, DeferredDelete, persistent
<1>1. \A slot \in Slots :
         client'[slot] = IF client[slot] = "waiting" THEN "destroyed" ELSE client[slot]
  OBVIOUS
<1>2. TypeOK'
  BY DEF TypeOK
<1>3. OneAgentPerRequest'
  BY DEF OneAgentPerRequest
<1>4. ClientsAreCurrent'
  BY <1>1 DEF ClientsAreCurrent, RequestsOf, Agent, Slots
<1>5. SavedSoFar'
  BY DEF SavedSoFar, Taken
<1>6. ManualIsWatched' /\ NoSilentOrphan'
  BY DEF ManualIsWatched, NoSilentOrphan
<1>7. ReportedSuccessIsReal'
  BY DEF ReportedSuccessIsReal, Agent, Verdicts
<1>8. OneVerdictPerResource'
  BY <1>1 DEF OneVerdictPerResource, Verdicts
<1>9. AgentIdentityExists' /\ IdentityTransportExists' /\ IdentityNamesDiffer'
  BY DEF AgentIdentityExists, IdentityTransportExists, IdentityNamesDiffer
<1>10. IsFiniteSet(identities)'
  OBVIOUS
<1> QED
  BY <1>2, <1>3, <1>4, <1>5, <1>6, <1>7, <1>8, <1>9, <1>10 DEF Inv

\* The first part of save() begins a log with one verdict at most for each slot.
THEOREM SaveResource_Inv ==
    ASSUME Inv, NEW f \in Forms, SaveResource(f) PROVE Inv'
<1> USE DEF Inv
<1> DEFINE slot == "incoming"
           before == Append(log, Entry("identity", "success"))
<1>1. /\ saving = "no" /\ saving' = "transport" /\ form' = f /\ account' = "alive"
      /\ UNCHANGED <<agents, transports, identities, session>>
      /\ CreateResource(slot, f, before)
      /\ identity' = [name |-> UniqueName, transport |-> FALSE]
  BY DEF SaveResource
<1>2. /\ log = <<>>
      /\ \A s \in Slots : client[s] = "none" /\ RequestsOf(s) = {} /\ Agent(s) = {}
  BY <1>1 DEF ClientsAreCurrent, Idle, OneAgentPerRequest, Agent, RequestsOf
<1>3. before \in Seq(Entries) /\ \A s \in Slots : VerdictsIn(before, s) = {}
  <2>1. Entry("identity", "success") \in Entries
    BY DEF Entry, Entries
  <2>2. <<>> \in Seq(Entries) /\ \A s \in Slots : VerdictsIn(<<>>, s) = {}
    BY DEF VerdictsIn
  <2>3. Entry("identity", "success").about \notin Slots
    BY DEF Entry, Slots
  <2> DEFINE note == Entry("identity", "success")
  <2> HIDE DEF note
  <2>4. \A s \in Slots : VerdictsIn(Append(<<>>, note), s) = VerdictsIn(<<>>, s)
    BY <2>1, <2>2, <2>3, VerdictsAppend DEF note
  <2>5. Append(<<>>, note) \in Seq(Entries)
    BY <2>1, <2>2 DEF note
  <2> QED
    BY <1>2, <2>2, <2>4, <2>5 DEF note
<1> HIDE DEF before
<1>4. slot \in Slots /\ RequestsOf(slot) = {}
  BY <1>2 DEF Slots
<1>5. /\ requests' \subseteq Requests
      /\ OneAgentPerRequest'
      /\ client' \in [Slots -> {"none", "waiting", "settled", "destroyed"}]
      /\ \A s \in Slots : s # slot =>
            client'[s] = client[s] /\ RequestsOf(s)' = RequestsOf(s)
  BY <1>1, <1>3, <1>4, CreateResourceFact
<1>6. PICK e \in Entries :
         /\ log' = Append(before, e)
         /\ e.about = slot
         /\ \/ /\ client'[slot] = "settled"
               /\ e.kind = "error"
               /\ requests' = requests
            \/ /\ client'[slot] = "settled"
               /\ e.kind = "exists"
               /\ \E a \in agents : a.type = TypeOf(slot, f)
               /\ requests' = requests
            \/ /\ client'[slot] = "waiting"
               /\ e.kind = "info"
  BY <1>1, <1>3, <1>4, CreateResourceFact
<1> USE DEF Verdicts
<1>7. \A s \in Slots : s # slot => Verdicts(s)' = {}
  BY <1>3, <1>6, VerdictsAppend
<1>8. /\ e.kind = "info" => Verdicts(slot)' = {}
      /\ e.kind # "info" => Verdicts(slot)' = {Len(before) + 1}
      /\ log'[Len(before) + 1] = e
  BY <1>3, <1>4, <1>6, VerdictsAppend
<1> HIDE DEF slot
<1>9. \A s \in Slots : Agent(s)' = {}
  BY <1>1, <1>2 DEF Agent
<1>10. TypeOK'
  <2>1. identity' \in [name : Names, transport : BOOLEAN]
    BY <1>1, UniqueNameFact DEF Names
  <2>2. log' \in Seq(Entries)
    BY <1>3, <1>6
  <2> QED
    BY <1>1, <1>5, <2>1, <2>2 DEF TypeOK
<1>11. ClientsAreCurrent'
  <2>1. \A s \in Slots : client'[s] = "none" => RequestsOf(s)' = {}
    BY <1>2, <1>5, <1>6
  <2>2. client'["google"] = "none" /\ client'["incoming"] # "none"
    BY <1>2, <1>5, <1>6 DEF Slots, slot
  <2> QED
    BY <1>1, <1>9, <2>1, <2>2 DEF ClientsAreCurrent
<1>12. SavedSoFar'
  BY <1>1, UniqueNameFact DEF SavedSoFar, Taken
<1>13. ManualIsWatched'
  <2>1. \A s \in Slots : s # slot => RequestsOf(s)' = {}
    BY <1>2, <1>5
  <2>2. client'[slot] = "waiting" \/ RequestsOf(slot)' = {}
    BY <1>1, <1>2, <1>4, <1>6 DEF RequestsOf
  <2> QED
    BY <1>1, <2>1, <2>2 DEF ManualIsWatched
<1>14. NoSilentOrphan'
  BY <1>9 DEF NoSilentOrphan, AccountedFor
<1>15. ReportedSuccessIsReal'
  BY <1>1, <1>4, <1>6, <1>7, <1>8 DEF ReportedSuccessIsReal
<1>16. OneVerdictPerResource'
  <2>1. \A s \in Slots : Verdicts(s)' = {} \/ Verdicts(s)' = {Len(before) + 1}
    BY <1>7, <1>8
  <2>2. \A s \in Slots : Cardinality(Verdicts(s)') <= 1
    <3> HIDE DEF Verdicts
    <3> QED
      BY <2>1, AtMostOne, Zenon
  <2>3. \A s \in Slots : client'[s] = "settled" <=> Verdicts(s)' # {}
    BY <1>2, <1>5, <1>6, <1>7, <1>8
  <2> QED
    BY <2>2, <2>3 DEF OneVerdictPerResource
<1>17. AgentIdentityExists' /\ IdentityTransportExists' /\ IdentityNamesDiffer'
  BY <1>1 DEF AgentIdentityExists, IdentityTransportExists, IdentityNamesDiffer
<1> QED
  BY <1>1, <1>5, <1>10, <1>11, <1>12, <1>13, <1>14, <1>15, <1>16, <1>17

\* The Google agent is asked for once, and what was reported before stays reported.
THEOREM SaveGroupware_Inv == Inv /\ SaveGroupware => Inv'
<1> SUFFICES ASSUME Inv, SaveGroupware PROVE Inv'
  OBVIOUS
<1> USE DEF Inv
<1> DEFINE slot == "google"
<1>1. /\ saving = "groupware" /\ saving' = "identity"
      /\ UNCHANGED <<agents, transports, identities, session, form, identity, account>>
      /\ \A s \in Slots : Agent(s)' = Agent(s)
  BY DEF SaveGroupware, Agent
<1>2. slot \in Slots /\ form \in Forms /\ client[slot] = "none"
  BY <1>1 DEF Slots, ClientsAreCurrent
<1>3. /\ RequestsOf(slot) = {} /\ Agent(slot) = {} /\ Verdicts(slot) = {}
  BY <1>1, <1>2 DEF ClientsAreCurrent, OneAgentPerRequest, OneVerdictPerResource,
     RequestsOf, Agent
<1>4. SavedSoFar'
  BY <1>1 DEF SavedSoFar, Taken
<1>5. AgentIdentityExists' /\ IdentityTransportExists' /\ IdentityNamesDiffer'
  BY <1>1 DEF AgentIdentityExists, IdentityTransportExists, IdentityNamesDiffer
<1>6. CASE UNCHANGED <<requests, client, log>>
  <2>1. \A s \in Slots : RequestsOf(s)' = RequestsOf(s) /\ Verdicts(s)' = Verdicts(s)
    BY <1>1, <1>6 DEF RequestsOf, Verdicts
  <2>2. TypeOK' /\ OneAgentPerRequest'
    BY <1>1, <1>6 DEF TypeOK, OneAgentPerRequest
  <2>3. ClientsAreCurrent' /\ ManualIsWatched'
    BY <1>1, <1>6, <2>1 DEF ClientsAreCurrent, ManualIsWatched
  <2>4. NoSilentOrphan' /\ ReportedSuccessIsReal' /\ OneVerdictPerResource'
    BY <1>1, <1>6, <2>1
    DEF NoSilentOrphan, AccountedFor, ReportedSuccessIsReal, OneVerdictPerResource, TypeOf
  <2> QED
    BY <1>1, <1>4, <1>5, <2>2, <2>3, <2>4
<1>7. CASE CreateResource(slot, form, log)
  <2>1. log \in Seq(Entries)
    BY DEF TypeOK
  <2>2. /\ requests' \subseteq Requests
        /\ OneAgentPerRequest'
        /\ client' \in [Slots -> {"none", "waiting", "settled", "destroyed"}]
        /\ \A s \in Slots : s # slot =>
              client'[s] = client[s] /\ RequestsOf(s)' = RequestsOf(s)
    BY <1>1, <1>2, <1>3, <1>7, <2>1, CreateResourceFact
  <2>3. PICK e \in Entries :
           /\ log' = Append(log, e)
           /\ e.about = slot
           /\ \/ /\ client'[slot] = "settled"
                 /\ e.kind = "error"
                 /\ requests' = requests
              \/ /\ client'[slot] = "settled"
                 /\ e.kind = "exists"
                 /\ \E a \in agents : a.type = TypeOf(slot, form)
                 /\ requests' = requests
              \/ /\ client'[slot] = "waiting"
                 /\ e.kind = "info"
    BY <1>1, <1>2, <1>3, <1>7, <2>1, CreateResourceFact
  <2>4. \A s \in Slots : s # slot =>
           /\ Verdicts(s)' = Verdicts(s)
           /\ \A i \in Verdicts(s) : log'[i] = log[i]
    BY <2>1, <2>3, VerdictsAppend DEF Verdicts
  <2>5. /\ e.kind = "info" => Verdicts(slot)' = {}
        /\ e.kind # "info" => Verdicts(slot)' = {Len(log) + 1}
        /\ log'[Len(log) + 1] = e
    BY <1>2, <1>3, <2>1, <2>3, VerdictsAppend DEF Verdicts
  <2>6. TypeOK'
    <3>1. log' \in Seq(Entries)
      BY <2>1, <2>3
    <3> QED
      BY <1>1, <2>2, <3>1 DEF TypeOK
  <2> HIDE DEF slot
  <2>7. ClientsAreCurrent'
    <3>1. \A s \in Slots : client'[s] = "none" => RequestsOf(s)' = {}
      BY <1>1, <2>2, <2>3 DEF ClientsAreCurrent
    <3>2. client'["incoming"] # "none"
      BY <1>1, <2>2 DEF ClientsAreCurrent, Slots, slot
    <3>3. \A s \in Slots : client'[s] \in {"waiting", "destroyed"} =>
             \A a \in Agent(s)' : a.setup = "bare"
      BY <1>1, <1>3, <2>2 DEF ClientsAreCurrent
    <3> QED
      BY <1>1, <1>2, <3>1, <3>2, <3>3 DEF ClientsAreCurrent
  <2>8. ManualIsWatched'
    <3>1. client'[slot] = "waiting" \/ RequestsOf(slot)' = {}
      BY <1>1, <1>3, <2>3 DEF RequestsOf
    <3> QED
      BY <1>1, <2>2, <2>4, <3>1 DEF ManualIsWatched
  <2>9. NoSilentOrphan'
    BY <1>1, <1>3, <2>2, <2>4 DEF NoSilentOrphan, AccountedFor
  <2>10. ReportedSuccessIsReal'
    <3>1. \A s \in Slots : TypeOf(s, form)' = TypeOf(s, form)
      BY <1>1 DEF TypeOf
    <3>2. \A i \in Verdicts(slot)' :
             /\ log'[i].kind # "success"
             /\ log'[i].kind = "exists" => \E a \in agents : a.type = TypeOf(slot, form)
      BY <2>3, <2>5
    <3> QED
      BY <1>1, <1>2, <2>4, <3>1, <3>2 DEF ReportedSuccessIsReal
  <2>11. OneVerdictPerResource'
    <3>1. Verdicts(slot)' = {} \/ Verdicts(slot)' = {Len(log) + 1}
      BY <2>5
    <3>2. Cardinality(Verdicts(slot)') <= 1
      BY <3>1, AtMostOne, Zenon
    <3>3. client'[slot] = "settled" <=> Verdicts(slot)' # {}
      BY <2>3, <2>5
    <3> QED
      BY <2>2, <2>4, <3>2, <3>3 DEF OneVerdictPerResource
  <2> QED
    BY <1>1, <1>4, <1>5, <2>2, <2>6, <2>7, <2>8, <2>9, <2>10, <2>11
<1> QED
  BY <1>6, <1>7 DEF SaveGroupware

\* The answer brings the one agent of its request, which no report speaks of yet.
THEOREM AkonadiAnswers_Inv ==
    ASSUME Inv, NEW request \in requests, AkonadiAnswers(request) PROVE Inv'
<1> USE DEF Inv
<1> DEFINE instance == [session |-> request.session, slot |-> request.slot,
                        type |-> request.type, setup |-> "bare"]
<1>1. /\ request.state = "sent"
      /\ UNCHANGED <<transports, identities, session, saving, form, identity,
                     account, client, log>>
      /\ \A s \in Slots : Verdicts(s)' = Verdicts(s)
  BY DEF AkonadiAnswers, volatile, Verdicts
<1>2. PICK answer \in Requests :
         /\ requests' = (requests \ {request}) \cup {answer}
         /\ answer.session = request.session /\ answer.slot = request.slot
         /\ \/ answer.state = "created" /\ agents' = agents \cup {instance}
            \/ answer.state = "refused" /\ agents' = agents
  <2> DEFINE Answer(state) == [request EXCEPT !.state = state]
  <2>1. \A state \in {"created", "refused"} :
           /\ Answer(state) \in Requests
           /\ Answer(state).session = request.session
           /\ Answer(state).slot = request.slot
           /\ Answer(state).state = state
    BY DEF TypeOK, Requests
  <2> HIDE DEF Answer
  <2> QED
    BY <2>1 DEF AkonadiAnswers, Answer
<1>3. /\ instance \in Instances
      /\ instance.session = request.session
      /\ instance.slot = request.slot
      /\ instance.setup = "bare"
  BY DEF Instances, Requests, TypeOK
<1> HIDE DEF instance
<1>4. \A a \in agents : ~(a.session = request.session /\ a.slot = request.slot)
  BY <1>1 DEF OneAgentPerRequest
<1>5. TypeOK'
  BY <1>1, <1>2, <1>3 DEF TypeOK
<1>6. OneAgentPerRequest'
  <2>1. /\ \A q \in requests' : q.session <= session'
        /\ \A p, q \in requests' : p.session = q.session /\ p.slot = q.slot => p = q
    BY <1>1, <1>2 DEF OneAgentPerRequest
  <2>2. \A a, b \in agents' : a.session = b.session /\ a.slot = b.slot => a = b
    BY <1>2, <1>3, <1>4 DEF OneAgentPerRequest
  <2>3. \A a \in agents' : \E q \in requests' :
           q.session = a.session /\ q.slot = a.slot /\ q.state = "created"
    <3>1. \A a \in agents : \E q \in requests' :
             q.session = a.session /\ q.slot = a.slot /\ q.state = "created"
      BY <1>1, <1>2 DEF OneAgentPerRequest
    <3> QED
      BY <1>2, <1>3, <3>1
  <2>4. \A q \in requests' : q.state = "created" =>
           \E a \in agents' : a.session = q.session /\ a.slot = q.slot
    BY <1>2, <1>3 DEF OneAgentPerRequest
  <2> QED
    BY <2>1, <2>2, <2>3, <2>4 DEF OneAgentPerRequest
<1>7. \A s \in Slots :
         /\ RequestsOf(s) = {} => RequestsOf(s)' = {}
         /\ \A q \in RequestsOf(s)' : q.state = "sent" => q \in RequestsOf(s)
  BY <1>1, <1>2 DEF RequestsOf
<1>8. \A s \in Slots :
         /\ Agent(s) \subseteq Agent(s)'
         /\ \A a \in Agent(s)' : a \in Agent(s) \/ (a = instance /\ request \in RequestsOf(s))
  BY <1>1, <1>2, <1>3 DEF Agent, RequestsOf
<1>9. ClientsAreCurrent'
  BY <1>1, <1>3, <1>7, <1>8 DEF ClientsAreCurrent
<1>10. SavedSoFar'
  BY <1>1 DEF SavedSoFar, Taken
<1>11. ManualIsWatched'
  BY <1>1, <1>7 DEF ManualIsWatched
<1>12. NoSilentOrphan'
  BY <1>1, <1>8 DEF NoSilentOrphan, AccountedFor, ManualIsWatched
<1>13. ReportedSuccessIsReal'
  BY <1>1, <1>2, <1>8 DEF ReportedSuccessIsReal, TypeOf
<1>14. OneVerdictPerResource'
  BY <1>1 DEF OneVerdictPerResource
<1>15. AgentIdentityExists' /\ IdentityTransportExists' /\ IdentityNamesDiffer'
  BY <1>1, <1>2, <1>3
  DEF AgentIdentityExists, IdentityTransportExists, IdentityNamesDiffer
<1> QED
  BY <1>1, <1>5, <1>6, <1>9, <1>10, <1>11, <1>12, <1>13, <1>14, <1>15

\* A resource that waits has no verdict, and its job brings the only one.
LEMMA ReportFact ==
    ASSUME NEW slot \in Slots, NEW kind \in {"success", "error"},
           log \in Seq(Entries), Verdicts(slot) = {},
           \/ log' = Append(log, Entry(slot, kind))
           \/ log' = Append(log, Entry(slot, "info")) \o <<Entry(slot, kind)>>
    PROVE  /\ log' \in Seq(Entries)
           /\ \A s \in Slots : s # slot =>
                 /\ Verdicts(s)' = Verdicts(s)
                 /\ \A i \in Verdicts(s) : log'[i] = log[i]
           /\ \E i \in Nat : Verdicts(slot)' = {i} /\ log'[i].kind = kind
<1> DEFINE note == Entry(slot, "info")
           last == Entry(slot, kind)
<1>1. /\ note \in Entries /\ note.about = slot /\ note.kind = "info"
      /\ last \in Entries /\ last.about = slot /\ last.kind = kind
  BY DEF Entry, Entries
<1> HIDE DEF note, last
<1>2. PICK before \in Seq(Entries) :
         /\ before = log \/ before = Append(log, note)
         /\ log' = Append(before, last)
  <2>1. CASE log' = Append(log, last)
    BY <2>1
  <2>2. CASE log' = Append(log, note) \o <<last>>
    <3>1. Append(log, note) \in Seq(Entries)
      BY <1>1
    <3>2. log' = Append(Append(log, note), last)
      BY <1>1, <2>2, <3>1, AppendIsConcat
    <3> QED
      BY <3>1, <3>2
  <2> QED
    BY <2>1, <2>2 DEF note, last
<1>3. \A s \in Slots :
         /\ VerdictsIn(before, s) = Verdicts(s)
         /\ \A i \in Verdicts(s) : before[i] = log[i]
  <2>1. CASE before = log
    BY <2>1 DEF Verdicts
  <2>2. CASE before = Append(log, note)
    BY <1>1, <2>2, VerdictsAppend DEF Verdicts
  <2> QED
    BY <1>2, <2>1, <2>2
<1>4. Len(before) + 1 \in Nat /\ log' \in Seq(Entries) /\ log'[Len(before) + 1] = last
  BY <1>1, <1>2
<1>5. Verdicts(slot)' = {Len(before) + 1}
  BY <1>1, <1>2, <1>3, VerdictsAppend DEF Verdicts
<1>6. \A s \in Slots : s # slot =>
         /\ Verdicts(s)' = Verdicts(s)
         /\ \A i \in Verdicts(s) : log'[i] = log[i]
  <2> SUFFICES ASSUME NEW s \in Slots, s # slot
               PROVE  /\ Verdicts(s)' = Verdicts(s)
                      /\ \A i \in Verdicts(s) : log'[i] = log[i]
    OBVIOUS
  <2>1. /\ VerdictsIn(log', s) = VerdictsIn(before, s)
        /\ \A i \in VerdictsIn(before, s) : log'[i] = before[i]
    BY <1>1, <1>2, VerdictsAppend
  <2> QED
    BY <1>3, <2>1 DEF Verdicts
<1> QED
  BY <1>1, <1>4, <1>5, <1>6

\* The agent of the job, and no other, is given the settings.
LEMMA ConfigureFact ==
    ASSUME NEW slot \in Slots, NEW outcome \in SetupOutcomes,
           agents \subseteq Instances, Configure(slot, outcome), UNCHANGED session,
           \A a, b \in agents : a.session = b.session /\ a.slot = b.slot => a = b
    PROVE  /\ agents' \subseteq Instances
           /\ \A s \in Slots : s # slot => Agent(s)' = Agent(s)
           /\ \A a \in Agent(slot)' : a.setup = outcome.setup
           /\ \A a \in agents' : \E b \in agents :
                 /\ a.session = b.session /\ a.slot = b.slot /\ a.type = b.type
                 /\ a = b \/ (b.session = session /\ b.slot = slot)
           /\ \A b \in agents : \E a \in agents' :
                 /\ a.session = b.session /\ a.slot = b.slot /\ a.type = b.type
           /\ \A a, b \in agents' : a.session = b.session /\ a.slot = b.slot => a = b
<1> DEFINE Given(a) ==
              IF OfThisJob(a, slot) THEN [a EXCEPT !.setup = outcome.setup] ELSE a
<1>1. \A a \in agents :
         /\ Given(a) \in Instances
         /\ Given(a).session = a.session /\ Given(a).slot = a.slot /\ Given(a).type = a.type
         /\ OfThisJob(a, slot) => Given(a).setup = outcome.setup
         /\ ~OfThisJob(a, slot) => Given(a) = a
  <2>1. outcome.setup \in {"bare", "touched", "saved"}
    BY DEF SetupOutcomes
  <2> QED
    BY <2>1 DEF Instances
<1>2. agents' = {Given(a) : a \in agents}
  BY DEF Configure
<1> HIDE DEF Given
<1>3. \A s \in Slots : s # slot => Agent(s)' = Agent(s)
  BY <1>1, <1>2 DEF Agent, OfThisJob
<1>4. \A a \in Agent(slot)' : a.setup = outcome.setup
  BY <1>1, <1>2 DEF Agent, OfThisJob
<1> QED
  BY <1>1, <1>2, <1>3, <1>4 DEF OfThisJob

\* The result handler writes the settings of the agent it reports on and of no other.
THEOREM InstanceCreateResult_Inv ==
    ASSUME Inv, NEW slot \in Slots, InstanceCreateResult(slot) PROVE Inv'
<1> USE DEF Inv
<1>1. /\ saving = "done" /\ client[slot] = "waiting"
      /\ client' = [client EXCEPT ![slot] = "settled"]
      /\ UNCHANGED <<requests, transports, identities, session, saving, form,
                     identity, account>>
      /\ \A s \in Slots : RequestsOf(s)' = RequestsOf(s)
  BY DEF InstanceCreateResult, Waiting, RequestsOf
<1>2. /\ client'[slot] = "settled"
      /\ \A s \in Slots : s # slot => client'[s] = client[s]
      /\ client' \in [Slots -> {"none", "waiting", "settled", "destroyed"}]
  BY <1>1 DEF TypeOK
<1>3. Verdicts(slot) = {} /\ log \in Seq(Entries) /\ agents \subseteq Instances
  BY <1>1 DEF OneVerdictPerResource, TypeOK
\* What the three ends of the job have in common.
<1>4. /\ log' \in Seq(Entries)
      /\ agents' \subseteq Instances
      /\ \A s \in Slots : s # slot =>
            /\ Agent(s)' = Agent(s)
            /\ Verdicts(s)' = Verdicts(s)
            /\ \A i \in Verdicts(s) : log'[i] = log[i]
      /\ \A a \in agents' : \E b \in agents :
            /\ a.session = b.session /\ a.slot = b.slot /\ a.type = b.type
            /\ a = b \/ (b.session = session /\ b.slot = slot)
      /\ \A b \in agents : \E a \in agents' :
            /\ a.session = b.session /\ a.slot = b.slot /\ a.type = b.type
      /\ \A a, b \in agents' : a.session = b.session /\ a.slot = b.slot => a = b
      /\ \E i \in Nat :
            /\ Verdicts(slot)' = {i}
            /\ \/ log'[i].kind = "error"
               \/ /\ log'[i].kind = "success"
                  /\ \E a \in Agent(slot)' : a.setup = "saved"
                  /\ \A a \in Agent(slot)' : a.setup = "saved"
  <2>1. CASE log' = Append(log, Entry(slot, "error")) /\ UNCHANGED agents
    <3>1. /\ log' \in Seq(Entries)
          /\ \A s \in Slots : s # slot =>
                /\ Verdicts(s)' = Verdicts(s)
                /\ \A i \in Verdicts(s) : log'[i] = log[i]
          /\ \E i \in Nat : Verdicts(slot)' = {i} /\ log'[i].kind = "error"
      BY <1>3, <2>1, ReportFact
    <3>2. \A s \in Slots : Agent(s)' = Agent(s)
      BY <1>1, <2>1 DEF Agent
    <3> QED
      BY <1>3, <2>1, <3>1, <3>2 DEF OneAgentPerRequest
  <2>2. CASE /\ \E request \in RequestsOf(slot) : request.state = "created"
             /\ \E outcome \in SetupOutcomes : Configure(slot, outcome)
    <3>1. PICK outcome \in SetupOutcomes : Configure(slot, outcome)
      BY <2>2
    <3>2. /\ outcome.kind \in {"success", "error"}
          /\ outcome.kind = "success" => outcome.setup = "saved"
      BY DEF SetupOutcomes
    <3>3. log' = Append(log, Entry(slot, "info")) \o <<Entry(slot, outcome.kind)>>
      BY <3>1 DEF Configure, Reported
    <3>4. /\ log' \in Seq(Entries)
          /\ \A s \in Slots : s # slot =>
                /\ Verdicts(s)' = Verdicts(s)
                /\ \A i \in Verdicts(s) : log'[i] = log[i]
          /\ \E i \in Nat : Verdicts(slot)' = {i} /\ log'[i].kind = outcome.kind
      BY <1>3, <3>2, <3>3, ReportFact
    <3>5. \A a, b \in agents : a.session = b.session /\ a.slot = b.slot => a = b
      BY DEF OneAgentPerRequest
    <3>6. /\ agents' \subseteq Instances
          /\ \A s \in Slots : s # slot => Agent(s)' = Agent(s)
          /\ \A a \in Agent(slot)' : a.setup = outcome.setup
          /\ \A a \in agents' : \E b \in agents :
                /\ a.session = b.session /\ a.slot = b.slot /\ a.type = b.type
                /\ a = b \/ (b.session = session /\ b.slot = slot)
          /\ \A b \in agents : \E a \in agents' :
                /\ a.session = b.session /\ a.slot = b.slot /\ a.type = b.type
          /\ \A a, b \in agents' : a.session = b.session /\ a.slot = b.slot => a = b
      BY <1>1, <1>3, <3>1, <3>5, ConfigureFact
    <3>7. \E a \in agents' : a.session = session /\ a.slot = slot
      <4>1. \E a \in agents : a.session = session /\ a.slot = slot
        BY <2>2 DEF OneAgentPerRequest, RequestsOf
      <4> QED
        BY <3>6, <4>1
    <3>8. \E a \in Agent(slot)' : TRUE
      BY <1>1, <3>7 DEF Agent
    <3> QED
      BY <3>2, <3>4, <3>6, <3>8
  <2> QED
    BY <2>1, <2>2 DEF InstanceCreateResult
<1>5. PICK i \in Nat :
         /\ Verdicts(slot)' = {i}
         /\ \/ log'[i].kind = "error"
            \/ /\ log'[i].kind = "success"
               /\ \E a \in Agent(slot)' : a.setup = "saved"
               /\ \A a \in Agent(slot)' : a.setup = "saved"
  BY <1>4
<1>6. TypeOK'
  BY <1>1, <1>2, <1>4 DEF TypeOK
<1>7. OneAgentPerRequest'
  <2>1. \A a \in agents' : \E q \in requests :
           q.session = a.session /\ q.slot = a.slot /\ q.state = "created"
    BY <1>4 DEF OneAgentPerRequest
  <2>2. \A q \in requests : q.state = "created" =>
           \E a \in agents' : a.session = q.session /\ a.slot = q.slot
    BY <1>4 DEF OneAgentPerRequest
  <2> QED
    BY <1>1, <1>4, <2>1, <2>2 DEF OneAgentPerRequest
<1>8. ClientsAreCurrent'
  <2>1. client'["incoming"] # "none"
    BY <1>1, <1>2 DEF ClientsAreCurrent, Slots
  <2>2. \A s \in Slots :
           /\ client'[s] = "none" => RequestsOf(s)' = {}
           /\ client'[s] \in {"waiting", "destroyed"} =>
                 \A a \in Agent(s)' : a.setup = "bare"
    BY <1>1, <1>2, <1>4 DEF ClientsAreCurrent
  <2> QED
    BY <1>1, <2>1, <2>2 DEF ClientsAreCurrent
<1>9. SavedSoFar'
  BY <1>1 DEF SavedSoFar, Taken
<1>10. ManualIsWatched'
  <2>1. ASSUME \E a \in Agent(slot)' : a.setup = "saved"
        PROVE  \A q \in RequestsOf(slot) : q.state # "sent"
    <3>1. \E q \in requests : q.session = session /\ q.slot = slot /\ q.state = "created"
      BY <1>1, <1>7, <2>1 DEF OneAgentPerRequest, Agent
    <3> QED
      BY <3>1 DEF OneAgentPerRequest, RequestsOf
  <2>2. \A q \in RequestsOf(slot)' : q.state = "sent" =>
           \E j \in Verdicts(slot)' : log'[j].kind = "error"
    BY <1>1, <1>5, <2>1
  <2> QED
    BY <1>1, <1>2, <1>4, <2>2 DEF ManualIsWatched
<1>11. NoSilentOrphan'
  <2>1. AccountedFor(slot)'
    BY <1>5 DEF AccountedFor
  <2>2. \A s \in Slots : s # slot /\ AccountedFor(s) => AccountedFor(s)'
    BY <1>2, <1>4 DEF AccountedFor
  <2> QED
    BY <1>1, <2>1, <2>2 DEF NoSilentOrphan
<1>12. ReportedSuccessIsReal'
  <2>1. \A s \in Slots : TypeOf(s, form)' = TypeOf(s, form)
    BY <1>1 DEF TypeOf
  <2> QED
    BY <1>4, <1>5, <2>1 DEF ReportedSuccessIsReal
<1>13. OneVerdictPerResource'
  <2>1. Cardinality(Verdicts(slot)') <= 1
    BY <1>5, AtMostOne, Zenon
  <2> QED
    BY <1>2, <1>4, <1>5, <2>1 DEF OneVerdictPerResource
<1>14. AgentIdentityExists'
  <2>1. \E i2 \in identities : i2.session = session
    BY <1>1 DEF SavedSoFar
  <2> QED
    BY <1>1, <1>4, <2>1 DEF AgentIdentityExists
<1>15. IdentityTransportExists' /\ IdentityNamesDiffer'
  BY <1>1 DEF IdentityTransportExists, IdentityNamesDiffer
<1> QED
  BY <1>1, <1>6, <1>7, <1>8, <1>9, <1>10, <1>11, <1>12, <1>13, <1>14, <1>15

\* What is left when a run ends refers to nothing that run has not stored.
THEOREM Stop_Inv == Inv /\ Stop => Inv'
<1> SUFFICES ASSUME Inv, Stop PROVE Inv'
  OBVIOUS
<1> USE DEF Inv
<1>1. /\ saving' = "off" /\ account' = "none" /\ client' = Idle /\ log' = <<>>
      /\ UNCHANGED <<requests, agents, transports, identities, session, form, identity>>
  BY DEF Stop, persistent
<1>2. \A s \in Slots : Verdicts(s)' = {} /\ client'[s] = "none"
  BY <1>1 DEF Verdicts, VerdictsIn, Idle
<1>3. TypeOK'
  BY <1>1 DEF TypeOK, Idle
<1>4. OneAgentPerRequest'
  BY <1>1 DEF OneAgentPerRequest
<1>5. ClientsAreCurrent'
  BY <1>1, <1>2 DEF ClientsAreCurrent, Idle
<1>6. SavedSoFar' /\ ManualIsWatched' /\ NoSilentOrphan'
  BY <1>1 DEF SavedSoFar, ManualIsWatched, NoSilentOrphan
<1>7. ReportedSuccessIsReal'
  BY <1>2 DEF ReportedSuccessIsReal
<1>8. OneVerdictPerResource'
  <2>1. \A s \in Slots : Cardinality(Verdicts(s)') <= 1
    BY <1>2, AtMostOne, Zenon
  <2> QED
    BY <1>2, <2>1 DEF OneVerdictPerResource
<1>9. AgentIdentityExists' /\ IdentityTransportExists' /\ IdentityNamesDiffer'
  BY <1>1 DEF AgentIdentityExists, IdentityTransportExists, IdentityNamesDiffer
<1> QED
  BY <1>1, <1>3, <1>4, <1>5, <1>6, <1>7, <1>8, <1>9

\* A new run has asked Akonadi for nothing and told the user nothing.
THEOREM Restart_Inv == Inv /\ Restart => Inv'
<1> SUFFICES ASSUME Inv, Restart PROVE Inv'
  OBVIOUS
<1> USE DEF Inv
<1>1. /\ saving = "off" /\ saving' = "no" /\ form' = NoForm
      /\ session' = session + 1 /\ session < MaxSessions
      /\ identity' = [name |-> 0, transport |-> FALSE]
      /\ UNCHANGED <<requests, agents, transports, identities, account, client, log>>
  BY DEF Restart, persistent
<1>2. client = Idle /\ log = <<>>
  BY <1>1 DEF ClientsAreCurrent
<1>3. \A s \in Slots : Verdicts(s)' = {} /\ client'[s] = "none"
  BY <1>1, <1>2 DEF Verdicts, VerdictsIn, Idle
<1>4. TypeOK'
  BY <1>1 DEF TypeOK, Sessions, Names
<1>5. OneAgentPerRequest' /\ \A s \in Slots : RequestsOf(s)' = {}
  <2>1. session \in Int /\ \A q \in requests : q.session \in Int
    BY DEF TypeOK, Requests, Sessions
  <2> QED
    BY <1>1, <2>1 DEF OneAgentPerRequest, RequestsOf
<1>6. ClientsAreCurrent'
  BY <1>1, <1>2, <1>3, <1>5 DEF ClientsAreCurrent
<1>7. SavedSoFar' /\ ManualIsWatched' /\ NoSilentOrphan'
  BY <1>1 DEF SavedSoFar, ManualIsWatched, NoSilentOrphan
<1>8. ReportedSuccessIsReal'
  BY <1>3 DEF ReportedSuccessIsReal
<1>9. OneVerdictPerResource'
  <2>1. \A s \in Slots : Cardinality(Verdicts(s)') <= 1
    BY <1>3, AtMostOne, Zenon
  <2> QED
    BY <1>3, <2>1 DEF OneVerdictPerResource
<1>10. AgentIdentityExists' /\ IdentityTransportExists' /\ IdentityNamesDiffer'
  BY <1>1 DEF AgentIdentityExists, IdentityTransportExists, IdentityNamesDiffer
<1> QED
  BY <1>1, <1>4, <1>5, <1>6, <1>7, <1>8, <1>9, <1>10

\* Steps that change nothing.
THEOREM Stutter_Inv == Inv /\ UNCHANGED vars => Inv'
<1> SUFFICES ASSUME Inv, UNCHANGED vars PROVE Inv'
  OBVIOUS
<1> USE DEF Inv
<1>1. UNCHANGED <<requests, agents, transports, identities, session, saving, form,
                  identity, account, client, log>>
  BY DEF vars, persistent, volatile
<1>2. \A s \in Slots :
         /\ Verdicts(s)' = Verdicts(s)
         /\ Agent(s)' = Agent(s)
         /\ RequestsOf(s)' = RequestsOf(s)
         /\ TypeOf(s, form)' = TypeOf(s, form)
  BY <1>1 DEF Verdicts, Agent, RequestsOf, TypeOf
<1>3. TypeOK' /\ OneAgentPerRequest' /\ SavedSoFar'
  BY <1>1 DEF TypeOK, OneAgentPerRequest, SavedSoFar, Taken
<1>4. ClientsAreCurrent' /\ ManualIsWatched'
  BY <1>1, <1>2 DEF ClientsAreCurrent, ManualIsWatched
<1>5. NoSilentOrphan' /\ ReportedSuccessIsReal' /\ OneVerdictPerResource'
  BY <1>1, <1>2
  DEF NoSilentOrphan, AccountedFor, ReportedSuccessIsReal, OneVerdictPerResource
<1>6. AgentIdentityExists' /\ IdentityTransportExists' /\ IdentityNamesDiffer'
  BY <1>1 DEF AgentIdentityExists, IdentityTransportExists, IdentityNamesDiffer
<1> QED
  BY <1>1, <1>3, <1>4, <1>5, <1>6

\* Inv is inductive.
THEOREM Next_Inv == Inv /\ [Next]_vars => Inv'
<1> SUFFICES ASSUME Inv, [Next]_vars PROVE Inv'
  OBVIOUS
<1>1. ASSUME NEW f \in Forms, SaveResource(f) PROVE Inv'
  BY <1>1, SaveResource_Inv
<1>2. CASE SaveGoesOn
  BY <1>2, SaveTransport_Inv, SaveGroupware_Inv, SaveIdentity_Inv DEF SaveGoesOn
<1>3. CASE DeferredDelete
  BY <1>3, DeferredDelete_Inv
<1>4. ASSUME NEW request \in requests, AkonadiAnswers(request) PROVE Inv'
  BY <1>4, AkonadiAnswers_Inv
<1>5. ASSUME NEW slot \in Slots, InstanceCreateResult(slot) PROVE Inv'
  BY <1>5, InstanceCreateResult_Inv
<1>6. CASE Stop
  BY <1>6, Stop_Inv
<1>7. CASE Restart
  BY <1>7, Restart_Inv
<1>8. CASE UNCHANGED vars
  BY <1>8, Stutter_Inv
<1> QED
  BY <1>1, <1>2, <1>3, <1>4, <1>5, <1>6, <1>7, <1>8 DEF Next

\* Every reachable state satisfies the invariant.
THEOREM CreationInvariant == Spec => []Inv
<1> QED
  BY Init_Inv, Next_Inv, PTL DEF Spec

\* Every variable keeps its type, for any number of runs of the wizard and any
\* set of unique agent types.
THEOREM TypeCorrect == Spec => []TypeOK
<1>1. Inv => TypeOK
  BY DEF Inv
<1> QED
  BY CreationInvariant, <1>1, PTL

-----------------------------------------------------------------------------
\* The properties the runs check.

\* A resource that DetailsPage reports as set up is set up
\* (resource.cpp:85, 150-180).
THEOREM SuccessIsReal == Spec => []ReportedSuccessIsReal
<1>1. Inv => ReportedSuccessIsReal
  BY DEF Inv
<1> QED
  BY <1>1, CreationInvariant, PTL

\* A resource is reported on once, and not while its job is waited for.
THEOREM OneVerdict == Spec => []OneVerdictPerResource
<1>1. Inv => OneVerdictPerResource
  BY DEF Inv
<1> QED
  BY <1>1, CreationInvariant, PTL

\* No crash leaves an agent that names an identity that was not saved
\* (accountconfiguration.cpp:128, 253).
THEOREM IdentityIsSavedFirst == Spec => []AgentIdentityExists
<1>1. Inv => AgentIdentityExists
  BY DEF Inv
<1> QED
  BY <1>1, CreationInvariant, PTL

\* No saved identity refers to a transport that was not stored
\* (accountconfiguration.cpp:227-253).
THEOREM TransportIsStoredFirst == Spec => []IdentityTransportExists
<1>1. Inv => IdentityTransportExists
  BY DEF Inv
<1> QED
  BY <1>1, CreationInvariant, PTL

\* However many runs the wizard has, their identities have different names.
THEOREM NamesDiffer == Spec => []IdentityNamesDiffer
<1>1. Inv => IdentityNamesDiffer
  BY DEF Inv
<1> QED
  BY <1>1, CreationInvariant, PTL

\* The manual path loses sight of no agent.
THEOREM ManualLosesNothing == Spec => []NoSilentOrphan
<1>1. Inv => NoSilentOrphan
  BY DEF Inv
<1> QED
  BY <1>1, CreationInvariant, PTL

\* An agent is written only by the run that asked for it, together with its
\* object's report (resource.cpp:98-183).
THEOREM OnlyTheRunWrites == Spec => OnlyTheRunConfigures
<1> DEFINE Written ==
              \A a \in agents' :
                 (a.setup # "bare" /\ a \notin agents) =>
                     /\ a.session = session
                     /\ client[a.slot] = "waiting" /\ client'[a.slot] = "settled"
<1>1. Inv /\ [Next]_vars => Written \/ UNCHANGED vars
  <2> SUFFICES ASSUME Inv, Next PROVE Written
    OBVIOUS
  <2>1. CASE UNCHANGED agents
    BY <2>1
  <2>2. ASSUME NEW request \in requests, AkonadiAnswers(request) PROVE Written
    BY <2>2 DEF AkonadiAnswers
  <2>3. ASSUME NEW slot \in Slots, InstanceCreateResult(slot) PROVE Written
    <3>1. CASE UNCHANGED agents
      BY <3>1
    <3>2. CASE \E outcome \in SetupOutcomes : Configure(slot, outcome)
      <4>1. \A a \in agents' : a \notin agents => a.session = session /\ a.slot = slot
        BY <3>2 DEF Configure, OfThisJob, Inv, TypeOK, Instances
      <4>2. client[slot] = "waiting" /\ client'[slot] = "settled"
        BY <2>3 DEF InstanceCreateResult, Waiting, Inv, TypeOK
      <4> QED
        BY <4>1, <4>2
    <3> QED
      BY <2>3, <3>1, <3>2 DEF InstanceCreateResult
  <2> QED
    BY <2>1, <2>2, <2>3
    DEF Next, SaveResource, SaveGoesOn, SaveTransport, SaveGroupware, SaveIdentity,
        DeferredDelete, Stop, Restart, persistent
<1>2. Inv /\ [Next]_vars => [Written]_vars
  BY <1>1
<1> QED
  BY <1>2, CreationInvariant, PTL DEF Spec, OnlyTheRunConfigures
=============================================================================
