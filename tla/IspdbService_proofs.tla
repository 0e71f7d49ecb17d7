------------------------ MODULE IspdbService_proofs ------------------------
(***************************************************************************)
(* What holds of IspdbService for every set of addresses, every set of     *)
(* replies and every number of searches: its inductive invariant, and that *)
(* each of its steps is a step of LookupChain or a stutter.                *)
(***************************************************************************)
EXTENDS IspdbService, TLAPS

USE SearchBoundAssumption

\* A site that failed leads to at most one request, of the same search.
LEMMA RetriedFact ==
    ASSUME NEW r \in Requests, NEW reply
    PROVE  /\ Retried(r, reply) \subseteq Requests
           /\ \A q \in Retried(r, reply) :
                 q.search = r.search /\ q.stage = r.stage + 1 /\ r.stage # Last
           /\ \A p, q \in Retried(r, reply) : p = q
  BY DEF Retried, RequestConfig, Requests, Stages, Last, IspWellKnow, DataBase

\* The signals a reply adds are those of its own search.
LEMMA OutcomeFact ==
    ASSUME IspdbTypeOK, NEW r \in inflight, NEW reply, ReplyFinished(r, reply)
    PROVE  /\ outcome' \in [Searches -> SUBSET Signals]
           /\ \A s \in Searches \ {r.search} : outcome'[s] = outcome[s]
  BY DEF IspdbTypeOK, Requests, ReplyFinished, Signals

\* Before the first search nothing is asked.
THEOREM IspdbInit_Inv == IspdbInit => IspdbInv
  BY DEF IspdbInit, IspdbInv, IspdbTypeOK, OneRequestPerSearch, OnlyStartedSearches

\* A new search has a number, and thus a request, of its own.
THEOREM Start_Inv ==
    ASSUME IspdbInv, NEW addr \in Addresses, Start(addr)
    PROVE  IspdbInv'
<1> DEFINE new == RequestConfig(started', addr, DataBase)
<1>1. started' \in Searches /\ started' = started + 1 /\ started \in Nat
  BY DEF IspdbInv, IspdbTypeOK, Start, Searches
<1>2. new \in Requests /\ new.search = started'
  BY <1>1 DEF RequestConfig, Requests, Stages, Last, IspWellKnow, DataBase
<1>3. inflight' = inflight \cup {new} /\ outcome' = outcome
  BY DEF Start
<1>4. IspdbTypeOK'
  BY <1>1, <1>2, <1>3 DEF IspdbInv, IspdbTypeOK, Searches
<1>5. \A r \in inflight : r.search <= started /\ r \in Requests
  BY DEF IspdbInv, IspdbTypeOK, OnlyStartedSearches
<1>6. OneRequestPerSearch'
  BY <1>1, <1>2, <1>3, <1>5 DEF IspdbInv, OneRequestPerSearch, Requests, Searches
<1>7. OnlyStartedSearches'
  BY <1>1, <1>2, <1>3, <1>5 DEF IspdbInv, OnlyStartedSearches, Requests, Searches
<1> QED
  BY <1>4, <1>6, <1>7 DEF IspdbInv

\* A reply ends its request before the next one of its search is sent.
THEOREM ReplyFinished_Inv ==
    ASSUME IspdbInv, NEW r \in inflight, NEW reply \in Replies,
           ReplyFinished(r, reply)
    PROVE  IspdbInv'
<1>1. r \in Requests /\ inflight \subseteq Requests
  BY DEF IspdbInv, IspdbTypeOK
<1>2. inflight' = (inflight \ {r}) \cup Retried(r, reply) /\ started' = started
  BY DEF ReplyFinished
<1>3. IspdbTypeOK'
  BY <1>1, <1>2, RetriedFact, OutcomeFact DEF IspdbInv, IspdbTypeOK
<1>4. OneRequestPerSearch'
  <2>1. \A q \in inflight \ {r} : q.search # r.search
    BY DEF IspdbInv, OneRequestPerSearch
  <2> QED
    BY <1>1, <1>2, <2>1, RetriedFact DEF IspdbInv, OneRequestPerSearch
<1>5. OnlyStartedSearches'
  <2>1. r.search <= started
    BY DEF IspdbInv, OnlyStartedSearches
  <2> QED
    BY <1>1, <1>2, <2>1, RetriedFact, OutcomeFact
    DEF IspdbInv, OnlyStartedSearches
<1> QED
  BY <1>3, <1>4, <1>5 DEF IspdbInv

\* Every step, of IspdbService or of a module that uses it, keeps the invariant.
THEOREM IspdbNext_Inv == IspdbInv /\ [IspdbNext]_ispdbVars => IspdbInv'
<1> SUFFICES ASSUME IspdbInv, [IspdbNext]_ispdbVars
             PROVE  IspdbInv'
  OBVIOUS
<1>1. CASE \E addr \in Addresses : Start(addr)
  BY <1>1, Start_Inv
<1>2. CASE \E s \in Searches : Answered(s)
  BY <1>2, ReplyFinished_Inv DEF Answered
<1>3. CASE UNCHANGED ispdbVars
  BY <1>3 DEF ispdbVars, IspdbInv, IspdbTypeOK, OneRequestPerSearch, OnlyStartedSearches
<1> QED
  BY <1>1, <1>2, <1>3 DEF IspdbNext

\* A search never asks two sites at a time, and no variable leaves its type.
THEOREM IspdbInvariant == IspdbSpec => [](IspdbTypeOK /\ OneRequestPerSearch)
<1>1. IspdbInv => IspdbTypeOK /\ OneRequestPerSearch
  BY DEF IspdbInv
<1> QED
  BY <1>1, IspdbInit_Inv, IspdbNext_Inv, PTL DEF IspdbSpec
-----------------------------------------------------------------------------
(***************************************************************************)
(* The refinement.  A running search has one request, so the CHOOSE of its *)
(* stage picks that one.                                                   *)
(***************************************************************************)
LEMMA RunningAtFact ==
    ASSUME OneRequestPerSearch, NEW r \in inflight
    PROVE  RunningAt(r.search) = r.stage + 1
<1>1. \A q \in inflight : q.search = r.search => q = r
  BY DEF OneRequestPerSearch
<1>2. (CHOOSE q \in inflight : q.search = r.search) = r
  BY <1>1
<1> QED
  BY <1>2 DEF RunningAt

\* The position of a search that has a request, and of one that has none.
LEMMA CursorFact ==
    ASSUME IspdbInv, NEW r \in inflight
    PROVE  r.search \in Searches /\ Cursor[r.search] = r.stage + 1
  BY RunningAtFact
  DEF Cursor, IspdbInv, IspdbTypeOK, OnlyStartedSearches, Requests, Searches

\* The same after a step.
LEMMA CursorFactPrimed ==
    ASSUME IspdbInv', NEW r \in inflight'
    PROVE  r.search \in Searches /\ Cursor'[r.search] = r.stage + 1
<1>1. \A q \in inflight' : q.search = r.search => q = r
  BY DEF IspdbInv, OneRequestPerSearch
<1>2. (CHOOSE q \in inflight' : q.search = r.search) = r
  BY <1>1
<1>3. RunningAt(r.search)' = r.stage + 1
  BY <1>2 DEF RunningAt
<1> QED
  BY <1>3
  DEF Cursor, IspdbInv, IspdbTypeOK, OnlyStartedSearches, Requests, Searches

\* A step that neither starts t nor touches its request does not move it.
LEMMA CursorFrame ==
    ASSUME NEW t \in Searches,
           \A q : (q \in inflight' /\ q.search = t) <=> (q \in inflight /\ q.search = t),
           t > started' <=> t > started
    PROVE  Cursor'[t] = Cursor[t]
<1>1. (CHOOSE q \in inflight' : q.search = t) = (CHOOSE q \in inflight : q.search = t)
  OBVIOUS
<1>2. RunningAt(t)' = RunningAt(t)
  BY <1>1 DEF RunningAt
<1>3. (\E q \in inflight' : q.search = t) <=> (\E q \in inflight : q.search = t)
  OBVIOUS
<1> QED
  BY <1>2, <1>3 DEF Cursor

\* A step that moves only s changes the cursor at s only.
LEMMA CursorExcept ==
    ASSUME NEW s \in Searches, NEW value, Cursor'[s] = value,
           \A t \in Searches \ {s} : Cursor'[t] = Cursor[t]
    PROVE  Cursor' = [Cursor EXCEPT ![s] = value]
<1>1. /\ Cursor' = [t \in Searches |-> Cursor'[t]]
      /\ Cursor = [t \in Searches |-> Cursor[t]]
  BY DEF Cursor
<1> QED
  BY <1>1

\* No search has begun in the abstract chain either.
THEOREM ChainInit == IspdbInit => Chain!Init
<1> SUFFICES ASSUME IspdbInit PROVE Chain!Init
  OBVIOUS
<1>1. Cursor = [s \in Searches |-> 0]
  BY DEF IspdbInit, Cursor, Searches
<1>2. GaveUp = {}
  BY DEF IspdbInit, GaveUp
<1> QED
  BY <1>1, <1>2 DEF Chain!Init, Chain!Searches, Chain!NotBegun, Searches

\* Starting a search begins a chain and leaves the others alone.
THEOREM StartSimulates ==
    ASSUME IspdbInv, NEW addr \in Addresses, Start(addr)
    PROVE  Chain!Next
<1>1. PICK s \in Searches : s = started' /\ s = started + 1 /\ started \in Nat
  BY DEF IspdbInv, IspdbTypeOK, Start, Searches
<1> DEFINE new == RequestConfig(s, addr, DataBase)
<1>2. IspdbInv'
  BY Start_Inv
<1>3. inflight' = inflight \cup {new} /\ new.search = s /\ new.stage = 0
  BY <1>1 DEF Start, RequestConfig, DataBase
<1>4. Cursor[s] = 0
  BY <1>1 DEF Cursor
<1>5. Cursor'[s] = 1
  BY <1>2, <1>3, CursorFactPrimed
<1>6. ASSUME NEW t \in Searches \ {s} PROVE Cursor'[t] = Cursor[t]
  <2>1. t > started' <=> t > started
    BY <1>1 DEF Searches
  <2> QED
    BY <1>3, <2>1, CursorFrame
<1>7. Cursor' = [Cursor EXCEPT ![s] = 1]
  BY <1>5, <1>6, CursorExcept
<1>8. GaveUp' = GaveUp
  BY DEF Start, GaveUp
<1> QED
  BY <1>4, <1>7, <1>8
  DEF Chain!Next, Chain!Begin, Chain!Searches, Chain!NotBegun, Searches

\* A reply lets its chain go to the next site, stop, or give up at the last.
THEOREM ReplySimulates ==
    ASSUME IspdbInv, NEW r \in inflight, NEW reply \in Replies,
           ReplyFinished(r, reply)
    PROVE  Chain!Next
<1> DEFINE s == r.search
<1>1. /\ s \in Searches /\ r.stage \in Stages /\ r \in Requests
      /\ Cursor[s] = r.stage + 1
  BY CursorFact DEF IspdbInv, IspdbTypeOK, Requests
<1>2. IspdbInv'
  BY ReplyFinished_Inv
<1>3. inflight' = (inflight \ {r}) \cup Retried(r, reply) /\ started' = started
  BY DEF ReplyFinished
<1>4. \A q \in inflight \ {r} : q.search # s
  BY DEF IspdbInv, OneRequestPerSearch
<1>5. \A q \in Retried(r, reply) : q.search = s /\ q.stage = r.stage + 1 /\ r.stage # Last
  BY <1>1, RetriedFact
<1>6. \A t \in Searches \ {s} : Cursor'[t] = Cursor[t]
  <2> TAKE t \in Searches \ {s}
  <2>1. \A q : (q \in inflight' /\ q.search = t) <=> (q \in inflight /\ q.search = t)
    BY <1>3, <1>5
  <2> QED
    BY <1>3, <2>1, CursorFrame
<1>7. /\ Cursor[s] \in Chain!Sites
      /\ r.stage # Last => Cursor[s] # Chain!LastSite
      /\ r.stage = IspWellKnow => Cursor[s] = Chain!LastSite
  BY <1>1 DEF Chain!Sites, Chain!LastSite, Stages, Last, IspWellKnow, DataBase
<1>8. CASE Retried(r, reply) # {}
  <2>1. PICK q \in Retried(r, reply) : q \in inflight'
    BY <1>3, <1>8
  <2>2. Cursor'[s] = Cursor[s] + 1
    BY <1>1, <1>2, <1>5, <2>1, CursorFactPrimed DEF Stages, Last, IspWellKnow, DataBase
  <2>3. Cursor' = [Cursor EXCEPT ![s] = Cursor[s] + 1]
    BY <1>1, <1>6, <2>2, CursorExcept
  <2>4. r.stage # Last
    BY <1>5, <2>1
  <2>5. GaveUp' = GaveUp
    BY <1>1, <2>4 DEF ReplyFinished, NotConfigFound, GaveUp, Last, IspdbInv, IspdbTypeOK
  <2> QED
    BY <1>1, <1>7, <2>3, <2>4, <2>5
    DEF Chain!Next, Chain!Progress, Chain!Advance, Chain!Searches, Searches
<1>9. CASE Retried(r, reply) = {}
  <2>1. ~ \E q \in inflight' : q.search = s
    BY <1>3, <1>4, <1>9
  <2>2. s <= started
    BY DEF IspdbInv, OnlyStartedSearches
  <2>3. Cursor'[s] = 5
    BY <1>1, <1>3, <2>1, <2>2 DEF Cursor, Searches, IspdbInv, IspdbTypeOK
  <2>4. Cursor' = [Cursor EXCEPT ![s] = 5]
    BY <1>1, <1>6, <2>3, CursorExcept
  <2>5. CASE NotConfigFound(r, reply)
    <3>1. GaveUp' = GaveUp \cup {s} /\ r.stage = IspWellKnow
      BY <1>1, <2>5 DEF ReplyFinished, NotConfigFound, GaveUp, IspdbInv, IspdbTypeOK
    <3> QED
      BY <1>1, <1>7, <2>4, <3>1
      DEF Chain!Next, Chain!Progress, Chain!GiveUp, Chain!Over, Chain!Searches, Searches
  <2>6. CASE ~NotConfigFound(r, reply)
    <3>1. GaveUp' = GaveUp
      BY <1>1, <2>6 DEF ReplyFinished, NotConfigFound, GaveUp, IspdbInv, IspdbTypeOK
    <3> QED
      BY <1>1, <1>7, <2>4, <3>1
      DEF Chain!Next, Chain!Progress, Chain!Stop, Chain!Over, Chain!Searches, Searches
  <2> QED
    BY <2>5, <2>6
<1> QED
  BY <1>8, <1>9

\* Every step of the lookups is a step of the abstract chain or leaves it as it
\* is, whatever the sites answer (ispdbservice.cpp:52-76).
THEOREM ChainStep ==
    IspdbInv /\ [IspdbNext]_ispdbVars => [Chain!Next]_(Chain!vars)
<1> SUFFICES ASSUME IspdbInv, [IspdbNext]_ispdbVars
             PROVE  [Chain!Next]_(Chain!vars)
  OBVIOUS
<1>1. CASE \E addr \in Addresses : Start(addr)
  BY <1>1, StartSimulates
<1>2. CASE \E s \in Searches : Answered(s)
  BY <1>2, ReplySimulates DEF Answered
<1>3. CASE UNCHANGED ispdbVars
  BY <1>3 DEF ispdbVars, Chain!vars, Cursor, RunningAt, GaveUp
<1> QED
  BY <1>1, <1>2, <1>3 DEF IspdbNext

\* IspdbService walks the sites in order, and reports that there is no
\* configuration only after the last of them.
THEOREM ImplementsChain == IspdbSpec => Chain!Spec
<1>1. IspdbSpec => []IspdbInv
  BY IspdbInit_Inv, IspdbNext_Inv, PTL DEF IspdbSpec
<1> QED
  BY <1>1, ChainInit, ChainStep, PTL DEF IspdbSpec, Chain!Spec
=============================================================================
