---------------------------- MODULE IspdbService ----------------------------
(***************************************************************************)
(* IspdbService (src/src/ispdbservice.cpp): the lookup of the servers of a *)
(* mail provider.  A search asks four sites one after the other; the next  *)
(* site is asked when the HTTP status of the last one is not 200.  Nothing *)
(* cancels a search: several may be running, and their replies arrive in   *)
(* any order.                                                              *)
(*                                                                         *)
(* The number of a search, "started" and "outcome" are history: the        *)
(* program numbers nothing and remembers no signal.                        *)
(***************************************************************************)
EXTENDS Naturals, FiniteSets

CONSTANTS
    Addresses,          \* the mail addresses that can be searched for
    Replies,            \* what a site may answer
    MaxSearches         \* bound: how often the user starts a search

\* "malformed": QDomDocument cannot parse the body (an unreachable site has an
\* empty one); "other": XML without an emailProvider element; "provider": XML
\* with one, of which imap and pop incoming servers could be read.
XmlKinds == {"malformed", "other", "provider"}

ASSUME RepliesAssumption ==
    Replies \subseteq [ok : BOOLEAN, xml : XmlKinds, imap : Nat, pop : Nat]
ASSUME SearchBoundAssumption == MaxSearches \in Nat

Searches == 1..MaxSearches

\* enum IspdbService::DataBase
DataBase           == 0
IspHttpsAutoConfig == 1
IspAutoConfig      == 2
IspWellKnow        == 3
Last               == IspWellKnow
Stages             == DataBase..Last

Requests == [search : Searches, addr : Addresses, stage : Stages]

Signals == {"finished", "notConfigFound"}

VARIABLES
    inflight,           \* the requests the network has not answered
    started,            \* how many searches were started
    outcome             \* the signals emitted for each search

ispdbVars == <<inflight, started, outcome>>

IspdbTypeOK ==
    /\ inflight \in SUBSET Requests
    /\ started \in 0..MaxSearches
    /\ outcome \in [Searches -> SUBSET Signals]

IspdbInit ==
    /\ inflight = {}
    /\ started = 0
    /\ outcome = [s \in Searches |-> {}]

RequestConfig(search, addr, stage) ==
    [search |-> search, addr |-> addr, stage |-> stage]

\* Mutation: a lookup that starts at the provider's own server and leaves out
\* the database.
StartAtAutoConfig(addr) ==
    /\ started < MaxSearches
    /\ started' = started + 1
    /\ inflight' = inflight \cup {RequestConfig(started', addr, IspHttpsAutoConfig)}
    /\ UNCHANGED outcome

Start(addr) ==
    /\ started < MaxSearches
    /\ started' = started + 1
    /\ inflight' = inflight \cup {RequestConfig(started', addr, DataBase)}
    /\ UNCHANGED outcome

\* Mutation: every site is asked as soon as the first one failed.
RetriedEverywhere(r, reply) ==
    IF ~reply.ok /\ r.stage # Last
    THEN {RequestConfig(r.search, r.addr, stage) : stage \in (r.stage + 1)..Last}
    ELSE {}

\* Mutation: the test for the last stage is forgotten.
RetriedPastLast(r, reply) ==
    IF ~reply.ok
    THEN {RequestConfig(r.search, r.addr, r.stage + 1)}
    ELSE {}

\* Mutation: a failure of the database is final.
RetriedOnlyAutoConfig(r, reply) ==
    IF ~reply.ok /\ r.stage \notin {DataBase, Last}
    THEN {RequestConfig(r.search, r.addr, r.stage + 1)}
    ELSE {}

\* The request the finished lambda sends before it looks at the body.
Retried(r, reply) ==
    IF ~reply.ok /\ r.stage # Last
    THEN {RequestConfig(r.search, r.addr, r.stage + 1)}
    ELSE {}

\* Mutation: the test for the last site is forgotten.
NotConfigFoundAnywhere(r, reply) == reply.xml = "malformed"

NotConfigFound(r, reply) == reply.xml = "malformed" /\ r.stage = IspWellKnow

Finished(r, reply) == reply.xml = "provider"

\* The finished lambda of a reply: the next request, if any, then handleReply,
\* whatever the status was.
ReplyFinished(r, reply) ==
    /\ r \in inflight
    /\ inflight' = (inflight \ {r}) \cup Retried(r, reply)
    /\ outcome' = [outcome EXCEPT ![r.search] = @
                      \cup {e \in {"finished"}       : Finished(r, reply)}
                      \cup {e \in {"notConfigFound"} : NotConfigFound(r, reply)}]
    /\ UNCHANGED started

Answered(s) ==
    \E r \in inflight, reply \in Replies : r.search = s /\ ReplyFinished(r, reply)

IspdbNext ==
    \/ \E addr \in Addresses : Start(addr)
    \/ \E s \in Searches : Answered(s)

IspdbSpec == IspdbInit /\ [][IspdbNext]_ispdbVars

-----------------------------------------------------------------------------
\* Every site either has the configuration, or says so with an error and an
\* empty body.
PoliteReplies ==
    \A reply \in Replies : reply.xml # "other" /\ (reply.ok <=> reply.xml = "provider")

\* A search never asks two sites at a time, whatever its replies were: the
\* lambda of a reply sends at most one request and its own is over
\* (ispdbservice.cpp:52-63).
OneRequestPerSearch ==
    \A q, r \in inflight : q.search = r.search => q = r

\* Nothing is asked or reported for a search the user has not started.
OnlyStartedSearches ==
    /\ \A r \in inflight : r.search <= started
    /\ \A s \in Searches : outcome[s] # {} => s <= started

\* The inductive invariant of the lookups.
IspdbInv == IspdbTypeOK /\ OneRequestPerSearch /\ OnlyStartedSearches

\* If every site is polite a search ends with one signal: it never both
\* offers a provider and claims that there is none, and it says nothing before
\* its last request is answered (ispdbservice.cpp:53-61, 71-76).
OneVerdictPerSearch ==
    PoliteReplies =>
        \A s \in Searches :
            /\ Cardinality(outcome[s]) <= 1
            /\ (\E r \in inflight : r.search = s) => outcome[s] = {}

\* If every site is polite, every search ends with a signal: a chain that is
\* passed from handler to handler is not dropped on the way.
EverySearchIsSettled ==
    PoliteReplies => \A s \in Searches : started >= s ~> outcome[s] # {}

\* The searches walk the sites as LookupChain says.
RunningAt(s) == (CHOOSE r \in inflight : r.search = s).stage + 1

Cursor ==
    [s \in Searches |->
        IF s > started THEN 0
        ELSE IF \E r \in inflight : r.search = s THEN RunningAt(s) ELSE 5]

GaveUp == {s \in Searches : "notConfigFound" \in outcome[s]}

Chain == INSTANCE LookupChain WITH cursor <- Cursor, gaveUp <- GaveUp

\* Every search walks the sites in order, ends, and gives up only after the
\* last site, as LookupChain promises.
ImplementsLookupChain == Chain!FairSpec
=============================================================================
