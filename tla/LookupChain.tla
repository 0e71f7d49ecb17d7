---------------------------- MODULE LookupChain ----------------------------
(***************************************************************************)
(* What a lookup of provider configurations promises, without requests or  *)
(* documents.  Every search walks the four lookup sites in order, one at a *)
(* time, never goes back to a site it has left, and may declare that       *)
(* nothing was found only when it leaves the last of them.                 *)
(***************************************************************************)
EXTENDS Naturals

CONSTANT MaxSearches    \* a natural number

Searches == 1..MaxSearches

NotBegun == 0           \* the search has not been asked for
Sites    == 1..4        \* the position of a running search
LastSite == 4
Over     == 5           \* the search asks nobody any more

VARIABLES
    cursor,             \* [Searches -> position]
    gaveUp              \* the searches that reported "no configuration"

vars == <<cursor, gaveUp>>

TypeOK ==
    /\ cursor \in [Searches -> {NotBegun, Over} \cup Sites]
    /\ gaveUp \in SUBSET Searches

Init ==
    /\ cursor = [s \in Searches |-> NotBegun]
    /\ gaveUp = {}

Begin(s) ==
    /\ cursor[s] = NotBegun
    /\ cursor' = [cursor EXCEPT ![s] = 1]
    /\ UNCHANGED gaveUp

Advance(s) ==
    /\ cursor[s] \in Sites \ {LastSite}
    /\ cursor' = [cursor EXCEPT ![s] = cursor[s] + 1]
    /\ UNCHANGED gaveUp

\* The search got an answer it stops at, whether or not it is of any use.
Stop(s) ==
    /\ cursor[s] \in Sites
    /\ cursor' = [cursor EXCEPT ![s] = Over]
    /\ UNCHANGED gaveUp

GiveUp(s) ==
    /\ cursor[s] = LastSite
    /\ cursor' = [cursor EXCEPT ![s] = Over]
    /\ gaveUp' = gaveUp \cup {s}

Progress(s) == Advance(s) \/ Stop(s) \/ GiveUp(s)

Next == \E s \in Searches : Begin(s) \/ Progress(s)

Spec == Init /\ [][Next]_vars

FairSpec == Spec /\ \A s \in Searches : WF_vars(Progress(s))
=============================================================================
