---------------------------- MODULE SingleFlight ----------------------------
(***************************************************************************)
(* What the blockhash manager promises about its refreshes, with no lock,  *)
(* flag or program counter: fetches do not overlap, and what a fetch       *)
(* installs was asked for no earlier than anything installed before it.    *)
(***************************************************************************)
EXTENDS Naturals

CONSTANTS
    Tasks,      \* who may fetch
    NoTask      \* nobody is fetching; not one of Tasks

VARIABLES
    clock,      \* the time
    fetcher,    \* who is fetching
    since,      \* when that fetch began
    newest      \* when the fetch of the last installed value began

vars == <<clock, fetcher, since, newest>>

Init ==
    /\ clock = 1
    /\ fetcher = NoTask
    /\ since = 0
    /\ newest = 0

Begin(t) ==
    /\ fetcher = NoTask
    /\ fetcher' = t
    /\ since' = clock
    /\ UNCHANGED <<clock, newest>>

Install(t) ==
    /\ fetcher = t
    /\ since >= newest
    /\ newest' = since
    /\ fetcher' = NoTask
    /\ since' = 0
    /\ UNCHANGED clock

Abandon(t) ==
    /\ fetcher = t
    /\ fetcher' = NoTask
    /\ since' = 0
    /\ UNCHANGED <<clock, newest>>

Tick ==
    /\ clock' = clock + 1
    /\ UNCHANGED <<fetcher, since, newest>>

Next ==
    \/ \E t \in Tasks : Begin(t) \/ Install(t) \/ Abandon(t)
    \/ Tick

Spec == Init /\ [][Next]_vars

=============================================================================
