------------------------------ MODULE Breaker ------------------------------
(***************************************************************************)
(* What the circuit breaker of the session client promises, however the    *)
(* requests of concurrent sessions overlap and whatever it counts: it      *)
(* opens for one cooldown, only at a failure, and only if enough requests  *)
(* failed with no success between them; it refuses requests only while it  *)
(* is open; and a success, or the first request after the cooldown, closes *)
(* it.                                                                     *)
(***************************************************************************)
EXTENDS Naturals

CONSTANTS
    Tasks,      \* who makes requests
    Threshold,  \* failures in a row that may open the breaker
    Cooldown    \* how long it then stays open

VARIABLES
    now,        \* the time
    streak,     \* requests that failed since the last that succeeded
    until,      \* when the breaker is open no more, zero if it was closed since
    refused     \* the tasks whose request was refused

vars == <<now, streak, until, refused>>

Open == now < until

Init == now = 0 /\ streak = 0 /\ until = 0 /\ refused = {}

\* A failure of a request sent before the breaker opened may open it again.
Fail ==
    /\ streak' = streak + 1
    /\ \/ UNCHANGED until
       \/ streak' >= Threshold /\ until' = now + Cooldown
    /\ UNCHANGED <<now, refused>>

Succeed == streak' = 0 /\ until' = 0 /\ UNCHANGED <<now, refused>>

Close == ~ Open /\ until' = 0 /\ UNCHANGED <<now, streak, refused>>

Refuse(t) ==
    /\ Open /\ t \notin refused
    /\ refused' = refused \cup {t}
    /\ UNCHANGED <<now, streak, until>>

HandBack(t) ==
    /\ t \in refused
    /\ refused' = refused \ {t}
    /\ UNCHANGED <<now, streak, until>>

Tick == now' = now + 1 /\ UNCHANGED <<streak, until, refused>>

Next == Fail \/ Succeed \/ Close \/ (\E t \in Tasks : Refuse(t) \/ HandBack(t)) \/ Tick

Spec == Init /\ [][Next]_vars

=============================================================================
