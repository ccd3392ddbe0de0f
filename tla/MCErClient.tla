----------------------------- MODULE MCErClient -----------------------------
(***************************************************************************)
(* Model checking of ErClient.                                             *)
(***************************************************************************)
EXTENDS ErClient

Opt(override, require, skip) ==
    [override |-> override, require |-> require, skip |-> skip]

\* No override; an override that is another host, with and without the router
\* required; and one that is the router itself.
AllOptions ==
    {Opt("none", FALSE, FALSE), Opt("other", FALSE, TRUE),
     Opt("other", TRUE, FALSE), Opt("router", FALSE, FALSE)}

=============================================================================
