---------------------------- MODULE MCSdkClient ----------------------------
(***************************************************************************)
(* Model checking of SdkClient.                                            *)
(***************************************************************************)
EXTENDS SdkClient

CONSTANTS c1, c2

Submitted(lane, skipPreflight, maxRetries) ==
    [lane |-> lane, skipPreflight |-> skipPreflight, maxRetries |-> maxRetries]

\* Both lanes with and without preflight and tightening.
Careful ==
    [cuPrice |-> 0, cuLimit |-> 0, tighten |-> TRUE,
     submit |-> Submitted("l1", FALSE, 2), bytes |-> 1232, use |-> 300]
Routed ==
    [Careful EXCEPT !.cuLimit = 60, !.submit = Submitted("router", TRUE, 2), !.use = 50]

\* Overrides beyond the policy's bounds.
Greedy ==
    [Careful EXCEPT !.cuPrice = 200, !.cuLimit = 2000, !.tighten = FALSE,
                    !.submit = Submitted("l1", TRUE, 2)]
Frugal ==
    [Careful EXCEPT !.cuPrice = 4, !.tighten = FALSE,
                    !.submit = Submitted("router", FALSE, 1)]

\* No attempts at all, and a transaction one byte too large.
Never == [Careful EXCEPT !.submit = Submitted("l1", FALSE, 0)]
Bulky == [Careful EXCEPT !.bytes = 1233]

SomeWorkloads ==
    {[c \in Callers |-> IF c = c1 THEN pair[1] ELSE pair[2]] :
        pair \in {<<Careful, Routed>>, <<Greedy, Frugal>>, <<Never, Bulky>>}}

=============================================================================
