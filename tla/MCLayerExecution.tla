-------------------------- MODULE MCLayerExecution --------------------------
(***************************************************************************)
(* Model checking of LayerExecution.                                       *)
(***************************************************************************)
EXTENDS LayerExecution, TLC

CONSTANTS c1, c2

\* One plan in each of two layers.
OneThenOne == (c1 :> 1) @@ (c2 :> 2)

\* Nothing is merged.
OneEach == <<1, 1>>

\* No rollup; the sender checks the blockhash.
PlainOption ==
    {[er |-> FALSE, requireRouter |-> FALSE, dryRun |-> FALSE, preCheck |-> TRUE]}

=============================================================================
