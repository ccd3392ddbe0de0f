-------------------------- MODULE MCLayerPipeline --------------------------
(***************************************************************************)
(* Model checking of LayerPipeline.                                        *)
(***************************************************************************)
EXTENDS LayerPipeline, TLC

CONSTANTS c1, c2, c3

\* Three plans that share a layer.
OneLayer == (c1 :> 1) @@ (c2 :> 1) @@ (c3 :> 1)

ThreePlans == <<3>>

\* Two plans that share a layer, and one in the layer after it.
TwoThenOne == (c1 :> 1) @@ (c2 :> 1) @@ (c3 :> 2)

\* The single plan of the second layer is what two were merged into.
LastIsMerged == <<2, 2>>

Opt(er, require, dry, check) ==
    [er |-> er, requireRouter |-> require, dryRun |-> dry, preCheck |-> check]

\* Sending for real: without the rollup, with it, and with it required.
LiveOptions ==
    {Opt(FALSE, FALSE, FALSE, TRUE), Opt(TRUE, FALSE, FALSE, TRUE),
     Opt(TRUE, TRUE, FALSE, FALSE)}

\* Those, and a dry run of each.
AllOptions == {[o EXCEPT !.dryRun = d] : o \in LiveOptions, d \in BOOLEAN}

DryRuns == {o \in AllOptions : o.dryRun}

=============================================================================
