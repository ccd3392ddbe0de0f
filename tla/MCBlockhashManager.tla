------------------------- MODULE MCBlockhashManager -------------------------
(***************************************************************************)
(* Model checking of BlockhashManager and of its refinement.               *)
(***************************************************************************)
EXTENDS BlockhashRefinement

=============================================================================
