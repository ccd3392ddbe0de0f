------------------------------- MODULE MCDag -------------------------------
(***************************************************************************)
(* Model checking of Dag: every input of a few intents.                    *)
(***************************************************************************)
EXTENDS Dag, TLC

\* Account keys are only compared.
AccountSymmetry == Permutations(Accounts)

=============================================================================
