--------------------------- MODULE MCHoldoutOnce ---------------------------
(***************************************************************************)
(* HoldoutOnce on a few invocations.                                       *)
(***************************************************************************)
EXTENDS HoldoutOnce, TLC

\* Invocations are interchangeable: no action or property names one.
Symmetry == Permutations(Proc)

=============================================================================
