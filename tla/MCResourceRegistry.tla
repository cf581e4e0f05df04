-------------------------- MODULE MCResourceRegistry --------------------------
(* Instances of ResourceRegistry for TLC.                                   *)
EXTENDS ResourceRegistry, TLC

CONSTANTS dir, doc, alice, bob

\* The owners are interchangeable.
Symmetry == Permutations({alice, bob})
=============================================================================
