-------------------------- MODULE MCServerOwnership --------------------------
(* Instances of ServerOwnership for TLC: instances are interchangeable, and *)
(* so are recoveries, since no definition names one of them.                *)
EXTENDS ServerOwnership, TLC

Symmetry == Permutations(Instances) \cup Permutations(Recoveries)
=============================================================================
