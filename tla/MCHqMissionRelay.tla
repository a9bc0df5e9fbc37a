-------------------------- MODULE MCHqMissionRelay --------------------------
(* Instances of HqMissionRelay for TLC: two identical requests and a       *)
(* different one, named by model values.                                   *)
EXTENDS HqMissionRelay

CONSTANTS s1, s2, s3, same, other

SameRequest == [s \in Submissions |-> IF s = s3 THEN other ELSE same]
=============================================================================
