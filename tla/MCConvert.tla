----------------------------- MODULE MCConvert -----------------------------
(***************************************************************************)
(* Instances of the conversion side for TLC.                               *)
(***************************************************************************)
EXTENDS ConvertProperties, TLC

CONSTANTS p1, p2, p3, v1, v2

SymmetricProducers == Permutations(Producers)

=============================================================================
