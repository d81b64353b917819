------------------------ MODULE MCValidationRequest ------------------------
(* Model-checking instances of ValidationRequest. *)
EXTENDS ValidationRequest, TLC

Symmetry == Permutations(Requests \ Legacy)
=============================================================================
