------------------------------ MODULE MCScaler ------------------------------
(* Instances of Scaler for TLC. *)
EXTENDS Scaler, TLC

Symmetry == Permutations(VMs) \cup Permutations(Requests)
=============================================================================
