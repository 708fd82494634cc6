-------------------------- MODULE MCCommissioning --------------------------
(* Commissioning for model checking: fabric identities are interchangeable. *)
EXTENDS Commissioning, TLC

Symmetry == Permutations(FabricIds)
=============================================================================
