--------------------------- MODULE MCToolRegistry ---------------------------
(* Schemas and reviews are interchangeable. *)
EXTENDS ToolRegistry, TLC

Symmetry == Permutations(Schemas) \cup Permutations(Reviews)
=============================================================================
