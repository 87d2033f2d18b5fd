------------------------ MODULE MCFunderMarketplace ------------------------
(* Small instances of FunderMarketplace. *)
EXTENDS FunderMarketplace, TLC

(* Rows and keys of a kind are interchangeable. *)
Symmetry == Permutations(Offers) \cup Permutations(Reservations) \cup Permutations(Keys)
=============================================================================
