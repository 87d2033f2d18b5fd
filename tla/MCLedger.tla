------------------------------ MODULE MCLedger ------------------------------
(* Two requests at a time post two journals. *)
EXTENDS Ledger
=============================================================================
