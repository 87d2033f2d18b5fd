----------------------------- MODULE MCJobQueue -----------------------------
(***************************************************************************)
(* Three workers, a prompt job and a slow one, two attempts each.          *)
(***************************************************************************)
EXTENDS JobQueue

=============================================================================
