----------------------------- MODULE MCAgentRun -----------------------------
(***************************************************************************)
(* The two workers that have a model key are interchangeable, and so are   *)
(* the calls.  At most two of the three workers have a job at a time.      *)
(***************************************************************************)
EXTENDS AgentRun, TLC

MaxBusy == 2

Bounds == Cardinality({w \in Workers : pc[w] # "idle"}) <= MaxBusy

Symmetry == Permutations(Configured) \cup Permutations(Calls)
=============================================================================
