----------------------------- MODULE MCGuardian -----------------------------
(***************************************************************************)
(* The Guardian on one call with two possible request hashes, so that a    *)
(* token can be presented for the wrong request, and three snapshots: one  *)
(* the policy allows, one it escalates, one it blocks.                     *)
(***************************************************************************)
EXTENDS Guardian, TLC

SafeSnap(mode, class) ==
  [scopeValid |-> TRUE, hasSession |-> TRUE, agent |-> "finance",
   allowedAgents |-> {}, roles |-> {}, requiredRoles |-> {},
   purpose |-> "financing", requiredPurposes |-> {},
   consents |-> {}, requiredConsents |-> {},
   sideEffects |-> TRUE, hasKey |-> TRUE, approvalMode |-> mode, risk |-> class]

MCSnaps == {SafeSnap("POLICY", "MUTATE"), SafeSnap("POLICY", "PRIVILEGED"),
            SafeSnap("POLICY", "READ")}

MCSymmetry == Permutations(DecisionIds) \cup Permutations(AuthIds)
                \cup Permutations(Tasks) \cup Permutations(Hashes)
=============================================================================
