---------------------------- MODULE MCToolBroker ----------------------------
(***************************************************************************)
(* Request documents for the broker: hPay is a privileged transfer that    *)
(* waits for an approver, hWrite a mutation the policy allows, hRead an    *)
(* unprotected read and hOdd a read whose policy the Guardian has no rule  *)
(* for.  hPay and hWrite carry the same idempotency key.                   *)
(***************************************************************************)
EXTENDS ToolBroker, TLC

CONSTANTS hPay, hWrite, hRead, hOdd, key1

SafeSnap(mode, class, mutates) ==
  [scopeValid |-> TRUE, hasSession |-> TRUE, agent |-> "finance",
   allowedAgents |-> {}, roles |-> {}, requiredRoles |-> {},
   purpose |-> "financing", requiredPurposes |-> {},
   consents |-> {}, requiredConsents |-> {},
   sideEffects |-> mutates, hasKey |-> mutates, approvalMode |-> mode, risk |-> class]

MCSnapOf == [h \in Hashes |->
  CASE h = hPay -> SafeSnap("POLICY", "PRIVILEGED", TRUE)
    [] h = hWrite -> SafeSnap("POLICY", "MUTATE", TRUE)
    [] h = hRead -> SafeSnap("NEVER", "READ", FALSE)
    [] h = hOdd -> SafeSnap("POLICY", "READ", FALSE)]
MCSnaps == {MCSnapOf[h] : h \in Hashes}
MCKeyOf == [h \in Hashes |-> IF h \in {hPay, hWrite} THEN key1 ELSE None]

MCSymmetry == Permutations(Calls) \cup Permutations(DecisionIds) \cup Permutations(AuthIds)
                \cup Permutations(Brokers) \cup Permutations(Consoles)
=============================================================================
