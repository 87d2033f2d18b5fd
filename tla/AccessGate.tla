----------------------------- MODULE AccessGate -----------------------------
(***************************************************************************)
(* One tool call on its way through the authorization pipeline of          *)
(* ToolBroker.execute, without time, storage or failures: the broker's own *)
(* access check, the branch that lets safe reads skip the Guardian, and    *)
(* the Guardian's verdict for everything else.  Guardian and ToolBroker    *)
(* model the protocol around these rules; this module asks whether the     *)
(* two services, which check the same grants in separate code, agree.      *)
(***************************************************************************)
EXTENDS GuardianPolicy

VARIABLES snap,     \* the request and policy the pipeline works on
          step      \* where the call stands

gateVars == <<snap, step>>

GateSteps == {"received", "refused", "guardian", "waiting", "blocked", "calling"}

GateTypeOK == snap \in Snapshot /\ step \in GateSteps

GateInit == snap \in Snapshot /\ step = "received"

Move(from, to) == step = from /\ step' = to /\ UNCHANGED snap

\* _validate_access raises: the call is refused before any row is written.
Refuse == ~ValidateAccess(snap) /\ Move("received", "refused")

\* A READ tool with approval mode NEVER goes straight to _call.
Bypass == ValidateAccess(snap) /\ ~Protected(snap) /\ Move("received", "calling")

\* Everything else is sent to the Guardian.
AskGuardian == ValidateAccess(snap) /\ Protected(snap) /\ Move("received", "guardian")

GuardianBlock == PolicyEvaluate(snap) = "BLOCK" /\ Move("guardian", "blocked")
GuardianEscalate == PolicyEvaluate(snap) = "ESCALATE" /\ Move("guardian", "waiting")
GuardianAllow == PolicyEvaluate(snap) = "ALLOW" /\ Move("guardian", "calling")

GateNext == \/ Refuse \/ Bypass \/ AskGuardian
        \/ GuardianBlock \/ GuardianEscalate \/ GuardianAllow

GateSpec == GateInit /\ [][GateNext]_gateVars

-----------------------------------------------------------------------------
(* A call the broker runs, whether it skipped the Guardian or not, is one  *)
(* the Guardian's policy allows: the shortcut for safe reads at            *)
(* broker.py:116 never lets through what policy.py would have refused or   *)
(* sent to a human.                                                        *)
GateAgrees == step = "calling" /\ snap.scopeValid => PolicyEvaluate(snap) = "ALLOW"

(* A call that runs at once is no call a human must approve, and carries   *)
(* every grant its policy asks for and an idempotency key if it changes    *)
(* anything.                                                               *)
RunsOnlyGranted ==
  step = "calling" =>
    /\ snap.risk # "PRIVILEGED" /\ snap.approvalMode # "ALWAYS"
    /\ snap.requiredRoles \subseteq snap.roles
    /\ snap.requiredConsents \subseteq snap.consents
    /\ snap.sideEffects => snap.hasKey

\* The same call under a policy that asks for no human.
Relaxed(s) ==
  [scopeValid |-> s.scopeValid, hasSession |-> s.hasSession,
   agent |-> s.agent, allowedAgents |-> s.allowedAgents,
   roles |-> s.roles, requiredRoles |-> s.requiredRoles,
   purpose |-> s.purpose, requiredPurposes |-> s.requiredPurposes,
   consents |-> s.consents, requiredConsents |-> s.requiredConsents,
   sideEffects |-> s.sideEffects, hasKey |-> s.hasKey,
   approvalMode |-> "POLICY", risk |-> "MUTATE"]

(* A call waits for an approver only if it would otherwise be allowed: no  *)
(* human is asked to approve a call that lacks a role, a consent or a key, *)
(* so an approval can never be the only thing standing in for a grant.     *)
ApprovalIsNotAGrant == step = "waiting" => PolicyEvaluate(Relaxed(snap)) = "ALLOW"
=============================================================================
