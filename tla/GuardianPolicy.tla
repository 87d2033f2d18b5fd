--------------------------- MODULE GuardianPolicy ---------------------------
(***************************************************************************)
(* The pure rules that decide whether a tool call may run: the Guardian's  *)
(* baseline policy engine (packages/guardian/policy.py) and the two checks *)
(* the tool broker makes on its own (packages/tools/broker.py): the access *)
(* validation, and the condition under which it asks the Guardian at all.  *)
(*                                                                         *)
(* A snapshot joins the parts of the request and of the tool's policy that *)
(* these rules read.  Agents, roles, purposes and consents are opaque      *)
(* identifiers; an empty allowed or required list means "anyone".          *)
(***************************************************************************)

CONSTANTS Agents, Roles, Purposes, Consents

RiskClasses == {"READ", "SENSITIVE_READ", "MUTATE", "PRIVILEGED"}
ApprovalModes == {"NEVER", "POLICY", "ALWAYS"}
Outcomes == {"ALLOW", "ESCALATE", "BLOCK"}

Snapshot ==
  [scopeValid : BOOLEAN,              \* non-empty hash and non-nil tenant
   hasSession : BOOLEAN,
   agent : Agents,                    allowedAgents : SUBSET Agents,
   roles : SUBSET Roles,              requiredRoles : SUBSET Roles,
   purpose : Purposes,                requiredPurposes : SUBSET Purposes,
   consents : SUBSET Consents,        requiredConsents : SUBSET Consents,
   sideEffects : BOOLEAN,             hasKey : BOOLEAN,
   approvalMode : ApprovalModes,      risk : RiskClasses]

(***************************************************************************)
(* The grants both services check, each in its own code.                   *)
(***************************************************************************)
AgentGranted(s) == s.allowedAgents = {} \/ s.agent \in s.allowedAgents
RolesHeld(s) == s.requiredRoles \ s.roles = {}
PurposeAllowed(s) == s.requiredPurposes = {} \/ s.purpose \in s.requiredPurposes
ConsentsHeld(s) == s.requiredConsents \ s.consents = {}
KeyPresent(s) == s.sideEffects => s.hasKey

(***************************************************************************)
(* GuardianPolicyEngine.evaluate.  The order of the refusals only selects  *)
(* the reason code; they all come before the rules that let a call pass.   *)
(***************************************************************************)
NeedsHuman(s) == s.approvalMode = "ALWAYS" \/ s.risk = "PRIVILEGED"

PolicyEvaluate(s) ==
  IF \/ ~s.scopeValid
     \/ ~AgentGranted(s)
     \/ ~RolesHeld(s)
     \/ ~PurposeAllowed(s)
     \/ ~ConsentsHeld(s)
     \/ ~KeyPresent(s)
    THEN "BLOCK"
  ELSE IF NeedsHuman(s) THEN "ESCALATE"
  ELSE IF s.risk \in {"SENSITIVE_READ", "MUTATE"} THEN "ALLOW"
  ELSE IF s.risk = "READ" /\ s.approvalMode = "NEVER" THEN "ALLOW"
  ELSE "BLOCK"

(***************************************************************************)
(* ToolBroker._validate_access, and the branch of ToolBroker.execute that  *)
(* decides whether the Guardian is consulted.                              *)
(***************************************************************************)
ValidateAccess(s) ==
  /\ s.hasSession
  /\ AgentGranted(s)
  /\ RolesHeld(s)
  /\ PurposeAllowed(s)
  /\ ConsentsHeld(s)
  /\ KeyPresent(s)

Protected(s) == s.risk # "READ" \/ s.approvalMode # "NEVER"

=============================================================================
