--------------------------- MODULE GuardianProofs ---------------------------
(***************************************************************************)
(* Proofs about Guardian for any number of calls, requests, approvers and  *)
(* concurrent tasks, and any lifetimes.  The safety invariants are not     *)
(* inductive alone: a task commits on what it read earlier, so the         *)
(* inductive invariant adds ReadsStillHold (what the row locks protect)    *)
(* and Provenance (which rows a stored reference can point to).            *)
(***************************************************************************)
EXTENDS Guardian, TLAPS

Provenance ==
  /\ \A d \in DecisionIds : decision[d] # NoDecision =>
       decision[d].outcome = PolicyEvaluate(decision[d].snap)
  /\ \A d \in DecisionIds : approval[d] # "NONE" => decision[d] # NoDecision
  /\ \A t \in Tasks :
       task[t].op \in {"evaluate", "authorize"} /\ task[t].found # None =>
         /\ decision[task[t].found] # NoDecision
         /\ task[t].at < decision[task[t].found].expires

IInv == /\ TypeOK /\ Provenance /\ ReadsStillHold
        /\ AuthGrounded /\ SingleUse /\ OneVerdict

-----------------------------------------------------------------------------
(* The policy engine answers with one of its outcomes, and never ALLOW for *)
(* a call that a human must approve.                                       *)
LEMMA PolicySound ==
  ASSUME NEW s \in Snaps
  PROVE  /\ PolicyEvaluate(s) \in Outcomes
         /\ PolicyEvaluate(s) = "ALLOW" => ~NeedsHuman(s)
  BY DEF PolicyEvaluate, Outcomes, NeedsHuman

(* The shape of an in-flight transaction is fixed by the handler it runs.  *)
LEMMA TaskShape ==
  ASSUME TypeOK, NEW t \in Tasks
  PROVE  /\ task[t].op = "evaluate" => task[t] \in EvaluateTask
         /\ task[t].op = "authorize" => task[t] \in AuthorizeTask
         /\ task[t].op = "act" => task[t] \in ActTask
         /\ task[t].op = "consume" => task[t] \in ConsumeTask
  BY DEF TypeOK, Idle, EvaluateTask, AuthorizeTask, ActTask, ExpireTask, ConsumeTask

LEMMA RowShape ==
  ASSUME TypeOK
  PROVE  \A d \in DecisionIds : decision[d] # NoDecision <=> decision[d] \in DecisionRow
  BY GuardianAssumption DEF TypeOK, NoDecision, DecisionRow


LEMMA TickStep ==
  ASSUME IInv, Tick
  PROVE  IInv'
<1>1. TypeOK'
  BY GuardianAssumption DEF IInv, TypeOK, Tick, Time
<1>2. Provenance'
  BY DEF IInv, Provenance, Tick
<1>3. ReadsStillHold'
  BY DEF IInv, ReadsStillHold, Tick
<1>4. AuthGrounded'
  BY DEF IInv, AuthGrounded, Tick
<1>5. SingleUse'
  BY DEF IInv, SingleUse, Tick
<1>6. OneVerdict'
  BY DEF IInv, OneVerdict, Tick
<1>7. QED BY <1>1, <1>2, <1>3, <1>4, <1>5, <1>6 DEF IInv

LEMMA AbortStep ==
  ASSUME IInv, NEW t \in Tasks, Abort(t)
  PROVE  IInv'
<1>1. TypeOK'
  BY GuardianAssumption DEF IInv, TypeOK, Abort, Finish
<1>2. Provenance'
  BY DEF IInv, TypeOK, Provenance, Abort, Finish, Idle
<1>3. ReadsStillHold'
  BY DEF IInv, TypeOK, ReadsStillHold, Abort, Finish, Idle
<1>4. AuthGrounded'
  BY DEF IInv, AuthGrounded, Abort
<1>5. SingleUse'
  BY DEF IInv, SingleUse, Abort
<1>6. OneVerdict'
  BY DEF IInv, OneVerdict, Abort
<1>7. QED BY <1>1, <1>2, <1>3, <1>4, <1>5, <1>6 DEF IInv

LEMMA ConsumeReadStep ==
  ASSUME IInv, NEW t \in Tasks, NEW a \in AuthIds, NEW c \in Calls, NEW h \in Hashes,
         ConsumeRead(t, a, c, h)
  PROVE  IInv'
<1>1. TypeOK'
  BY GuardianAssumption DEF IInv, TypeOK, ConsumeRead, ConsumeTask
<1>2. Provenance'
  BY DEF IInv, TypeOK, Provenance, ConsumeRead
<1>3. ReadsStillHold'
  BY DEF IInv, TypeOK, ReadsStillHold, ConsumeRead, AuthLocked
<1>4. AuthGrounded'
  BY DEF IInv, AuthGrounded, ConsumeRead
<1>5. SingleUse'
  BY DEF IInv, SingleUse, ConsumeRead
<1>6. OneVerdict'
  BY DEF IInv, OneVerdict, ConsumeRead
<1>7. QED BY <1>1, <1>2, <1>3, <1>4, <1>5, <1>6 DEF IInv

LEMMA ConsumeCommitStep ==
  ASSUME IInv, NEW t \in Tasks, ConsumeCommit(t)
  PROVE  IInv'
<1>0. task[t] \in ConsumeTask
  BY TaskShape DEF IInv, ConsumeCommit
<1>1. TypeOK'
  BY <1>0, GuardianAssumption DEF IInv, TypeOK, ConsumeCommit, Finish, ConsumeTask, AuthStatuses
<1>2. Provenance'
  BY DEF IInv, TypeOK, Provenance, ConsumeCommit, Finish, Idle
<1>3. ReadsStillHold'
  BY <1>0 DEF IInv, TypeOK, ReadsStillHold, ConsumeCommit, Finish, Idle
<1>4. AuthGrounded'
  BY <1>0 DEF IInv, TypeOK, AuthGrounded, ReadsStillHold, ConsumeCommit, ConsumeTask
<1>5. SingleUse'
  BY <1>0 DEF IInv, TypeOK, SingleUse, ReadsStillHold, ConsumeCommit, ConsumeTask
<1>6. OneVerdict'
  BY DEF IInv, OneVerdict, ConsumeCommit
<1>7. QED BY <1>1, <1>2, <1>3, <1>4, <1>5, <1>6 DEF IInv

LEMMA EvaluateReadStep ==
  ASSUME IInv, NEW t \in Tasks, NEW c \in Calls, NEW h \in Hashes, NEW s \in Snaps, 
         EvaluateRead(t, c, h, s)
  PROVE  IInv'
<1>0. PICK f \in ExistingDecision(c, h) :
        task' = [task EXCEPT ![t] = [op |-> "evaluate", call |-> c, hash |-> h,
                                     snap |-> s, at |-> now, found |-> f]]
  BY DEF EvaluateRead
<1>f. f = None \/ (f \in DecisionIds /\ decision[f] # NoDecision /\ now < decision[f].expires)
  BY GuardianAssumption DEF ExistingDecision, Latest, Matching, NoDecision
<1>1. TypeOK'
  BY <1>0, <1>f DEF IInv, TypeOK, EvaluateRead, EvaluateTask
<1>2. Provenance'
  BY <1>0, <1>f DEF IInv, TypeOK, Provenance, EvaluateRead
<1>3. ReadsStillHold'
  BY <1>0 DEF IInv, TypeOK, ReadsStillHold, EvaluateRead
<1>4. AuthGrounded'
  BY DEF IInv, AuthGrounded, EvaluateRead
<1>5. SingleUse'
  BY DEF IInv, SingleUse, EvaluateRead
<1>6. OneVerdict'
  BY DEF IInv, OneVerdict, EvaluateRead
<1>7. QED BY <1>1, <1>2, <1>3, <1>4, <1>5, <1>6 DEF IInv

LEMMA EvaluateAllowStep ==
  ASSUME IInv, NEW t \in Tasks, NEW d \in DecisionIds, NEW a \in AuthIds, EvaluateAllow(t, d, a)
  PROVE  IInv'
<1>0. /\ task[t] \in EvaluateTask
      /\ decision[d] = NoDecision /\ approval[d] = "NONE"
      /\ decision' = [decision EXCEPT ![d] =
           [call |-> task[t].call, hash |-> task[t].hash, snap |-> task[t].snap,
            outcome |-> PolicyEvaluate(task[t].snap),
            created |-> task[t].at, expires |-> task[t].at + DecisionTTL]]
      /\ task' = [task EXCEPT ![t] = Idle]
      /\ now' = now /\ acted' = acted /\ grants' = grants
  BY TaskShape DEF IInv, Provenance, EvaluateAllow, NewDecision, Finish
<1>r. decision'[d] \in DecisionRow /\ decision'[d] # NoDecision
  BY <1>0, PolicySound, GuardianAssumption
  DEF IInv, TypeOK, EvaluateTask, DecisionRow, NoDecision, Time
<1>1. TypeOK'
  BY <1>0, <1>r, GuardianAssumption
  DEF IInv, TypeOK, EvaluateAllow, IssueAuthorization, ApprovalStatus, AuthRow, AuthStatuses, DecisionRow, Time
<1>2. Provenance'
  BY <1>0, <1>r DEF IInv, TypeOK, Provenance, EvaluateAllow, Idle
<1>3. ReadsStillHold'
  BY <1>0 DEF IInv, TypeOK, ReadsStillHold, EvaluateAllow, IssueAuthorization, Idle
<1>4. AuthGrounded'
  BY <1>0, <1>r, PolicySound DEF IInv, TypeOK, AuthGrounded, EvaluateAllow, IssueAuthorization, EvaluateTask
<1>5. SingleUse'
  BY <1>0 DEF IInv, TypeOK, SingleUse, EvaluateAllow, IssueAuthorization
<1>6. OneVerdict'
  BY <1>0 DEF IInv, TypeOK, OneVerdict, EvaluateAllow, Verdicts
<1>7. QED BY <1>1, <1>2, <1>3, <1>4, <1>5, <1>6 DEF IInv

LEMMA EvaluateEscalateStep ==
  ASSUME IInv, NEW t \in Tasks, NEW d \in DecisionIds, EvaluateEscalate(t, d)
  PROVE  IInv'
<1>0. /\ task[t] \in EvaluateTask
      /\ decision[d] = NoDecision /\ approval[d] = "NONE"
      /\ decision' = [decision EXCEPT ![d] =
           [call |-> task[t].call, hash |-> task[t].hash, snap |-> task[t].snap,
            outcome |-> PolicyEvaluate(task[t].snap),
            created |-> task[t].at, expires |-> task[t].at + DecisionTTL]]
      /\ task' = [task EXCEPT ![t] = Idle]
      /\ now' = now /\ acted' = acted /\ grants' = grants
  BY TaskShape DEF IInv, Provenance, EvaluateEscalate, NewDecision, Finish
<1>r. decision'[d] \in DecisionRow /\ decision'[d] # NoDecision
  BY <1>0, PolicySound, GuardianAssumption
  DEF IInv, TypeOK, EvaluateTask, DecisionRow, NoDecision, Time
<1>1. TypeOK'
  BY <1>0, <1>r, GuardianAssumption
  DEF IInv, TypeOK, EvaluateEscalate, ApprovalStatus
<1>2. Provenance'
  BY <1>0, <1>r DEF IInv, TypeOK, Provenance, EvaluateEscalate, Idle
<1>3. ReadsStillHold'
  BY <1>0 DEF IInv, TypeOK, ReadsStillHold, EvaluateEscalate, Idle
<1>4. AuthGrounded'
  BY <1>0, <1>r, PolicySound DEF IInv, TypeOK, AuthGrounded, EvaluateEscalate, EvaluateTask
<1>5. SingleUse'
  BY <1>0 DEF IInv, TypeOK, SingleUse, EvaluateEscalate
<1>6. OneVerdict'
  BY <1>0 DEF IInv, TypeOK, OneVerdict, EvaluateEscalate, Verdicts, StatusFor
<1>7. QED BY <1>1, <1>2, <1>3, <1>4, <1>5, <1>6 DEF IInv

LEMMA EvaluateBlockStep ==
  ASSUME IInv, NEW t \in Tasks, NEW d \in DecisionIds, EvaluateBlock(t, d)
  PROVE  IInv'
<1>0. /\ task[t] \in EvaluateTask
      /\ decision[d] = NoDecision /\ approval[d] = "NONE"
      /\ decision' = [decision EXCEPT ![d] =
           [call |-> task[t].call, hash |-> task[t].hash, snap |-> task[t].snap,
            outcome |-> PolicyEvaluate(task[t].snap),
            created |-> task[t].at, expires |-> task[t].at + DecisionTTL]]
      /\ task' = [task EXCEPT ![t] = Idle]
      /\ now' = now /\ acted' = acted /\ grants' = grants
  BY TaskShape DEF IInv, Provenance, EvaluateBlock, NewDecision, Finish
<1>r. decision'[d] \in DecisionRow /\ decision'[d] # NoDecision
  BY <1>0, PolicySound, GuardianAssumption
  DEF IInv, TypeOK, EvaluateTask, DecisionRow, NoDecision, Time
<1>1. TypeOK'
  BY <1>0, <1>r, GuardianAssumption
  DEF IInv, TypeOK, EvaluateBlock, ApprovalStatus
<1>2. Provenance'
  BY <1>0, <1>r DEF IInv, TypeOK, Provenance, EvaluateBlock, Idle
<1>3. ReadsStillHold'
  BY <1>0 DEF IInv, TypeOK, ReadsStillHold, EvaluateBlock, Idle
<1>4. AuthGrounded'
  BY <1>0, <1>r, PolicySound DEF IInv, TypeOK, AuthGrounded, EvaluateBlock, EvaluateTask
<1>5. SingleUse'
  BY <1>0 DEF IInv, TypeOK, SingleUse, EvaluateBlock
<1>6. OneVerdict'
  BY <1>0 DEF IInv, TypeOK, OneVerdict, EvaluateBlock, Verdicts
<1>7. QED BY <1>1, <1>2, <1>3, <1>4, <1>5, <1>6 DEF IInv

LEMMA ResolveIssueStep ==
  ASSUME IInv, NEW t \in Tasks, NEW a \in AuthIds, ResolveIssue(t, a)
  PROVE  IInv'
<1>0. /\ task[t] \in EvaluateTask /\ task[t].found \in DecisionIds
      /\ decision[task[t].found] \in DecisionRow
  BY TaskShape, RowShape, GuardianAssumption DEF IInv, Provenance, ResolveIssue, EvaluateTask
<1>1. TypeOK'
  BY <1>0, GuardianAssumption
  DEF IInv, TypeOK, ResolveIssue, IssueAuthorization, Finish, AuthRow, AuthStatuses, DecisionRow, Time
<1>2. Provenance'
  BY DEF IInv, TypeOK, Provenance, ResolveIssue, Finish, Idle
<1>3. ReadsStillHold'
  BY DEF IInv, TypeOK, ReadsStillHold, ResolveIssue, IssueAuthorization, Finish, Idle
<1>4. AuthGrounded'
  BY <1>0, PolicySound
  DEF IInv, TypeOK, AuthGrounded, OneVerdict, Provenance, ReadsStillHold, Grants,
      ResolveIssue, IssueAuthorization, DecisionRow, NoDecision, Verdicts, StatusFor, Verbs
<1>5. SingleUse'
  BY DEF IInv, TypeOK, SingleUse, ResolveIssue, IssueAuthorization
<1>6. OneVerdict'
  BY DEF IInv, OneVerdict, ResolveIssue
<1>7. QED BY <1>1, <1>2, <1>3, <1>4, <1>5, <1>6 DEF IInv

LEMMA AuthorizeIssueStep ==
  ASSUME IInv, NEW t \in Tasks, NEW a \in AuthIds, AuthorizeIssue(t, a)
  PROVE  IInv'
<1>0. /\ task[t] \in AuthorizeTask /\ task[t].found \in DecisionIds
      /\ decision[task[t].found] \in DecisionRow
  BY TaskShape, RowShape, GuardianAssumption DEF IInv, Provenance, AuthorizeIssue, AuthorizeTask
<1>1. TypeOK'
  BY <1>0, GuardianAssumption
  DEF IInv, TypeOK, AuthorizeIssue, IssueAuthorization, Finish, AuthRow, AuthStatuses, DecisionRow, Time
<1>2. Provenance'
  BY DEF IInv, TypeOK, Provenance, AuthorizeIssue, Finish, Idle
<1>3. ReadsStillHold'
  BY DEF IInv, TypeOK, ReadsStillHold, AuthorizeIssue, IssueAuthorization, Finish, Idle
<1>4. AuthGrounded'
  BY <1>0, PolicySound
  DEF IInv, TypeOK, AuthGrounded, OneVerdict, Provenance, ReadsStillHold, Grants,
      AuthorizeIssue, IssueAuthorization, DecisionRow, NoDecision, Verdicts, StatusFor, Verbs
<1>5. SingleUse'
  BY DEF IInv, TypeOK, SingleUse, AuthorizeIssue, IssueAuthorization
<1>6. OneVerdict'
  BY DEF IInv, OneVerdict, AuthorizeIssue
<1>7. QED BY <1>1, <1>2, <1>3, <1>4, <1>5, <1>6 DEF IInv

LEMMA ResolveRefuseStep ==
  ASSUME IInv, NEW t \in Tasks, ResolveRefuse(t)
  PROVE  IInv'
<1>1. TypeOK'
  BY DEF IInv, TypeOK, ResolveRefuse, Finish
<1>2. Provenance'
  BY DEF IInv, TypeOK, Provenance, ResolveRefuse, Finish, Idle
<1>3. ReadsStillHold'
  BY DEF IInv, TypeOK, ReadsStillHold, ResolveRefuse, Finish, Idle
<1>4. AuthGrounded'
  BY DEF IInv, AuthGrounded, ResolveRefuse
<1>5. SingleUse'
  BY DEF IInv, SingleUse, ResolveRefuse
<1>6. OneVerdict'
  BY DEF IInv, OneVerdict, ResolveRefuse
<1>7. QED BY <1>1, <1>2, <1>3, <1>4, <1>5, <1>6 DEF IInv

LEMMA AuthorizeReadStep ==
  ASSUME IInv, NEW t \in Tasks, NEW c \in Calls, NEW h \in Hashes, AuthorizeRead(t, c, h)
  PROVE  IInv'
<1>0. PICK d \in DecisionIds :
        /\ decision[d] # NoDecision /\ approval[d] = "APPROVED" /\ now < decision[d].expires
        /\ task' = [task EXCEPT ![t] = [op |-> "authorize", at |-> now, found |-> d]]
  BY DEF IInv, Provenance, AuthorizeRead, Latest, Matching
<1>1. TypeOK'
  BY <1>0 DEF IInv, TypeOK, AuthorizeRead, AuthorizeTask
<1>2. Provenance'
  BY <1>0 DEF IInv, TypeOK, Provenance, AuthorizeRead
<1>3. ReadsStillHold'
  BY <1>0 DEF IInv, TypeOK, ReadsStillHold, AuthorizeRead
<1>4. AuthGrounded'
  BY DEF IInv, AuthGrounded, AuthorizeRead
<1>5. SingleUse'
  BY DEF IInv, SingleUse, AuthorizeRead
<1>6. OneVerdict'
  BY DEF IInv, OneVerdict, AuthorizeRead
<1>7. QED BY <1>1, <1>2, <1>3, <1>4, <1>5, <1>6 DEF IInv

LEMMA ActReadStep ==
  ASSUME IInv, NEW t \in Tasks, NEW d \in DecisionIds, NEW u \in Users, NEW v \in Verbs, 
         ActRead(t, d, u, v)
  PROVE  IInv'
<1>1. TypeOK'
  BY DEF IInv, TypeOK, ActRead, ActTask, ActionRow
<1>2. Provenance'
  BY DEF IInv, TypeOK, Provenance, ActRead
<1>3. ReadsStillHold'
  BY DEF IInv, TypeOK, ReadsStillHold, ActRead, ApprovalLocked
<1>4. AuthGrounded'
  BY DEF IInv, AuthGrounded, ActRead
<1>5. SingleUse'
  BY DEF IInv, SingleUse, ActRead
<1>6. OneVerdict'
  BY DEF IInv, OneVerdict, ActRead
<1>7. QED BY <1>1, <1>2, <1>3, <1>4, <1>5, <1>6 DEF IInv

LEMMA ActExpiredStep ==
  ASSUME IInv, NEW t \in Tasks, NEW d \in DecisionIds, ActExpired(t, d)
  PROVE  IInv'
<1>1. TypeOK'
  BY DEF IInv, TypeOK, ActExpired, ExpireTask
<1>2. Provenance'
  BY DEF IInv, TypeOK, Provenance, ActExpired
<1>3. ReadsStillHold'
  BY DEF IInv, TypeOK, ReadsStillHold, ActExpired
<1>4. AuthGrounded'
  BY DEF IInv, AuthGrounded, ActExpired
<1>5. SingleUse'
  BY DEF IInv, SingleUse, ActExpired
<1>6. OneVerdict'
  BY DEF IInv, OneVerdict, ActExpired
<1>7. QED BY <1>1, <1>2, <1>3, <1>4, <1>5, <1>6 DEF IInv

LEMMA ActCommitStep ==
  ASSUME IInv, NEW t \in Tasks, ActCommit(t)
  PROVE  IInv'
<1>0. task[t] \in ActTask /\ task[t].act \in ActionRow
  BY TaskShape DEF IInv, ActCommit, ActTask
<1>1. TypeOK'
  BY <1>0 DEF IInv, TypeOK, ActCommit, Finish, ActionRow, ApprovalStatus, StatusFor
<1>2. Provenance'
  BY <1>0 DEF IInv, TypeOK, Provenance, ReadsStillHold, ActCommit, Finish, Idle, ActionRow
<1>3. ReadsStillHold'
  BY <1>0 DEF IInv, TypeOK, ReadsStillHold, ActCommit, Finish, Idle, ActionRow
<1>4. AuthGrounded'
  BY DEF IInv, AuthGrounded, ActCommit
<1>5. SingleUse'
  BY DEF IInv, SingleUse, ActCommit
<1>6. OneVerdict'
  BY <1>0 DEF IInv, TypeOK, OneVerdict, ReadsStillHold, ActCommit, ActionRow, Verdicts, StatusFor, Verbs
<1>7. QED BY <1>1, <1>2, <1>3, <1>4, <1>5, <1>6 DEF IInv

-----------------------------------------------------------------------------
LEMMA InitIInv ==
  Init => IInv
  BY GuardianAssumption
  DEF Init, IInv, TypeOK, Provenance, ReadsStillHold, AuthGrounded, SingleUse, OneVerdict,
      Time, NoDecision, NoAuth, ApprovalStatus, AuthStatuses, Idle, Verdicts

LEMMA NextIInv ==
  IInv /\ [Next]_guardianVars => IInv'
<1> SUFFICES ASSUME IInv, [Next]_guardianVars PROVE IInv'
  OBVIOUS
<1>1. CASE UNCHANGED guardianVars
  BY <1>1 DEF guardianVars, IInv, TypeOK, Provenance, ReadsStillHold, AuthGrounded,
              SingleUse, OneVerdict, ApprovalLocked, AuthLocked
<1>2. ASSUME NEW t \in Tasks, NEW c \in Calls, NEW h \in Hashes,
             \/ \E s \in Snaps : EvaluateRead(t, c, h, s)
             \/ AuthorizeRead(t, c, h)
             \/ \E a \in AuthIds : ConsumeRead(t, a, c, h)
      PROVE  IInv'
  BY <1>2, EvaluateReadStep, AuthorizeReadStep, ConsumeReadStep
<1>3. ASSUME NEW t \in Tasks, NEW d \in DecisionIds,
             \/ \E a \in AuthIds : EvaluateAllow(t, d, a)
             \/ EvaluateEscalate(t, d)
             \/ EvaluateBlock(t, d)
             \/ \E u \in Users, v \in Verbs : ActRead(t, d, u, v)
             \/ ActExpired(t, d)
      PROVE  IInv'
  BY <1>3, EvaluateAllowStep, EvaluateEscalateStep, EvaluateBlockStep, ActReadStep,
     ActExpiredStep
<1>4. ASSUME NEW t \in Tasks,
             \/ \E a \in AuthIds : ResolveIssue(t, a) \/ AuthorizeIssue(t, a)
             \/ ResolveRefuse(t)
             \/ ActCommit(t)
             \/ ConsumeCommit(t)
             \/ Abort(t)
      PROVE  IInv'
  BY <1>4, ResolveIssueStep, AuthorizeIssueStep, ResolveRefuseStep, ActCommitStep,
     ConsumeCommitStep, AbortStep
<1>5. CASE Tick
  BY <1>5, TickStep
<1>6. QED
  BY <1>1, <1>2, <1>3, <1>4, <1>5 DEF Next

-----------------------------------------------------------------------------
(* The whole invariant holds in every reachable state of the service, for  *)
(* any number of concurrent requests.                                      *)
THEOREM GuardianInvariant == Spec => []IInv
<1>1. QED BY InitIInv, NextIInv, PTL DEF Spec

(* Guardian's tables keep their types.                                     *)
THEOREM GuardianTypeCorrect == Spec => []TypeOK
<1>1. IInv => TypeOK BY DEF IInv
<1>2. QED BY <1>1, GuardianInvariant, PTL

(* No authorization exists without an allowing policy or a human approval  *)
(* for exactly its request (service.py evaluate, authorize_approved).      *)
THEOREM AuthorityGrounded == Spec => []AuthGrounded
<1>1. IInv => AuthGrounded BY DEF IInv
<1>2. QED BY <1>1, GuardianInvariant, PTL

(* consume hands out every authorization at most once (service.py:259).    *)
THEOREM AuthoritySingleUse == Spec => []SingleUse
<1>1. IInv => SingleUse BY DEF IInv
<1>2. QED BY <1>1, GuardianInvariant, PTL

(* Each approval has one verdict from one approver (service.py:202).       *)
THEOREM ApprovalOneVerdict == Spec => []OneVerdict
<1>1. IInv => OneVerdict BY DEF IInv
<1>2. QED BY <1>1, GuardianInvariant, PTL

(* Row locks keep what a transaction read true until it commits.           *)
THEOREM LocksProtectReads == Spec => []ReadsStillHold
<1>1. IInv => ReadsStillHold BY DEF IInv
<1>2. QED BY <1>1, GuardianInvariant, PTL

(* No request that starts after a decision expired turns it into authority.*)
THEOREM AuthorityFromLiveDecision == Spec => IssuedFromLiveDecision
<1> DEFINE Issue == \A a \in AuthIds : authStatus[a] = "NONE" /\ authStatus'[a] # "NONE" =>
       \E t \in Tasks : /\ task[t].op \in {"evaluate", "authorize"}
                         /\ task[t].at < decision'[auth'[a].decision].expires
<1>1. IInv /\ [Next]_guardianVars => [Issue]_guardianVars
  <2> SUFFICES ASSUME IInv, Next, NEW a \in AuthIds,
                      authStatus[a] = "NONE", authStatus'[a] # "NONE"
               PROVE  \E t \in Tasks :
                        /\ task[t].op \in {"evaluate", "authorize"}
                        /\ task[t].at < decision'[auth'[a].decision].expires
    OBVIOUS
  <2>1. ASSUME NEW t \in Tasks, NEW d \in DecisionIds, NEW b \in AuthIds, EvaluateAllow(t, d, b)
        PROVE  /\ task[t].op \in {"evaluate", "authorize"}
               /\ task[t].at < decision'[auth'[a].decision].expires
    <3>1. a = b
      BY <2>1 DEF EvaluateAllow, IssueAuthorization, IInv, TypeOK
    <3>2. task[t] \in EvaluateTask
      BY <2>1, TaskShape DEF EvaluateAllow, NewDecision, IInv
    <3>3. QED
      BY <2>1, <3>1, <3>2, GuardianAssumption
      DEF EvaluateAllow, NewDecision, IssueAuthorization, IInv, TypeOK, EvaluateTask, Time
  <2>2. ASSUME NEW t \in Tasks, NEW b \in AuthIds, ResolveIssue(t, b) \/ AuthorizeIssue(t, b)
        PROVE  /\ task[t].op \in {"evaluate", "authorize"}
               /\ task[t].at < decision'[auth'[a].decision].expires
    <3>1. a = b
      BY <2>2 DEF ResolveIssue, AuthorizeIssue, IssueAuthorization, IInv, TypeOK
    <3>2. task[t].found # None
      BY <2>2, TaskShape, GuardianAssumption DEF ResolveIssue, AuthorizeIssue, AuthorizeTask, IInv
    <3>3. QED
      BY <2>2, <3>1, <3>2
      DEF ResolveIssue, AuthorizeIssue, IssueAuthorization, IInv, TypeOK, Provenance
  <2>3. CASE \E t \in Tasks : ConsumeCommit(t)
    <3>1. PICK t \in Tasks : ConsumeCommit(t)
      BY <2>3
    <3>2. authStatus[task[t].auth] = "ACTIVE"
      BY <3>1 DEF ConsumeCommit, IInv, ReadsStillHold
    <3>3. QED
      BY <3>1, <3>2 DEF ConsumeCommit, IInv, TypeOK
  <2>4. CASE authStatus' = authStatus
    BY <2>4
  <2>5. QED
    BY <2>1, <2>2, <2>3, <2>4
    DEF Next, EvaluateRead, AuthorizeRead, ConsumeRead, EvaluateEscalate, EvaluateBlock,
        ActRead, ActExpired, ResolveRefuse, ActCommit, Abort, Tick
<1>2. QED
  BY <1>1, GuardianInvariant, PTL DEF Spec, IssuedFromLiveDecision
=============================================================================
