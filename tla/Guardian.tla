------------------------------ MODULE Guardian ------------------------------
(***************************************************************************)
(* The Guardian service (packages/guardian/service.py behind the endpoints *)
(* of apps/guardian/main.py): decisions, human approvals and single-use    *)
(* authorizations for exact tool requests.                                 *)
(*                                                                         *)
(* Every endpoint runs in one database transaction at READ COMMITTED.  A   *)
(* request is a task that first reads (and, where the code says            *)
(* with_for_update, locks) rows and later commits its writes; tasks        *)
(* interleave between the two.  An exception rolls everything back, so the *)
(* EXPIRED status that act_on_approval and consume assign just before they *)
(* raise is never stored: an expired row is simply refused.                *)
(*                                                                         *)
(* A call identifier stands for (tenant, tool call id).  A token is        *)
(* presented by the identifier of its authorization row: the signature,    *)
(* the claims and the token hash bind it to exactly that row.              *)
(***************************************************************************)
EXTENDS GuardianPolicy, Naturals

CONSTANTS
  Calls,          \* tool calls the brokers ask about
  Hashes,         \* canonical request hashes
  Snaps,          \* the snapshots requests come with
  DecisionIds,    \* identifiers of decision rows and of their approval rows
  AuthIds,        \* identifiers of authorization rows
  Users,          \* people who may act on an approval
  Approvers,      \* those who hold the role guardian-approver
  Tasks,          \* concurrent requests the service handles
  DecisionTTL,    \* 15 minutes in clock units
  AuthTTL,        \* 120 seconds in clock units
  MaxTime,        \* bound on the clock
  None

ASSUME GuardianAssumption ==
  /\ Snaps \subseteq Snapshot
  /\ Approvers \subseteq Users
  /\ DecisionTTL \in Nat \ {0} /\ AuthTTL \in Nat \ {0} /\ MaxTime \in Nat
  /\ None \notin Calls \cup DecisionIds \cup AuthIds

VARIABLES
  now,            \* the clock
  decision,       \* decision rows
  approval,       \* status of the approval row of each decision
  acted,          \* GuardianApprovalAction rows
  auth,           \* authorization rows: what each one is for
  authStatus,     \* and their status column
  grants,         \* per authorization, how often consume answered "consumed"
  task            \* in-flight transactions

guardianVars == <<now, decision, approval, acted, auth, authStatus, grants, task>>

Time == 0 .. MaxTime

NoDecision == [call |-> None]
DecisionRow ==
  [call : Calls, hash : Hashes, snap : Snaps, outcome : Outcomes,
   created : Time, expires : Nat]

NoAuth == [call |-> None]
AuthRow ==
  [call : Calls, hash : Hashes, decision : DecisionIds, expires : Nat]
AuthStatuses == {"NONE", "ACTIVE", "CONSUMED"}

ApprovalStatus == {"NONE", "PENDING", "APPROVED", "REJECTED", "EXPIRED"}
Verdicts == {"APPROVED", "REJECTED"}
Verbs == {"APPROVE", "REJECT"}
ActionRow == [decision : DecisionIds, user : Users, action : Verbs]

Idle == [op |-> "idle"]
EvaluateTask ==
  [op : {"evaluate"}, call : Calls, hash : Hashes, snap : Snaps, at : Time,
   found : DecisionIds \cup {None}]
AuthorizeTask == [op : {"authorize"}, at : Time, found : DecisionIds]
ActTask == [op : {"act"}, act : ActionRow]
ExpireTask == [op : {"expire"}, decision : DecisionIds]
ConsumeTask == [op : {"consume"}, auth : AuthIds]

TypeOK ==
  /\ now \in Time
  /\ decision \in [DecisionIds -> DecisionRow \cup {NoDecision}]
  /\ approval \in [DecisionIds -> ApprovalStatus]
  /\ acted \in SUBSET ActionRow
  /\ auth \in [AuthIds -> AuthRow \cup {NoAuth}]
  /\ authStatus \in [AuthIds -> AuthStatuses]
  /\ grants \in [AuthIds -> Nat]
  /\ task \in [Tasks -> {Idle} \cup EvaluateTask \cup AuthorizeTask
                          \cup ActTask \cup ExpireTask \cup ConsumeTask]

Init ==
  /\ now = 0
  /\ decision = [d \in DecisionIds |-> NoDecision]
  /\ approval = [d \in DecisionIds |-> "NONE"]
  /\ acted = {}
  /\ auth = [a \in AuthIds |-> NoAuth]
  /\ authStatus = [a \in AuthIds |-> "NONE"]
  /\ grants = [a \in AuthIds |-> 0]
  /\ task = [t \in Tasks |-> Idle]

-----------------------------------------------------------------------------
(* POST /internal/guardian/evaluate.                                       *)

Matching(c, h) ==
  {d \in DecisionIds : decision[d].call = c /\ decision[d].hash = h}

\* ORDER BY created_at DESC LIMIT 1: any row of the newest instant.
Latest(D) == {d \in D : \A e \in D : decision[e].created <= decision[d].created}

\* Mutated form: expired decisions are found too.
ExistingDecisionAnyAge(c, h) ==
  IF Matching(c, h) = {} THEN {None} ELSE Latest(Matching(c, h))

\* The newest unexpired decision on exactly this request, if there is one.
ExistingDecision(c, h) ==
  LET live == {d \in Matching(c, h) : decision[d].expires > now}
  IN  IF live = {} THEN {None} ELSE Latest(live)

EvaluateRead(t, c, h, s) ==
  /\ task[t] = Idle
  /\ \E f \in ExistingDecision(c, h) :
       task' = [task EXCEPT ![t] = [op |-> "evaluate", call |-> c, hash |-> h,
                                    snap |-> s, at |-> now, found |-> f]]
  /\ UNCHANGED <<now, decision, approval, acted, auth, authStatus, grants>>

\* _issue_authorization for decision d with the contents row.
IssueAuthorization(a, d, row) ==
  /\ authStatus[a] = "NONE"
  /\ auth' = [auth EXCEPT ![a] = [call |-> row.call, hash |-> row.hash,
                                  decision |-> d, expires |-> now + AuthTTL]]
  /\ authStatus' = [authStatus EXCEPT ![a] = "ACTIVE"]

Finish(t) == task' = [task EXCEPT ![t] = Idle]

\* The policy is evaluated and the decision row inserted.
NewDecision(t, d) ==
  /\ task[t].op = "evaluate" /\ task[t].found = None
  /\ decision[d] = NoDecision
  /\ decision' = [decision EXCEPT ![d] =
       [call |-> task[t].call, hash |-> task[t].hash, snap |-> task[t].snap,
        outcome |-> PolicyEvaluate(task[t].snap),
        created |-> task[t].at, expires |-> task[t].at + DecisionTTL]]
  /\ Finish(t)
  /\ UNCHANGED <<now, acted, grants>>

EvaluateAllow(t, d, a) ==
  /\ NewDecision(t, d)
  /\ decision'[d].outcome = "ALLOW"
  /\ IssueAuthorization(a, d, decision'[d])
  /\ UNCHANGED approval

EvaluateEscalate(t, d) ==
  /\ NewDecision(t, d)
  /\ decision'[d].outcome = "ESCALATE"
  /\ approval' = [approval EXCEPT ![d] = "PENDING"]
  /\ UNCHANGED <<auth, authStatus>>

EvaluateBlock(t, d) ==
  /\ NewDecision(t, d)
  /\ decision'[d].outcome = "BLOCK"
  /\ UNCHANGED <<approval, auth, authStatus>>

\* Mutated form: only a rejection or an expiry stands in the way.
GrantsUnlessRejected(d) == approval[d] \notin {"REJECTED", "EXPIRED"}

\* _resolve_existing: which found decisions carry authority.
Grants(d) ==
  \/ approval[d] = "APPROVED"
  \/ approval[d] \notin {"REJECTED", "EXPIRED"} /\ decision[d].outcome = "ALLOW"

ResolveIssue(t, a) ==
  /\ task[t].op = "evaluate" /\ task[t].found # None
  /\ Grants(task[t].found)
  /\ IssueAuthorization(a, task[t].found, decision[task[t].found])
  /\ Finish(t)
  /\ UNCHANGED <<now, decision, approval, acted, grants>>

ResolveRefuse(t) ==
  /\ task[t].op = "evaluate" /\ task[t].found # None
  /\ ~Grants(task[t].found)
  /\ Finish(t)
  /\ UNCHANGED <<now, decision, approval, acted, auth, authStatus, grants>>

-----------------------------------------------------------------------------
(* POST /internal/guardian/authorizations/approved: the newest approved    *)
(* decision on the request is chosen first and its expiry checked after.   *)

\* Mutated form: any resolved approval will do.
AuthorizeReadAnyVerdict(t, c, h) ==
  /\ task[t] = Idle
  /\ \E d \in Latest({e \in Matching(c, h) : approval[e] \in Verdicts}) :
       /\ decision[d].expires > now
       /\ task' = [task EXCEPT ![t] = [op |-> "authorize", at |-> now, found |-> d]]
  /\ UNCHANGED <<now, decision, approval, acted, auth, authStatus, grants>>

AuthorizeRead(t, c, h) ==
  /\ task[t] = Idle
  /\ \E d \in Latest({e \in Matching(c, h) : approval[e] = "APPROVED"}) :
       /\ decision[d].expires > now
       /\ task' = [task EXCEPT ![t] = [op |-> "authorize", at |-> now, found |-> d]]
  /\ UNCHANGED <<now, decision, approval, acted, auth, authStatus, grants>>

AuthorizeIssue(t, a) ==
  /\ task[t].op = "authorize"
  /\ IssueAuthorization(a, task[t].found, decision[task[t].found])
  /\ Finish(t)
  /\ UNCHANGED <<now, decision, approval, acted, grants>>

-----------------------------------------------------------------------------
(* POST /internal/guardian/approvals/{id}/actions.  The approval row is    *)
(* read with_for_update, so it stays locked until the task ends.           *)

\* Mutated form: the row is read without with_for_update.
NeverLocked(x) == FALSE

ApprovalLocked(d) ==
  \E t \in Tasks : \/ task[t].op = "act" /\ task[t].act.decision = d
                   \/ task[t].op = "expire" /\ task[t].decision = d

\* The status an approver's verb leads to.
StatusFor(v) == IF v = "APPROVE" THEN "APPROVED" ELSE "REJECTED"

ActRead(t, d, u, v) ==
  /\ task[t] = Idle
  /\ ~ApprovalLocked(d)
  /\ approval[d] = "PENDING"
  /\ decision[d].expires > now
  /\ u \in Approvers
  /\ task' = [task EXCEPT ![t] =
               [op |-> "act", act |-> [decision |-> d, user |-> u, action |-> v]]]
  /\ UNCHANGED <<now, decision, approval, acted, auth, authStatus, grants>>

ActCommit(t) ==
  /\ task[t].op = "act"
  /\ approval' = [approval EXCEPT ![task[t].act.decision] =
                                             StatusFor(task[t].act.action)]
  /\ acted' = acted \cup {task[t].act}
  /\ Finish(t)
  /\ UNCHANGED <<now, decision, auth, authStatus, grants>>

\* The approval has expired: the handler assigns EXPIRED and then raises, so
\* the only way this task ends is the rollback in Abort.
ActExpired(t, d) ==
  /\ task[t] = Idle
  /\ ~ApprovalLocked(d)
  /\ approval[d] = "PENDING"
  /\ decision[d].expires <= now
  /\ task' = [task EXCEPT ![t] = [op |-> "expire", decision |-> d]]
  /\ UNCHANGED <<now, decision, approval, acted, auth, authStatus, grants>>

-----------------------------------------------------------------------------
(* POST /internal/guardian/authorizations/consume, with the authorization  *)
(* row locked from the read to the commit.                                 *)

AuthLocked(a) == \E t \in Tasks : task[t].op = "consume" /\ task[t].auth = a

ConsumeRead(t, a, c, h) ==
  /\ task[t] = Idle
  /\ ~AuthLocked(a)
  /\ authStatus[a] = "ACTIVE"
  /\ auth[a].call = c /\ auth[a].hash = h
  /\ auth[a].expires > now
  /\ task' = [task EXCEPT ![t] = [op |-> "consume", auth |-> a]]
  /\ UNCHANGED <<now, decision, approval, acted, auth, authStatus, grants>>

ConsumeCommit(t) ==
  /\ task[t].op = "consume"
  /\ authStatus' = [authStatus EXCEPT ![task[t].auth] = "CONSUMED"]
  /\ grants' = [grants EXCEPT ![task[t].auth] = @ + 1]
  /\ Finish(t)
  /\ UNCHANGED <<now, decision, approval, acted, auth>>

-----------------------------------------------------------------------------
\* Any exception before the commit: a crash, a lost database connection, an
\* audit sequence conflict, a missing signing key, or the raise of an expiry.
Abort(t) ==
  /\ task[t] # Idle
  /\ Finish(t)
  /\ UNCHANGED <<now, decision, approval, acted, auth, authStatus, grants>>

Tick ==
  /\ now < MaxTime
  /\ now' = now + 1
  /\ UNCHANGED <<decision, approval, acted, auth, authStatus, grants, task>>

Next ==
  \/ \E t \in Tasks :
       \/ \E c \in Calls, h \in Hashes :
            \/ \E s \in Snaps : EvaluateRead(t, c, h, s)
            \/ AuthorizeRead(t, c, h)
            \/ \E a \in AuthIds : ConsumeRead(t, a, c, h)
       \/ \E d \in DecisionIds :
            \/ \E a \in AuthIds : EvaluateAllow(t, d, a)
            \/ EvaluateEscalate(t, d)
            \/ EvaluateBlock(t, d)
            \/ \E u \in Users, v \in Verbs : ActRead(t, d, u, v)
            \/ ActExpired(t, d)
       \/ \E a \in AuthIds : ResolveIssue(t, a) \/ AuthorizeIssue(t, a)
       \/ ResolveRefuse(t)
       \/ ActCommit(t)
       \/ ConsumeCommit(t)
       \/ Abort(t)
  \/ Tick

Spec == Init /\ [][Next]_guardianVars

-----------------------------------------------------------------------------
(* Every authorization ever issued is for exactly the call and hash of its *)
(* decision, and rests either on an ALLOW for a policy that asks for no    *)
(* human, or on an APPROVED verdict that a holder of guardian-approver     *)
(* gave on that very decision.                                             *)
AuthGrounded ==
  \A a \in AuthIds : authStatus[a] # "NONE" =>
    LET d == auth[a].decision IN
      /\ decision[d] # NoDecision
      /\ auth[a].call = decision[d].call /\ auth[a].hash = decision[d].hash
      /\ \/ decision[d].outcome = "ALLOW" /\ ~NeedsHuman(decision[d].snap)
         \/ \E u \in Approvers :
              [decision |-> d, user |-> u, action |-> "APPROVE"] \in acted

(* consume answers "consumed" at most once for an authorization, however   *)
(* many requests present its token at the same time, and exactly once if   *)
(* the row says CONSUMED.                                                  *)
SingleUse ==
  \A a \in AuthIds :
    grants[a] = IF authStatus[a] = "CONSUMED" THEN 1 ELSE 0

(* An approval that says APPROVED or REJECTED got exactly that verdict     *)
(* from one approver; an open approval has none.  Two approvers acting at  *)
(* the same moment cannot both be recorded.                                *)
OneVerdict ==
  \A d \in DecisionIds :
    LET actions == {r \in acted : r.decision = d} IN
      \/ \E u \in Approvers, v \in Verbs :
           /\ actions = {[decision |-> d, user |-> u, action |-> v]}
           /\ approval[d] = StatusFor(v)
      \/ approval[d] \notin Verdicts /\ actions = {}

(* What a request read under its row lock is still so when it commits, and *)
(* no two requests hold the same row: without with_for_update a second     *)
(* verdict or a second use would slip in between the read and the write.   *)
ReadsStillHold ==
  /\ \A t \in Tasks :
       /\ task[t].op = "act" => /\ approval[task[t].act.decision] = "PENDING"
                                /\ task[t].act.user \in Approvers
       /\ task[t].op = "authorize" => approval[task[t].found] = "APPROVED"
       /\ task[t].op = "consume" => authStatus[task[t].auth] = "ACTIVE"
  /\ \A t, u \in Tasks : t # u =>
       /\ task[t].op = "act" /\ task[u].op = "act" =>
            task[t].act.decision # task[u].act.decision
       /\ task[t].op = "consume" /\ task[u].op = "consume" =>
            task[t].auth # task[u].auth

(* A new authorization is issued only by a request that had seen its       *)
(* decision alive: an expired approval can never be turned into authority  *)
(* by a request that arrives after the expiry.                             *)
IssuedFromLiveDecision ==
  [][\A a \in AuthIds : authStatus[a] = "NONE" /\ authStatus'[a] # "NONE" =>
       \E t \in Tasks : /\ task[t].op \in {"evaluate", "authorize"}
                         /\ task[t].at < decision'[auth'[a].decision].expires]_guardianVars
=============================================================================
