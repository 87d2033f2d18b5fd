----------------------------- MODULE ToolBroker -----------------------------
(***************************************************************************)
(* The tool broker (packages/tools/broker.py behind the endpoints of       *)
(* apps/mcp_server/main.py) together with the Guardian it asks.            *)
(*                                                                         *)
(* execute and resume each run in ONE database transaction that stays open *)
(* while the broker talks to the Guardian, whose transactions commit on    *)
(* their own, and to the remote tool, whose effect no rollback undoes.     *)
(* Every state change of the broker is therefore in two places: what a     *)
(* transaction knows (tx), and what its commit makes durable (status,      *)
(* result).  A crash, a lost connection, an audit sequence conflict or an  *)
(* exception forgets the first and keeps the second.                       *)
(*                                                                         *)
(* The Guardian is the module of that name: each of its requests is run by *)
(* the broker transaction, or the approver's console, that sent it.  Since *)
(* execute draws a new call id, a call is evaluated once and the branch of *)
(* evaluate that finds an existing decision is not reached from here.      *)
(***************************************************************************)
EXTENDS GuardianPolicy, Naturals

CONSTANTS
  Calls, Hashes, Snaps, DecisionIds, AuthIds, Users, Approvers,
  DecisionTTL, AuthTTL, MaxTime, None,
  Brokers,        \* concurrent requests to the broker
  Consoles,       \* concurrent requests of approvers
  Keys,           \* idempotency keys, per tenant and tool version
  KeyOf,          \* the key a request document carries, or None
  SnapOf          \* the grants and the policy that apply to it

VARIABLES
  now, decision, approval, acted, auth, authStatus, grants, task,
  requestOf,      \* the request hash each call id was drawn for
  status,         \* MCPToolCall.status of committed rows
  result,         \* MCPToolResult.status of committed rows
  tx,             \* open broker transactions
  effects         \* side effects at the remote tool, per call and authorization

Guard == INSTANCE Guardian WITH Tasks <- Brokers \cup Consoles

guardianVars == <<now, decision, approval, acted, auth, authStatus, grants, task>>
brokerVars == <<requestOf, status, result, tx, effects>>
vars == <<now, decision, approval, acted, auth, authStatus, grants, task,
          requestOf, status, result, tx, effects>>

ASSUME BrokerAssumption ==
  /\ KeyOf \in [Hashes -> Keys \cup {None}] /\ None \notin Keys
  /\ SnapOf \in [Hashes -> Snaps]
  /\ None \notin Hashes
  /\ Brokers \cap Consoles = {}

\* What the Guardian asks of its parameters.
ASSUME GuardianParameters ==
  /\ Snaps \subseteq Snapshot
  /\ Approvers \subseteq Users
  /\ DecisionTTL \in Nat \ {0} /\ AuthTTL \in Nat \ {0} /\ MaxTime \in Nat
  /\ None \notin Calls \cup DecisionIds \cup AuthIds

Terminal == {"SUCCEEDED", "FAILED", "UNKNOWN", "BLOCKED"}
Statuses == {"NONE", "WAITING_APPROVAL"} \cup Terminal

NoTx == [step |-> "idle"]
Steps == {"evaluate", "evaluating", "authorize", "authorizing",
          "consume", "consuming", "call", "commit"}
Tx == [op : {"execute", "resume"}, call : Calls, step : Steps,
       auth : AuthIds \cup {None}, status : Statuses]

TypeOK ==
  /\ Guard!TypeOK
  /\ requestOf \in [Calls -> Hashes \cup {None}]
  /\ status \in [Calls -> Statuses]
  /\ result \in [Calls -> Terminal \cup {"NONE"}]
  /\ tx \in [Brokers -> Tx \cup {NoTx}]
  /\ effects \in [Calls -> [AuthIds \cup {None} -> Nat]]

Init ==
  /\ Guard!Init
  /\ requestOf = [c \in Calls |-> None]
  /\ status = [c \in Calls |-> "NONE"]
  /\ result = [c \in Calls |-> "NONE"]
  /\ tx = [k \in Brokers |-> NoTx]
  /\ effects = [c \in Calls |-> [a \in AuthIds \cup {None} |-> 0]]

-----------------------------------------------------------------------------
(* Helpers on transactions.                                                *)

At(k, s) == tx[k].step = s
Hash(k) == requestOf[tx[k].call]
Snap(k) == SnapOf[Hash(k)]

\* Transaction k moves on to step s, holding authorization a and status st.
Go(k, s, a, st) ==
  tx' = [tx EXCEPT ![k] = [op |-> tx[k].op, call |-> tx[k].call, step |-> s,
                           auth |-> a, status |-> st]]

Drop(k) == tx' = [tx EXCEPT ![k] = NoTx]

\* The Guardian's answer reaches k only if k still waits for it at step s.
Answer(k, s, next, a, st) ==
  IF At(k, s) THEN Go(k, next, a, st) ELSE UNCHANGED tx

UnchangedRows == UNCHANGED <<requestOf, status, result, effects>>

-----------------------------------------------------------------------------
(* ToolBroker.execute                                                      *)

\* _find_idempotent_result sees committed rows only, and nothing keeps a row
\* with the same key from being committed later.
KeyUnused(h) ==
  KeyOf[h] # None =>
    \A c \in Calls : status[c] # "NONE" => KeyOf[requestOf[c]] # KeyOf[h]

\* Up to the insert of the VALIDATED row.  A refused access, a replayed
\* result, a conflict or a call in progress answers without writing anything.
ExecuteStart(k, c, h) ==
  /\ tx[k] = NoTx
  /\ requestOf[c] = None
  /\ ValidateAccess(SnapOf[h])
  /\ KeyUnused(h)
  /\ requestOf' = [requestOf EXCEPT ![c] = h]
  /\ tx' = [tx EXCEPT ![k] =
       [op |-> "execute", call |-> c, auth |-> None, status |-> "NONE",
        step |-> IF Protected(SnapOf[h]) THEN "evaluate" ELSE "call"]]
  /\ UNCHANGED <<status, result, effects>>
  /\ UNCHANGED guardianVars

SendEvaluate(k) ==
  /\ At(k, "evaluate")
  /\ Guard!EvaluateRead(k, tx[k].call, Hash(k), Snap(k))
  /\ Go(k, "evaluating", None, "NONE")
  /\ UnchangedRows

AnswerAllow(k, d, a) ==
  /\ Guard!EvaluateAllow(k, d, a)
  /\ Answer(k, "evaluating", "consume", a, "NONE")
  /\ UnchangedRows

AnswerEscalate(k, d) ==
  /\ Guard!EvaluateEscalate(k, d)
  /\ Answer(k, "evaluating", "commit", None, "WAITING_APPROVAL")
  /\ UnchangedRows

AnswerBlock(k, d) ==
  /\ Guard!EvaluateBlock(k, d)
  /\ Answer(k, "evaluating", "commit", None, "BLOCKED")
  /\ UnchangedRows

\* Mutated form: a refused consumption is not raised and the call goes on.
AnswerErrorIgnored(k) ==
  /\ Guard!Abort(k)
  /\ \/ At(k, "evaluating") /\ Go(k, "commit", None, "BLOCKED")
     \/ At(k, "consuming") /\ Go(k, "call", tx[k].auth, "NONE")
     \/ UNCHANGED tx
  /\ UnchangedRows

\* The Guardian rolls back and answers with an error.  execute turns a failed
\* evaluation into BLOCKED; a failed authorization or consumption raises.
AnswerError(k) ==
  /\ Guard!Abort(k)
  /\ \/ At(k, "evaluating") /\ Go(k, "commit", None, "BLOCKED")
     \/ tx[k].step \in {"authorizing", "consuming"} /\ Drop(k)
     \/ UNCHANGED tx                       \* nobody hears the answer
  /\ UnchangedRows

-----------------------------------------------------------------------------
(* ToolBroker.resume: the call row is read with_for_update and stays       *)
(* locked until the transaction ends.                                      *)

\* Mutated form: the row is read without with_for_update.
NeverLocked(c) == FALSE

CallLocked(c) == \E k \in Brokers : tx[k] # NoTx /\ tx[k].op = "resume" /\ tx[k].call = c

ResumeStart(k, c) ==
  /\ tx[k] = NoTx
  /\ ~CallLocked(c)
  /\ status[c] = "WAITING_APPROVAL"
  /\ tx' = [tx EXCEPT ![k] = [op |-> "resume", call |-> c, step |-> "authorize",
                              auth |-> None, status |-> "NONE"]]
  /\ UnchangedRows
  /\ UNCHANGED guardianVars

SendAuthorize(k) ==
  /\ At(k, "authorize")
  /\ Guard!AuthorizeRead(k, tx[k].call, Hash(k))
  /\ Go(k, "authorizing", None, "NONE")
  /\ UnchangedRows

AnswerAuthorize(k, a) ==
  /\ Guard!AuthorizeIssue(k, a)
  /\ Answer(k, "authorizing", "consume", a, "NONE")
  /\ UnchangedRows

-----------------------------------------------------------------------------
(* Both paths consume the authorization and enter _call.                   *)

SendConsume(k) ==
  /\ At(k, "consume")
  /\ Guard!ConsumeRead(k, tx[k].auth, tx[k].call, Hash(k))
  /\ Go(k, "consuming", tx[k].auth, "NONE")
  /\ UnchangedRows

AnswerConsume(k) ==
  /\ Guard!ConsumeCommit(k)
  /\ Answer(k, "consuming", "call", tx[k].auth, "NONE")
  /\ UnchangedRows

\* Mutated form: a failed side effect counts as one that did not happen.
OutcomeNeverUnknown(s, ok) == IF ok THEN "SUCCEEDED" ELSE "FAILED"

\* The status _call gives a call whose reply was good, or was not.
Outcome(s, ok) ==
  IF ok THEN "SUCCEEDED" ELSE IF s.sideEffects THEN "UNKNOWN" ELSE "FAILED"

\* One attempt, never retried for a side effect.  The effect may take place
\* although the reply is lost, late, an error or larger than the policy allows.
CallTool(k, happened, ok) ==
  /\ At(k, "call")
  /\ ok => happened
  /\ effects' = IF happened /\ Snap(k).sideEffects
                  THEN [effects EXCEPT ![tx[k].call][tx[k].auth] = @ + 1]
                  ELSE effects
  /\ Go(k, "commit", tx[k].auth, Outcome(Snap(k), ok))
  /\ UNCHANGED <<requestOf, status, result>>
  /\ UNCHANGED guardianVars

\* The transaction commits: call row, attempt, result, outbox and audit rows.
Commit(k) ==
  /\ At(k, "commit")
  /\ status' = [status EXCEPT ![tx[k].call] = tx[k].status]
  /\ result' = IF tx[k].status \in Terminal
                 THEN [result EXCEPT ![tx[k].call] = tx[k].status]
                 ELSE result
  /\ Drop(k)
  /\ UNCHANGED <<requestOf, effects>>
  /\ UNCHANGED guardianVars

\* A crash or an exception at any point: the transaction leaves no trace in
\* the broker's tables.  A Guardian request it had sent runs on without it.
TxAbort(k) ==
  /\ tx[k] # NoTx
  /\ Drop(k)
  /\ UnchangedRows
  /\ UNCHANGED guardianVars

-----------------------------------------------------------------------------
(* Approvers at their consoles, and time.                                  *)

Approve(j) ==
  /\ \/ \E d \in DecisionIds, u \in Users, v \in Guard!Verbs : Guard!ActRead(j, d, u, v)
     \/ \E d \in DecisionIds : Guard!ActExpired(j, d)
     \/ Guard!ActCommit(j)
     \/ Guard!Abort(j)
  /\ UNCHANGED brokerVars

Tick == Guard!Tick /\ UNCHANGED brokerVars

Next ==
  \/ \E k \in Brokers :
       \/ \E c \in Calls, h \in Hashes : ExecuteStart(k, c, h)
       \/ \E c \in Calls : ResumeStart(k, c)
       \/ SendEvaluate(k)
       \/ \E d \in DecisionIds : \/ \E a \in AuthIds : AnswerAllow(k, d, a)
                                 \/ AnswerEscalate(k, d)
                                 \/ AnswerBlock(k, d)
       \/ SendAuthorize(k)
       \/ \E a \in AuthIds : AnswerAuthorize(k, a)
       \/ SendConsume(k)
       \/ AnswerConsume(k)
       \/ AnswerError(k)
       \/ \E happened, ok \in BOOLEAN : CallTool(k, happened, ok)
       \/ Commit(k)
       \/ TxAbort(k)
  \/ \E j \in Consoles : Approve(j)
  \/ Tick

Spec == Init /\ [][Next]_vars

-----------------------------------------------------------------------------
(* Every side effect of a protected tool was paid for by one authorization *)
(* that the Guardian consumed for exactly that call and request hash, and  *)
(* no authorization pays for two.                                          *)
EffectAuthorized ==
  \A c \in Calls, a \in AuthIds \cup {None} :
    effects[c][a] > 0 /\ Protected(SnapOf[requestOf[c]]) =>
      /\ a # None
      /\ effects[c][a] = 1
      /\ authStatus[a] = "CONSUMED"
      /\ auth[a].call = c /\ auth[a].hash = requestOf[c]

(* A call that an approver rejected has no effect, not even through an     *)
(* authorization issued before or beside the rejection.                    *)
RejectedNeverRuns ==
  \A d \in DecisionIds : approval[d] = "REJECTED" =>
    \A a \in AuthIds \cup {None} : effects[decision[d].call][a] = 0

(* The stored outcome does not contradict what happened at the remote      *)
(* tool: SUCCEEDED means the effect took place, BLOCKED means it did not,  *)
(* and a side effect is never reported as plainly FAILED.                  *)
OutcomeHonest ==
  \A c \in Calls : LET done == \E a \in AuthIds \cup {None} : effects[c][a] > 0 IN
    /\ status[c] = "SUCCEEDED" /\ SnapOf[requestOf[c]].sideEffects => done
    /\ status[c] = "BLOCKED" => ~done
    /\ status[c] = "FAILED" => ~done

(* Once a call is stored with a result, UNKNOWN included, neither a retry  *)
(* nor a resume produces another effect or another result for it.          *)
SettledStaysSettled ==
  [][\A c \in Calls : status[c] \in Terminal =>
       /\ status'[c] = status[c] /\ result'[c] = result[c]
       /\ \A a \in AuthIds \cup {None} : effects'[c][a] = effects[c][a]]_vars

(* "Mutation result unknown | reconcile by idempotency lookup; do not      *)
(* blind retry" (docs/backend-architecture/README.md): a call produces its *)
(* side effect at most once.                                               *)
NoBlindRetry ==
  \A c \in Calls, a, b \in AuthIds \cup {None} :
    effects[c][a] > 0 /\ effects[c][b] > 0 => a = b
=============================================================================
