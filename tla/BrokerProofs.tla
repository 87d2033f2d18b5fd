---------------------------- MODULE BrokerProofs ----------------------------
(***************************************************************************)
(* Proofs about the tool broker for any number of calls, concurrent broker *)
(* requests and consoles.  First the refinement: what the broker and the   *)
(* consoles do to the Guardian's tables is a behaviour of the Guardian, so *)
(* its theorems hold here.  Then the broker's own inductive invariant,     *)
(* which follows a call id through its life:                               *)
(*   Exclusive    one open transaction per call;                           *)
(*   Waiting      what a transaction that waits for the Guardian can be    *)
(*                told: its own request's answer, or nothing;              *)
(*   EvaluatedOnce a call has one evaluation, hence one decision;          *)
(*   Paid         an effect and the authorization that paid for it;        *)
(*   Progress     what a transaction at each step implies for the effects. *)
(* The access checks, which a transaction takes as one step, come last.    *)
(***************************************************************************)
EXTENDS ToolBroker, AccessGate, TLAPS

GP == INSTANCE GuardianProofs WITH Tasks <- Brokers \cup Consoles

Auths == AuthIds \cup {None}
Active(k) == tx[k] # NoTx
NoEffect(c) == \A a \in Auths : effects[c][a] = 0
Undecided(c) == \A d \in DecisionIds : decision[d].call # c

Exclusive ==
  /\ \A k \in Brokers : Active(k) =>
       status[tx[k].call] = IF tx[k].op = "execute" THEN "NONE" ELSE "WAITING_APPROVAL"
  /\ \A k, l \in Brokers : k # l /\ Active(k) /\ Active(l) => tx[k].call # tx[l].call

EvaluatedOnce ==
  /\ \A d \in DecisionIds : decision[d] # Guard!NoDecision =>
       /\ requestOf[decision[d].call] # None
       /\ Protected(SnapOf[requestOf[decision[d].call]])
       /\ approval[d] # "NONE" => decision[d].outcome = "ESCALATE"
  /\ \A d, e \in DecisionIds :
       decision[d] # Guard!NoDecision /\ decision[e] # Guard!NoDecision /\ d # e =>
         decision[d].call # decision[e].call
  /\ \A t \in Brokers \cup Consoles : task[t].op = "evaluate" =>
       /\ task[t].found = None
       /\ requestOf[task[t].call] # None
       /\ Protected(SnapOf[requestOf[task[t].call]])
       /\ Undecided(task[t].call)
  /\ \A t, u \in Brokers \cup Consoles :
       t # u /\ task[t].op = "evaluate" /\ task[u].op = "evaluate" =>
         task[t].call # task[u].call
  /\ \A k \in Brokers : At(k, "evaluate") =>
       /\ Undecided(tx[k].call)
       /\ \A t \in Brokers \cup Consoles :
            task[t].op = "evaluate" => task[t].call # tx[k].call

IssuedFor(a, c) ==
  /\ a \in AuthIds
  /\ authStatus[a] # "NONE"
  /\ auth[a].call = c /\ auth[a].hash = requestOf[c]

WaitingOf(k) ==
  /\ At(k, "evaluating") =>
       \/ task[k] = Guard!Idle
       \/ task[k].op = "evaluate" /\ task[k].call = tx[k].call /\ task[k].hash = Hash(k)
  /\ At(k, "authorizing") =>
       \/ task[k] = Guard!Idle
       \/ /\ task[k].op = "authorize"
          /\ decision[task[k].found].call = tx[k].call
          /\ decision[task[k].found].hash = Hash(k)
  /\ At(k, "consuming") =>
       \/ task[k] = Guard!Idle
       \/ task[k].op = "consume" /\ task[k].auth = tx[k].auth

Waiting == \A k \in Brokers : WaitingOf(k)

Paid ==
  \A c \in Calls, a \in Auths : effects[c][a] > 0 =>
    /\ requestOf[c] # None
    /\ SnapOf[requestOf[c]].sideEffects
    /\ a = None => ~Protected(SnapOf[requestOf[c]])
    /\ a # None => /\ effects[c][a] = 1
                   /\ authStatus[a] = "CONSUMED"
                   /\ auth[a].call = c /\ auth[a].hash = requestOf[c]

ProgressOf(k) ==
  /\ tx[k].step \in {"evaluate", "evaluating"} => tx[k].op = "execute" /\ Protected(Snap(k))
  /\ tx[k].step \in {"authorize", "authorizing"} => tx[k].op = "resume"
  /\ tx[k].step \in {"consume", "consuming"} => IssuedFor(tx[k].auth, tx[k].call)
  /\ At(k, "call") =>
       \/ tx[k].auth = None /\ tx[k].op = "execute" /\ ~Protected(Snap(k))
       \/ /\ IssuedFor(tx[k].auth, tx[k].call)
          /\ authStatus[tx[k].auth] = "CONSUMED"
          /\ effects[tx[k].call][tx[k].auth] = 0
  /\ Active(k) /\ tx[k].op = "execute" /\ tx[k].step # "commit" => NoEffect(tx[k].call)
  /\ At(k, "commit") =>
       /\ tx[k].status # "NONE"
       /\ tx[k].status \in {"WAITING_APPROVAL", "BLOCKED"} => tx[k].op = "execute" /\ NoEffect(tx[k].call)
       /\ tx[k].status = "SUCCEEDED" /\ Snap(k).sideEffects =>
            ~NoEffect(tx[k].call)
       /\ tx[k].status = "FAILED" => ~Snap(k).sideEffects

Progress == \A k \in Brokers : ProgressOf(k)

Honest ==
  \A c \in Calls :
    /\ status[c] = "SUCCEEDED" /\ SnapOf[requestOf[c]].sideEffects => ~NoEffect(c)
    /\ status[c] \in {"BLOCKED", "FAILED"} => NoEffect(c)

BInv == Exclusive /\ EvaluatedOnce /\ Waiting /\ Paid /\ Progress /\ Honest

-----------------------------------------------------------------------------
(* The broker's own tables have their types; a stored call and an open     *)
(* transaction are about a call id that was drawn for a request.           *)
Drawn(k) ==
  Active(k) =>
    /\ requestOf[tx[k].call] # None
    /\ tx[k].step \in {"consume", "consuming"} => tx[k].auth \in AuthIds

RowsOK ==
  /\ requestOf \in [Calls -> Hashes \cup {None}]
  /\ status \in [Calls -> Statuses]
  /\ result \in [Calls -> Terminal \cup {"NONE"}]
  /\ tx \in [Brokers -> Tx \cup {NoTx}]
  /\ effects \in [Calls -> [Auths -> Nat]]
  /\ \A k \in Brokers : Drawn(k)
  /\ \A c \in Calls : status[c] # "NONE" => requestOf[c] # None

LEMMA TxShape ==
  ASSUME RowsOK, NEW k \in Brokers
  PROVE  /\ Active(k) <=> tx[k] \in Tx
         /\ tx[k].step \in Steps => Active(k)
         /\ Active(k) => /\ tx[k].call \in Calls /\ tx[k].auth \in Auths
                         /\ tx[k].op \in {"execute", "resume"}
                         /\ tx[k].status \in Statuses /\ tx[k].step \in Steps
                         /\ Hash(k) \in Hashes /\ Snap(k) \in Snaps
  BY BrokerAssumption DEF RowsOK, Drawn, Active, Tx, NoTx, Steps, Auths, Hash, Snap

LEMMA GoOK ==
  ASSUME RowsOK, NEW k \in Brokers, Active(k), NEW s \in Steps, NEW a \in Auths,
         NEW st \in Statuses, s \in {"consume", "consuming"} => a \in AuthIds,
         Go(k, s, a, st), UNCHANGED requestOf
  PROVE  /\ tx' \in [Brokers -> Tx \cup {NoTx}]
         /\ \A l \in Brokers : Drawn(l)'
<1>1. [op |-> tx[k].op, call |-> tx[k].call, step |-> s, auth |-> a, status |-> st] \in Tx
  BY TxShape DEF Tx, Auths
<1>2. QED BY <1>1 DEF RowsOK, Go, Active, Drawn

LEMMA DropOK ==
  ASSUME RowsOK, NEW k \in Brokers, Drop(k), UNCHANGED requestOf
  PROVE  /\ tx' \in [Brokers -> Tx \cup {NoTx}]
         /\ \A l \in Brokers : Drawn(l)'
  BY DEF RowsOK, Drop, Active, Drawn

LEMMA AnswerOK ==
  ASSUME RowsOK, NEW k \in Brokers, NEW s \in Steps, NEW n \in Steps, NEW a \in Auths,
         NEW st \in Statuses, n \in {"consume", "consuming"} => a \in AuthIds,
         Answer(k, s, n, a, st), UNCHANGED requestOf
  PROVE  /\ tx' \in [Brokers -> Tx \cup {NoTx}]
         /\ \A l \in Brokers : Drawn(l)'
<1>1. CASE At(k, s)
  <2>1. Active(k) BY <1>1, TxShape DEF At
  <2>2. Go(k, n, a, st) BY <1>1 DEF Answer
  <2>3. QED BY <2>1, <2>2, GoOK
<1>2. CASE ~At(k, s)
  BY <1>2 DEF Answer, RowsOK, Active, Drawn
<1>3. QED BY <1>1, <1>2

LEMMA RowsInit == Init => RowsOK
  BY DEF Init, RowsOK, Drawn, Statuses, Active, NoTx, Auths

LEMMA RowsStep == RowsOK /\ [Next]_vars => RowsOK'
<1> SUFFICES ASSUME RowsOK, [Next]_vars PROVE RowsOK'
  OBVIOUS
<1>t. /\ {"NONE", "WAITING_APPROVAL", "BLOCKED"} \subseteq Statuses
      /\ {"evaluate", "evaluating", "authorize", "authorizing", "consume", "consuming", "call", "commit"} \subseteq Steps
      /\ None \in Auths /\ AuthIds \subseteq Auths
  BY DEF Statuses, Terminal, Steps, Auths
<1>0. CASE UNCHANGED vars
  BY <1>0 DEF vars, RowsOK, Active, Drawn
<1>1. ASSUME NEW k \in Brokers, NEW c \in Calls, NEW h \in Hashes, ExecuteStart(k, c, h)
      PROVE  RowsOK'
  <2> DEFINE row == [op |-> "execute", call |-> c, auth |-> None, status |-> "NONE",
                     step |-> IF Protected(SnapOf[h]) THEN "evaluate" ELSE "call"]
  <2>1. row \in Tx
    BY DEF Tx, Steps, Statuses
  <2>2. requestOf' \in [Calls -> Hashes \cup {None}] /\ requestOf'[c] # None
    BY <1>1, BrokerAssumption DEF ExecuteStart, RowsOK
  <2>3. tx' = [tx EXCEPT ![k] = row]
    BY <1>1 DEF ExecuteStart
  <2> HIDE DEF row
  <2>4. tx' \in [Brokers -> Tx \cup {NoTx}]
    BY <2>1, <2>3 DEF RowsOK
  <2>5. \A l \in Brokers : Drawn(l)'
    <3> SUFFICES ASSUME NEW l \in Brokers PROVE Drawn(l)'
      OBVIOUS
    <3>1. CASE l = k
      BY <3>1, <2>3, <2>2 DEF RowsOK, row, Drawn
    <3>2. CASE l # k
      <4>1. tx'[l] = tx[l] BY <3>2, <2>3 DEF RowsOK
      <4>2. Active(l) => tx[l].call \in Calls BY TxShape
      <4>3. Drawn(l) BY DEF RowsOK
      <4>4. QED BY <4>1, <4>2, <4>3, <1>1, BrokerAssumption DEF ExecuteStart, RowsOK, Drawn, Active
    <3>3. QED BY <3>1, <3>2
  <2>6. QED BY <1>1, <2>2, <2>4, <2>5 DEF RowsOK, ExecuteStart
<1>2. ASSUME NEW k \in Brokers, NEW c \in Calls, ResumeStart(k, c)
      PROVE  RowsOK'
  <2> DEFINE row == [op |-> "resume", call |-> c, step |-> "authorize",
                     auth |-> None, status |-> "NONE"]
  <2>1. row \in Tx
    BY DEF Tx, Steps, Statuses
  <2>2. /\ tx' = [tx EXCEPT ![k] = row]
        /\ requestOf[c] # None /\ row.call = c /\ row.step = "authorize"
    BY <1>2 DEF ResumeStart, RowsOK
  <2> HIDE DEF row
  <2>3. QED BY <1>2, <2>1, <2>2 DEF RowsOK, ResumeStart, UnchangedRows, Active, Drawn
<1>3. ASSUME NEW k \in Brokers, SendEvaluate(k) \/ SendAuthorize(k) \/ SendConsume(k)
      PROVE  RowsOK'
  <2>1. Active(k) BY <1>3, TxShape DEF SendEvaluate, SendAuthorize, SendConsume, At, Steps
  <2>2. At(k, "consume") => tx[k].auth \in AuthIds BY <2>1 DEF RowsOK, Drawn, At
  <2>3. UnchangedRows /\ \E s \in Steps, a \in Auths :
          (s \in {"consume", "consuming"} => a \in AuthIds) /\ Go(k, s, a, "NONE")
    BY <1>3, <1>t, <2>2 DEF SendEvaluate, SendAuthorize, SendConsume
  <2>4. QED BY <1>t, <2>1, <2>3, GoOK DEF RowsOK, UnchangedRows
<1>4. ASSUME NEW k \in Brokers, NEW d \in DecisionIds,
             (\E a \in AuthIds : AnswerAllow(k, d, a)) \/ AnswerEscalate(k, d) \/ AnswerBlock(k, d)
      PROVE  RowsOK'
  <2>1. UnchangedRows /\ \E s, n \in Steps, a \in Auths, st \in Statuses :
          (n \in {"consume", "consuming"} => a \in AuthIds) /\ Answer(k, s, n, a, st)
    BY <1>4, <1>t DEF AnswerAllow, AnswerEscalate, AnswerBlock
  <2>2. QED BY <2>1, AnswerOK DEF RowsOK, UnchangedRows
<1>5. ASSUME NEW k \in Brokers, (\E a \in AuthIds : AnswerAuthorize(k, a)) \/ AnswerConsume(k)
      PROVE  RowsOK'
  <2>1. CASE tx' = tx
    BY <1>5, <2>1 DEF RowsOK, UnchangedRows, AnswerAuthorize, AnswerConsume, Active, Drawn
  <2>2. CASE tx' # tx
    <3>1. Active(k)
      BY <1>5, <2>2, TxShape DEF AnswerAuthorize, AnswerConsume, Answer, At, Steps
    <3>2. tx[k].auth \in Auths BY <3>1, TxShape
    <3>3. UnchangedRows /\ \E s, n \in Steps, a \in Auths, st \in Statuses :
            (n \in {"consume", "consuming"} => a \in AuthIds) /\ Answer(k, s, n, a, st)
      BY <1>5, <3>2, <1>t DEF AnswerAuthorize, AnswerConsume
    <3>4. QED BY <3>3, AnswerOK DEF RowsOK, UnchangedRows
  <2>3. QED BY <2>1, <2>2
<1>6. ASSUME NEW k \in Brokers, AnswerError(k)
      PROVE  RowsOK'
  <2>1. CASE At(k, "evaluating") /\ Go(k, "commit", None, "BLOCKED")
    BY <1>6, <2>1, <1>t, TxShape, GoOK DEF RowsOK, UnchangedRows, AnswerError, At, Steps
  <2>2. CASE Drop(k)
    BY <1>6, <2>2, DropOK DEF RowsOK, UnchangedRows, AnswerError
  <2>3. CASE UNCHANGED tx
    BY <1>6, <2>3 DEF RowsOK, UnchangedRows, AnswerError, Active, Drawn
  <2>4. QED BY <1>6, <2>1, <2>2, <2>3 DEF AnswerError
<1>7. ASSUME NEW k \in Brokers, NEW happened \in BOOLEAN, NEW ok \in BOOLEAN, CallTool(k, happened, ok)
      PROVE  RowsOK'
  <2>1. Active(k) /\ tx[k].auth \in Auths /\ tx[k].call \in Calls
    BY <1>7, TxShape DEF CallTool, At, Steps
  <2>2. Outcome(Snap(k), ok) \in Statuses
    BY DEF Outcome, Statuses, Terminal
  <2>3. effects' \in [Calls -> [Auths -> Nat]]
    BY <1>7, <2>1 DEF CallTool, RowsOK
  <2>4. QED BY <1>7, <1>t, <2>1, <2>2, <2>3, GoOK DEF CallTool, RowsOK
<1>8. ASSUME NEW k \in Brokers, Commit(k)
      PROVE  RowsOK'
  <2>1. Active(k) /\ tx[k].call \in Calls /\ tx[k].status \in Statuses /\ requestOf[tx[k].call] # None
    BY <1>8, TxShape DEF Commit, At, Steps, RowsOK, Drawn
  <2>2. status' \in [Calls -> Statuses] /\ \A c \in Calls : status'[c] # "NONE" => requestOf'[c] # None
    BY <1>8, <2>1 DEF Commit, RowsOK
  <2>3. result' \in [Calls -> Terminal \cup {"NONE"}]
    BY <1>8, <2>1 DEF Commit, RowsOK
  <2>4. QED BY <1>8, <2>2, <2>3, DropOK DEF Commit, RowsOK
<1>9. ASSUME NEW k \in Brokers, TxAbort(k)
      PROVE  RowsOK'
  BY <1>9, DropOK DEF TxAbort, RowsOK, UnchangedRows
<1>10. CASE Tick \/ \E j \in Consoles : Approve(j)
  BY <1>10 DEF Tick, Approve, brokerVars, RowsOK, Active, Drawn
<1>q. QED
  BY <1>0, <1>1, <1>2, <1>3, <1>4, <1>5, <1>6, <1>7, <1>8, <1>9, <1>10 DEF Next

-----------------------------------------------------------------------------
(* The broker refines the Guardian.                                        *)

LEMMA GuardianStep == RowsOK /\ [Next]_vars => [Guard!Next]_(Guard!guardianVars)
<1> SUFFICES ASSUME RowsOK, Next, ~UNCHANGED Guard!guardianVars PROVE Guard!Next
  BY DEF vars, Guard!guardianVars
<1>1. ASSUME NEW k \in Brokers, SendEvaluate(k)
      PROVE  Guard!Next
  <2>1. tx[k].call \in Calls /\ Hash(k) \in Hashes /\ Snap(k) \in Snaps
    BY <1>1, TxShape DEF SendEvaluate, At, Steps
  <2>2. QED BY <1>1, <2>1 DEF SendEvaluate, Guard!Next
<1>2. ASSUME NEW k \in Brokers, SendAuthorize(k)
      PROVE  Guard!Next
  <2>1. tx[k].call \in Calls /\ Hash(k) \in Hashes
    BY <1>2, TxShape DEF SendAuthorize, At, Steps
  <2>2. QED BY <1>2, <2>1 DEF SendAuthorize, Guard!Next
<1>3. ASSUME NEW k \in Brokers, SendConsume(k)
      PROVE  Guard!Next
  <2>1. tx[k].call \in Calls /\ Hash(k) \in Hashes /\ tx[k].auth \in AuthIds
    BY <1>3, TxShape DEF SendConsume, At, Steps, RowsOK, Drawn
  <2>2. QED BY <1>3, <2>1 DEF SendConsume, Guard!Next
<1>4. ASSUME NEW k \in Brokers, NEW d \in DecisionIds,
             (\E a \in AuthIds : AnswerAllow(k, d, a)) \/ AnswerEscalate(k, d) \/ AnswerBlock(k, d)
      PROVE  Guard!Next
  BY <1>4 DEF AnswerAllow, AnswerEscalate, AnswerBlock, Guard!Next
<1>5. ASSUME NEW k \in Brokers,
             (\E a \in AuthIds : AnswerAuthorize(k, a)) \/ AnswerConsume(k) \/ AnswerError(k)
      PROVE  Guard!Next
  BY <1>5 DEF AnswerAuthorize, AnswerConsume, AnswerError, Guard!Next
<1>6. ASSUME NEW j \in Consoles, Approve(j)
      PROVE  Guard!Next
  BY <1>6 DEF Approve, Guard!Next
<1>7. CASE Tick
  BY <1>7 DEF Tick, Guard!Next
<1>8. ASSUME NEW k \in Brokers,
             \/ \E c \in Calls, h \in Hashes : ExecuteStart(k, c, h)
             \/ \E c \in Calls : ResumeStart(k, c)
             \/ \E happened, ok \in BOOLEAN : CallTool(k, happened, ok)
             \/ Commit(k) \/ TxAbort(k)
      PROVE  FALSE
  BY <1>8 DEF ExecuteStart, ResumeStart, CallTool, Commit, TxAbort, guardianVars, Guard!guardianVars
<1>9. QED
  BY <1>1, <1>2, <1>3, <1>4, <1>5, <1>6, <1>7, <1>8 DEF Next

(* Every behaviour of the broker is, seen through the mapping of broker     *)
(* transactions to Guardian requests, one of the Guardian's: execute and    *)
(* resume reach its tables only through evaluate, authorize_approved and    *)
(* consume, and an approver only through act_on_approval.                   *)
THEOREM BrokerRefinesGuardian == Spec => Guard!Spec
<1>1. Init => Guard!Init
  BY DEF Init
<1>2. QED BY <1>1, RowsInit, RowsStep, GuardianStep, PTL DEF Spec, Guard!Spec

(* What the Guardian's theorems say of the tables here.                    *)
GuardianFacts ==
  /\ Guard!TypeOK /\ Guard!AuthGrounded /\ Guard!OneVerdict /\ Guard!ReadsStillHold
  /\ \A d \in DecisionIds : approval[d] # "NONE" => decision[d] # Guard!NoDecision

(* Guard and GP are two copies of one module: their steps are the same.    *)
LEMMA SameSteps == [Guard!Next]_(Guard!guardianVars) => [GP!Next]_(GP!guardianVars)
<1>1. ASSUME NEW t, NEW c, NEW h, NEW s, Guard!EvaluateRead(t, c, h, s)
      PROVE  GP!EvaluateRead(t, c, h, s)
  BY <1>1 DEF Guard!EvaluateRead, GP!EvaluateRead, Guard!ExistingDecision,
         GP!ExistingDecision, Guard!Latest, GP!Latest, Guard!Matching,
         GP!Matching, Guard!Idle, GP!Idle
<1>2. ASSUME NEW t, NEW c, NEW h, Guard!AuthorizeRead(t, c, h)
      PROVE  GP!AuthorizeRead(t, c, h)
  BY <1>2 DEF Guard!AuthorizeRead, GP!AuthorizeRead, Guard!Latest, GP!Latest,
         Guard!Matching, GP!Matching, Guard!Idle, GP!Idle
<1>3. ASSUME NEW t, NEW a, NEW c, NEW h, Guard!ConsumeRead(t, a, c, h)
      PROVE  GP!ConsumeRead(t, a, c, h)
  BY <1>3 DEF Guard!ConsumeRead, GP!ConsumeRead, Guard!AuthLocked, GP!AuthLocked,
         Guard!Idle, GP!Idle
<1>4. ASSUME NEW t, NEW d, NEW a, Guard!EvaluateAllow(t, d, a)
      PROVE  GP!EvaluateAllow(t, d, a)
  BY <1>4 DEF Guard!EvaluateAllow, GP!EvaluateAllow, Guard!NewDecision,
         GP!NewDecision, Guard!IssueAuthorization, GP!IssueAuthorization,
         Guard!Finish, GP!Finish, Guard!Idle, GP!Idle, Guard!NoDecision,
         GP!NoDecision, Guard!PolicyEvaluate, GP!PolicyEvaluate,
         Guard!AgentGranted, GP!AgentGranted, Guard!RolesHeld, GP!RolesHeld,
         Guard!PurposeAllowed, GP!PurposeAllowed, Guard!ConsentsHeld,
         GP!ConsentsHeld, Guard!KeyPresent, GP!KeyPresent, Guard!NeedsHuman,
         GP!NeedsHuman
<1>5. ASSUME NEW t, NEW d, Guard!EvaluateEscalate(t, d)
      PROVE  GP!EvaluateEscalate(t, d)
  BY <1>5 DEF Guard!EvaluateEscalate, GP!EvaluateEscalate, Guard!NewDecision,
         GP!NewDecision, Guard!Finish, GP!Finish, Guard!Idle, GP!Idle,
         Guard!NoDecision, GP!NoDecision, Guard!PolicyEvaluate,
         GP!PolicyEvaluate, Guard!AgentGranted, GP!AgentGranted,
         Guard!RolesHeld, GP!RolesHeld, Guard!PurposeAllowed,
         GP!PurposeAllowed, Guard!ConsentsHeld, GP!ConsentsHeld,
         Guard!KeyPresent, GP!KeyPresent, Guard!NeedsHuman, GP!NeedsHuman
<1>6. ASSUME NEW t, NEW d, Guard!EvaluateBlock(t, d)
      PROVE  GP!EvaluateBlock(t, d)
  BY <1>6 DEF Guard!EvaluateBlock, GP!EvaluateBlock, Guard!NewDecision,
         GP!NewDecision, Guard!Finish, GP!Finish, Guard!Idle, GP!Idle,
         Guard!NoDecision, GP!NoDecision, Guard!PolicyEvaluate,
         GP!PolicyEvaluate, Guard!AgentGranted, GP!AgentGranted,
         Guard!RolesHeld, GP!RolesHeld, Guard!PurposeAllowed,
         GP!PurposeAllowed, Guard!ConsentsHeld, GP!ConsentsHeld,
         Guard!KeyPresent, GP!KeyPresent, Guard!NeedsHuman, GP!NeedsHuman
<1>7. ASSUME NEW t, NEW d, NEW u, NEW v, Guard!ActRead(t, d, u, v)
      PROVE  GP!ActRead(t, d, u, v)
  BY <1>7 DEF Guard!ActRead, GP!ActRead, Guard!ApprovalLocked, GP!ApprovalLocked,
         Guard!Idle, GP!Idle
<1>8. ASSUME NEW t, NEW d, Guard!ActExpired(t, d)
      PROVE  GP!ActExpired(t, d)
  BY <1>8 DEF Guard!ActExpired, GP!ActExpired, Guard!ApprovalLocked,
         GP!ApprovalLocked, Guard!Idle, GP!Idle
<1>9. ASSUME NEW t, NEW a, Guard!ResolveIssue(t, a)
      PROVE  GP!ResolveIssue(t, a)
  BY <1>9 DEF Guard!ResolveIssue, GP!ResolveIssue, Guard!Grants, GP!Grants,
         Guard!IssueAuthorization, GP!IssueAuthorization, Guard!Finish,
         GP!Finish, Guard!Idle, GP!Idle
<1>10. ASSUME NEW t, NEW a, Guard!AuthorizeIssue(t, a)
       PROVE  GP!AuthorizeIssue(t, a)
  BY <1>10 DEF Guard!AuthorizeIssue, GP!AuthorizeIssue, Guard!IssueAuthorization,
         GP!IssueAuthorization, Guard!Finish, GP!Finish, Guard!Idle, GP!Idle
<1>11. ASSUME NEW t, Guard!ResolveRefuse(t)
       PROVE  GP!ResolveRefuse(t)
  BY <1>11 DEF Guard!ResolveRefuse, GP!ResolveRefuse, Guard!Grants, GP!Grants,
         Guard!Finish, GP!Finish, Guard!Idle, GP!Idle
<1>12. ASSUME NEW t, Guard!ActCommit(t)
       PROVE  GP!ActCommit(t)
  BY <1>12 DEF Guard!ActCommit, GP!ActCommit, Guard!StatusFor, GP!StatusFor,
         Guard!Finish, GP!Finish, Guard!Idle, GP!Idle
<1>13. ASSUME NEW t, Guard!ConsumeCommit(t)
       PROVE  GP!ConsumeCommit(t)
  BY <1>13 DEF Guard!ConsumeCommit, GP!ConsumeCommit, Guard!Finish, GP!Finish,
         Guard!Idle, GP!Idle
<1>14. ASSUME NEW t, Guard!Abort(t)
       PROVE  GP!Abort(t)
  BY <1>14 DEF Guard!Abort, GP!Abort, Guard!Finish, GP!Finish, Guard!Idle, GP!Idle
<1>15. Guard!Tick => GP!Tick
  BY DEF Guard!Tick, GP!Tick
<1>16. Guard!Next => GP!Next
  BY <1>1, <1>2, <1>3, <1>4, <1>5, <1>6, <1>7, <1>8, <1>9, <1>10, <1>11, <1>12, <1>13,
     <1>14, <1>15 DEF Guard!Next, GP!Next, Guard!Verbs, GP!Verbs
<1>17. QED BY <1>16 DEF Guard!guardianVars, GP!guardianVars

LEMMA GuardianKnown == Spec => []GuardianFacts
<1>1. Guard!Init => GP!Init
  BY DEF Guard!Init, GP!Init, Guard!NoDecision, GP!NoDecision, Guard!NoAuth,
         GP!NoAuth, Guard!Idle, GP!Idle
<1>2. GP!TypeOK => Guard!TypeOK
  BY DEF Guard!TypeOK, GP!TypeOK, Guard!Time, GP!Time, Guard!DecisionRow,
         GP!DecisionRow, Guard!NoDecision, GP!NoDecision, Guard!ApprovalStatus,
         GP!ApprovalStatus, Guard!ActionRow, GP!ActionRow, Guard!AuthRow,
         GP!AuthRow, Guard!NoAuth, GP!NoAuth, Guard!AuthStatuses,
         GP!AuthStatuses, Guard!Idle, GP!Idle, Guard!EvaluateTask,
         GP!EvaluateTask, Guard!AuthorizeTask, GP!AuthorizeTask, Guard!ActTask,
         GP!ActTask, Guard!ExpireTask, GP!ExpireTask, Guard!ConsumeTask,
         GP!ConsumeTask, Guard!Outcomes, GP!Outcomes, Guard!Verbs, GP!Verbs
<1>3. GP!AuthGrounded => Guard!AuthGrounded
  BY DEF Guard!AuthGrounded, GP!AuthGrounded, Guard!NoDecision, GP!NoDecision,
         Guard!NeedsHuman, GP!NeedsHuman
<1>4. GP!OneVerdict => Guard!OneVerdict
  BY DEF Guard!OneVerdict, GP!OneVerdict, Guard!StatusFor, GP!StatusFor,
         Guard!Verbs, GP!Verbs, Guard!Verdicts, GP!Verdicts
<1>5. GP!ReadsStillHold => Guard!ReadsStillHold
  BY DEF Guard!ReadsStillHold, GP!ReadsStillHold
<1>6. GP!IInv => GuardianFacts
  BY <1>2, <1>3, <1>4, <1>5 DEF GP!IInv, GP!Provenance, GuardianFacts, Guard!NoDecision, GP!NoDecision
<1>7. GP!Spec => []GP!IInv
  <2>1. Snaps \subseteq GP!Snapshot
    BY GuardianParameters DEF Snapshot, GP!Snapshot, RiskClasses, GP!RiskClasses,
                              ApprovalModes, GP!ApprovalModes
  <2>2. QED BY <2>1, GuardianParameters, GP!GuardianInvariant
<1>8. QED BY <1>1, SameSteps, <1>6, <1>7, BrokerRefinesGuardian, PTL DEF Guard!Spec, GP!Spec

-----------------------------------------------------------------------------
(* The inductive step, one lemma per action.                               *)

Known == RowsOK /\ GuardianFacts /\ BInv

LEMMA HonestForm == RowsOK /\ Honest => OutcomeHonest
<1> SUFFICES ASSUME RowsOK, Honest, NEW c \in Calls,
                    NEW done, done = (\E a \in AuthIds \cup {None} : effects[c][a] > 0)
             PROVE  /\ status[c] = "SUCCEEDED" /\ SnapOf[requestOf[c]].sideEffects => done
                    /\ status[c] = "BLOCKED" => ~done
                    /\ status[c] = "FAILED" => ~done
  BY DEF OutcomeHonest
<1>1. done <=> ~NoEffect(c)
  BY DEF RowsOK, NoEffect, Auths
<1>2. QED BY <1>1 DEF Honest

LEMMA GoShape ==
  ASSUME RowsOK, NEW k \in Brokers, NEW s \in Steps, Active(k), NEW a, NEW st, Go(k, s, a, st)
  PROVE  /\ \A l \in Brokers : l # k => tx'[l] = tx[l]
         /\ tx'[k].op = tx[k].op /\ tx'[k].call = tx[k].call /\ tx'[k].step = s
         /\ tx'[k].auth = a /\ tx'[k].status = st /\ tx'[k] # NoTx
  BY DEF RowsOK, Go, NoTx, Steps

LEMMA DropShape ==
  ASSUME RowsOK, NEW k \in Brokers, Drop(k)
  PROVE  /\ \A l \in Brokers : l # k => tx'[l] = tx[l]
         /\ tx'[k] = NoTx
  BY DEF RowsOK, Drop

LEMMA DecisionForm ==
  ASSUME GuardianFacts, NEW d \in DecisionIds
  PROVE  /\ decision[d] = Guard!NoDecision => decision[d].call = None
         /\ decision[d] # Guard!NoDecision =>
              decision[d] \in Guard!DecisionRow /\ decision[d].call \in Calls
  BY DEF GuardianFacts, Guard!TypeOK, Guard!NoDecision, Guard!DecisionRow

LEMMA TaskForm ==
  ASSUME GuardianFacts, NEW t \in Brokers \cup Consoles
  PROVE  /\ task[t].op = "evaluate" => task[t] \in Guard!EvaluateTask /\ task[t].call \in Calls
         /\ task[t].op = "authorize" => task[t].found \in DecisionIds
         /\ task[t].op = "consume" => task[t].auth \in AuthIds
         /\ task[t].op = "act" => task[t].act \in Guard!ActionRow
         /\ task[t] = Guard!Idle <=> task[t].op = "idle"
  BY DEF GuardianFacts, Guard!TypeOK, Guard!Idle, Guard!EvaluateTask, Guard!AuthorizeTask,
         Guard!ActTask, Guard!ExpireTask, Guard!ConsumeTask

(* A call id that was never drawn left no trace anywhere.                  *)
LEMMA FreshCall ==
  ASSUME Known, NEW c \in Calls, requestOf[c] = None
  PROVE  /\ NoEffect(c) /\ Undecided(c) /\ status[c] = "NONE"
         /\ \A l \in Brokers : Active(l) => tx[l].call # c
         /\ \A t \in Brokers \cup Consoles : task[t].op = "evaluate" => task[t].call # c
<1>1. NoEffect(c)
  BY DEF Known, RowsOK, BInv, Paid, NoEffect
<1>2. Undecided(c)
  BY DecisionForm, GuardianParameters DEF Known, BInv, EvaluatedOnce, Undecided
<1>3. QED
  BY <1>1, <1>2 DEF Known, RowsOK, Drawn, BInv, EvaluatedOnce

LEMMA ExecuteStartInv ==
  ASSUME Known, NEW k \in Brokers, NEW c \in Calls, NEW h \in Hashes, ExecuteStart(k, c, h)
  PROVE  BInv'
<1>1. /\ \A l \in Brokers : l # k => tx'[l] = tx[l]
      /\ tx'[k].op = "execute" /\ tx'[k].call = c /\ tx'[k] # NoTx
      /\ tx'[k].step = IF Protected(SnapOf[h]) THEN "evaluate" ELSE "call"
      /\ tx'[k].auth = None /\ tx'[k].status = "NONE"
  BY DEF Known, RowsOK, ExecuteStart, NoTx
<1>2. requestOf'[c] = h /\ h # None /\ \A e \in Calls : e # c => requestOf'[e] = requestOf[e]
  BY BrokerAssumption DEF Known, RowsOK, ExecuteStart
<1>3. requestOf[c] = None /\ UNCHANGED <<status, result, effects>> /\ UNCHANGED guardianVars
  BY DEF ExecuteStart
<1>4. \A l \in Brokers : Active(l) => tx[l].call \in Calls /\ tx[l].call # c
  BY <1>3, TxShape, FreshCall DEF Known
<1>5. /\ NoEffect(c) /\ Undecided(c) /\ status[c] = "NONE"
      /\ \A t \in Brokers \cup Consoles : task[t].op = "evaluate" => task[t].call \in Calls /\ task[t].call # c
  BY <1>3, FreshCall, TaskForm DEF Known
<1>6. \A d \in DecisionIds : decision[d] # Guard!NoDecision => decision[d].call \in Calls /\ decision[d].call # c
  BY <1>5, DecisionForm DEF Known, Undecided
<1>7. \A l \in Brokers : l # k /\ tx[l].step # "idle" => Active(l) /\ Hash(l)' = Hash(l) /\ Snap(l)' = Snap(l)
  BY <1>1, <1>2, <1>4, TxShape DEF Known, RowsOK, Hash, Snap, NoTx, Active
<1>10. Exclusive'
  BY <1>1, <1>3, <1>4, <1>5 DEF Known, BInv, Exclusive, Active
<1>11. EvaluatedOnce'
  BY <1>1, <1>2, <1>3, <1>4, <1>5, <1>6 DEF Known, BInv, EvaluatedOnce, guardianVars, At, Undecided
<1>12. Waiting'
  BY <1>1, <1>3, <1>7 DEF Known, BInv, Waiting, WaitingOf, guardianVars, At
<1>13. Paid'
  BY <1>2, <1>3, <1>5 DEF Known, BInv, Paid, guardianVars, NoEffect
<1>14. Progress'
  <2> SUFFICES ASSUME NEW l \in Brokers PROVE ProgressOf(l)'
    BY DEF Progress
  <2>1. CASE l = k
    BY <2>1, <1>1, <1>2, <1>3, <1>5 DEF ProgressOf, At, Active, Snap, Hash, NoEffect
  <2>2. CASE l # k
    BY <2>2, <1>1, <1>2, <1>3, <1>4, <1>7, TxShape DEF Known, BInv, Progress, ProgressOf, IssuedFor, NoEffect, Active, At, guardianVars
  <2>3. QED BY <2>1, <2>2
<1>15. Honest'
  BY <1>2, <1>3, <1>5 DEF Known, BInv, Honest, NoEffect
<1>20. QED BY <1>10, <1>11, <1>12, <1>13, <1>14, <1>15 DEF BInv

LEMMA ResumeStartInv ==
  ASSUME Known, NEW k \in Brokers, NEW c \in Calls, ResumeStart(k, c)
  PROVE  BInv'
<1>1. /\ \A l \in Brokers : l # k => tx'[l] = tx[l]
      /\ tx'[k].op = "resume" /\ tx'[k].call = c /\ tx'[k] # NoTx
      /\ tx'[k].step = "authorize" /\ tx'[k].auth = None /\ tx'[k].status = "NONE"
  BY DEF Known, RowsOK, ResumeStart, NoTx
<1>2. UNCHANGED <<requestOf, status, result, effects>> /\ UNCHANGED guardianVars
  BY DEF ResumeStart, UnchangedRows
<1>3. \A l \in Brokers : Active(l) => tx[l].call # c
  BY TxShape DEF Known, BInv, Exclusive, ResumeStart, CallLocked, Active
<1>10. Exclusive'
  BY <1>1, <1>2, <1>3 DEF Known, BInv, Exclusive, Active, ResumeStart
<1>11. EvaluatedOnce'
  BY <1>1, <1>2 DEF Known, BInv, EvaluatedOnce, guardianVars, At, Undecided
<1>12. Waiting'
  BY <1>1, <1>2 DEF Known, BInv, Waiting, WaitingOf, guardianVars, At, Hash
<1>13. Paid'
  BY <1>2 DEF Known, BInv, Paid, guardianVars
<1>14. Progress'
  BY <1>1, <1>2 DEF Known, BInv, Progress, ProgressOf, At, Active, Snap, Hash, NoEffect,
                    IssuedFor, guardianVars
<1>15. Honest'
  BY <1>2 DEF Known, BInv, Honest, NoEffect
<1>20. QED BY <1>10, <1>11, <1>12, <1>13, <1>14, <1>15 DEF BInv

LEMMA SendEvaluateInv ==
  ASSUME Known, NEW k \in Brokers, SendEvaluate(k)
  PROVE  BInv'
<1>0. Active(k) /\ tx[k].call \in Calls /\ requestOf[tx[k].call] # None
  BY TxShape DEF Known, RowsOK, Drawn, SendEvaluate, At, Steps
<1>1. /\ \A l \in Brokers : l # k => tx'[l] = tx[l]
      /\ tx'[k].op = tx[k].op /\ tx'[k].call = tx[k].call /\ tx'[k] # NoTx
      /\ tx'[k].step = "evaluating" /\ tx'[k].auth = None /\ tx'[k].status = "NONE"
  BY <1>0, GoShape DEF Known, SendEvaluate, Steps
<1>2. /\ UNCHANGED <<requestOf, status, result, effects>>
      /\ UNCHANGED <<decision, approval, acted, auth, authStatus>>
  BY DEF SendEvaluate, UnchangedRows, Guard!EvaluateRead
<1>3. Undecided(tx[k].call)
  BY DEF SendEvaluate, Known, BInv, EvaluatedOnce
<1>4. Guard!ExistingDecision(tx[k].call, Hash(k)) = {None}
  BY <1>3 DEF Guard!ExistingDecision, Guard!Matching, Undecided
<1>5. task' = [task EXCEPT ![k] = [op |-> "evaluate", call |-> tx[k].call, hash |-> Hash(k),
                                   snap |-> Snap(k), at |-> now, found |-> None]]
  BY <1>4 DEF SendEvaluate, Guard!EvaluateRead
<1>6. /\ \A t \in Brokers \cup Consoles : t # k => task'[t] = task[t]
      /\ task'[k].op = "evaluate" /\ task'[k].call = tx[k].call /\ task'[k].hash = Hash(k)
      /\ task'[k].found = None
  BY <1>5 DEF Known, GuardianFacts, Guard!TypeOK
<1>7. \A l \in Brokers : l # k /\ At(l, "evaluate") => tx[l].call # tx[k].call
  BY <1>0, TxShape DEF Known, BInv, Exclusive, At, Steps
<1>8. Protected(Snap(k)) /\ At(k, "evaluate")
  BY DEF SendEvaluate, Known, BInv, Progress, ProgressOf, At
<1>10. Exclusive'
  BY <1>1, <1>0, <1>2 DEF Known, BInv, Exclusive, Active
<1>11. EvaluatedOnce'
  <2>1. \A t \in Brokers \cup Consoles : t # k /\ task[t].op = "evaluate" => task[t].call # tx[k].call
    BY <1>8 DEF Known, BInv, EvaluatedOnce
  <2>2. \A l \in Brokers : At(l, "evaluate")' => l # k /\ At(l, "evaluate")
    BY <1>1 DEF At
  <2>3. QED
    BY <1>0, <1>1, <1>2, <1>3, <1>6, <1>7, <1>8, <2>1, <2>2
    DEF Known, BInv, EvaluatedOnce, Undecided, Snap, Hash
<1>12. Waiting'
  BY <1>1, <1>2, <1>6 DEF Known, BInv, Waiting, WaitingOf, At, Hash
<1>13. Paid'
  BY <1>2 DEF Known, BInv, Paid
<1>14. Progress'
  BY <1>0, <1>1, <1>2, <1>8 DEF Known, BInv, Progress, ProgressOf, At, Active, Snap, Hash,
                               NoEffect, IssuedFor
<1>15. Honest'
  BY <1>2 DEF Known, BInv, Honest, NoEffect
<1>20. QED BY <1>10, <1>11, <1>12, <1>13, <1>14, <1>15 DEF BInv

LEMMA SendAuthorizeInv ==
  ASSUME Known, NEW k \in Brokers, SendAuthorize(k)
  PROVE  BInv'
<1>0. Active(k) /\ tx[k].call \in Calls
  BY TxShape DEF Known, SendAuthorize, At, Steps
<1>1. /\ \A l \in Brokers : l # k => tx'[l] = tx[l]
      /\ tx'[k].op = tx[k].op /\ tx'[k].call = tx[k].call /\ tx'[k] # NoTx
      /\ tx'[k].step = "authorizing" /\ tx'[k].auth = None /\ tx'[k].status = "NONE"
  BY <1>0, GoShape DEF Known, SendAuthorize, Steps
<1>2. /\ UNCHANGED <<requestOf, status, result, effects>>
      /\ UNCHANGED <<decision, approval, acted, auth, authStatus>>
  BY DEF SendAuthorize, UnchangedRows, Guard!AuthorizeRead
<1>3. PICK d \in DecisionIds :
        /\ decision[d].call = tx[k].call /\ decision[d].hash = Hash(k)
        /\ task' = [task EXCEPT ![k] = [op |-> "authorize", at |-> now, found |-> d]]
  BY DEF SendAuthorize, Guard!AuthorizeRead, Guard!Latest, Guard!Matching
<1>4. /\ \A t \in Brokers \cup Consoles : t # k => task'[t] = task[t]
      /\ task'[k].op = "authorize" /\ task'[k].found = d
  BY <1>3 DEF Known, GuardianFacts, Guard!TypeOK
<1>10. Exclusive'
  BY <1>1, <1>0, <1>2 DEF Known, BInv, Exclusive, Active
<1>11. EvaluatedOnce'
  <2>1. \A l \in Brokers : At(l, "evaluate")' => At(l, "evaluate") /\ tx'[l] = tx[l]
    BY <1>1 DEF At
  <2>2. QED BY <1>2, <1>4, <2>1 DEF Known, BInv, EvaluatedOnce, Undecided
<1>12. Waiting'
  BY <1>1, <1>2, <1>3, <1>4 DEF Known, BInv, Waiting, WaitingOf, At, Hash
<1>13. Paid'
  BY <1>2 DEF Known, BInv, Paid
<1>14. Progress'
  BY <1>0, <1>1, <1>2 DEF Known, BInv, Progress, ProgressOf, At, Active, Snap, Hash,
                          NoEffect, IssuedFor, SendAuthorize
<1>15. Honest'
  BY <1>2 DEF Known, BInv, Honest, NoEffect
<1>20. QED BY <1>10, <1>11, <1>12, <1>13, <1>14, <1>15 DEF BInv

LEMMA SendConsumeInv ==
  ASSUME Known, NEW k \in Brokers, SendConsume(k)
  PROVE  BInv'
<1>0. Active(k) /\ tx[k].call \in Calls
  BY TxShape DEF Known, SendConsume, At, Steps
<1>1. /\ \A l \in Brokers : l # k => tx'[l] = tx[l]
      /\ tx'[k].op = tx[k].op /\ tx'[k].call = tx[k].call /\ tx'[k] # NoTx
      /\ tx'[k].step = "consuming" /\ tx'[k].auth = tx[k].auth /\ tx'[k].status = "NONE"
  BY <1>0, GoShape DEF Known, SendConsume, Steps
<1>2. /\ UNCHANGED <<requestOf, status, result, effects>>
      /\ UNCHANGED <<decision, approval, acted, auth, authStatus>>
  BY DEF SendConsume, UnchangedRows, Guard!ConsumeRead
<1>4. /\ \A t \in Brokers \cup Consoles : t # k => task'[t] = task[t]
      /\ task'[k].op = "consume" /\ task'[k].auth = tx[k].auth
  BY DEF Known, GuardianFacts, Guard!TypeOK, SendConsume, Guard!ConsumeRead
<1>10. Exclusive'
  BY <1>1, <1>0, <1>2 DEF Known, BInv, Exclusive, Active
<1>11. EvaluatedOnce'
  <2>1. \A l \in Brokers : At(l, "evaluate")' => At(l, "evaluate") /\ tx'[l] = tx[l]
    BY <1>1 DEF At
  <2>2. QED BY <1>2, <1>4, <2>1 DEF Known, BInv, EvaluatedOnce, Undecided
<1>12. Waiting'
  BY <1>1, <1>2, <1>4 DEF Known, BInv, Waiting, WaitingOf, At, Hash
<1>13. Paid'
  BY <1>2 DEF Known, BInv, Paid
<1>14. Progress'
  BY <1>0, <1>1, <1>2 DEF Known, BInv, Progress, ProgressOf, At, Active, Snap, Hash,
                          NoEffect, IssuedFor, SendConsume
<1>15. Honest'
  BY <1>2 DEF Known, BInv, Honest, NoEffect
<1>20. QED BY <1>10, <1>11, <1>12, <1>13, <1>14, <1>15 DEF BInv

(* What an answer does to the transactions: k moves on, or nobody hears it. *)
LEMMA AnswerShape ==
  ASSUME RowsOK, NEW k \in Brokers, NEW s \in Steps, NEW n \in Steps, NEW a, NEW st,
         Answer(k, s, n, a, st)
  PROVE  \/ UNCHANGED tx /\ ~At(k, s)
         \/ /\ At(k, s) /\ Active(k) /\ tx[k].call \in Calls
            /\ \A l \in Brokers : l # k => tx'[l] = tx[l]
            /\ tx'[k].op = tx[k].op /\ tx'[k].call = tx[k].call /\ tx'[k].step = n
            /\ tx'[k].auth = a /\ tx'[k].status = st /\ tx'[k] # NoTx
  BY GoShape, TxShape DEF Answer, At

(* The three new decisions have this in common.                            *)
LEMMA NewDecisionShape ==
  ASSUME Known, NEW k \in Brokers, NEW d \in DecisionIds, Guard!NewDecision(k, d)
  PROVE  /\ task[k].op = "evaluate" /\ task[k].call \in Calls /\ Undecided(task[k].call)
         /\ requestOf[task[k].call] # None /\ Protected(SnapOf[requestOf[task[k].call]])
         /\ decision[d] = Guard!NoDecision /\ approval[d] = "NONE"
         /\ decision'[d].call = task[k].call /\ decision'[d].hash = task[k].hash
         /\ decision'[d] # Guard!NoDecision
         /\ \A e \in DecisionIds : e # d => decision'[e] = decision[e]
         /\ \A t \in Brokers \cup Consoles : t # k => task'[t] = task[t]
         /\ task'[k] = Guard!Idle
<1>1. task[k].op = "evaluate" /\ task[k].call \in Calls /\ decision[d] = Guard!NoDecision
  BY TaskForm DEF Known, Guard!NewDecision
<1>2. /\ Undecided(task[k].call) /\ requestOf[task[k].call] # None
      /\ Protected(SnapOf[requestOf[task[k].call]]) /\ approval[d] = "NONE"
  BY <1>1 DEF Known, BInv, EvaluatedOnce, GuardianFacts
<1>3. /\ decision'[d].call = task[k].call /\ decision'[d].hash = task[k].hash
      /\ \A e \in DecisionIds : e # d => decision'[e] = decision[e]
  BY DEF Known, GuardianFacts, Guard!TypeOK, Guard!NewDecision
<1>4. decision'[d] # Guard!NoDecision
  BY <1>1, <1>3, GuardianParameters DEF Guard!NoDecision
<1>5. /\ \A t \in Brokers \cup Consoles : t # k => task'[t] = task[t]
      /\ task'[k] = Guard!Idle
  BY DEF Known, GuardianFacts, Guard!TypeOK, Guard!NewDecision, Guard!Finish
<1>6. QED BY <1>1, <1>2, <1>3, <1>4, <1>5

LEMMA NewDecisionOnce ==
  ASSUME Known, NEW k \in Brokers, NEW d \in DecisionIds, Guard!NewDecision(k, d),
         UNCHANGED requestOf,
         \A l \in Brokers : At(l, "evaluate")' => At(l, "evaluate") /\ tx'[l] = tx[l],
         \A e \in DecisionIds : e # d => approval'[e] = approval[e],
         approval'[d] # "NONE" => decision'[d].outcome = "ESCALATE"
  PROVE  EvaluatedOnce'
<1>1. /\ task[k].op = "evaluate" /\ task[k].call \in Calls /\ Undecided(task[k].call)
      /\ requestOf[task[k].call] # None /\ Protected(SnapOf[requestOf[task[k].call]])
      /\ decision[d] = Guard!NoDecision
      /\ decision'[d].call = task[k].call
      /\ decision'[d] # Guard!NoDecision
      /\ \A e \in DecisionIds : e # d => decision'[e] = decision[e]
      /\ \A t \in Brokers \cup Consoles : t # k => task'[t] = task[t]
      /\ task'[k] = Guard!Idle
  BY NewDecisionShape
<1>2. \A t \in Brokers \cup Consoles : task'[t].op = "evaluate" =>
        t # k /\ task'[t] = task[t] /\ task[t].call # task[k].call
  BY <1>1 DEF Known, BInv, EvaluatedOnce, Guard!Idle
<1>3. \A l \in Brokers : At(l, "evaluate") => tx[l].call # task[k].call
  BY <1>1 DEF Known, BInv, EvaluatedOnce
<1>4. QED BY <1>1, <1>2, <1>3 DEF Known, BInv, EvaluatedOnce, Undecided

LEMMA NewDecisionWaiting ==
  ASSUME Known, NEW k \in Brokers, NEW d \in DecisionIds, Guard!NewDecision(k, d),
         UNCHANGED requestOf,
         \A l \in Brokers : l # k => tx'[l] = tx[l]
  PROVE  Waiting'
<1>1. /\ decision[d] = Guard!NoDecision
      /\ \A e \in DecisionIds : e # d => decision'[e] = decision[e]
      /\ \A t \in Brokers \cup Consoles : t # k => task'[t] = task[t]
      /\ task'[k] = Guard!Idle
  BY NewDecisionShape
<1> SUFFICES ASSUME NEW l \in Brokers PROVE WaitingOf(l)'
  BY DEF Waiting
<1>2. CASE l = k
  BY <1>1, <1>2 DEF WaitingOf
<1>3. CASE l # k
  <2>1. task'[l] = task[l] /\ tx'[l] = tx[l] /\ Hash(l)' = Hash(l) /\ WaitingOf(l)
    BY <1>1, <1>3 DEF Known, BInv, Waiting, Hash
  <2>2. At(l, "authorizing") /\ task[l].op = "authorize" => task[l].found \in DecisionIds \ {d}
    BY <1>1, <2>1, TaskForm, TxShape, GuardianParameters
    DEF Known, WaitingOf, At, Steps, Guard!NoDecision, Guard!Idle
  <2>3. QED BY <1>1, <2>1, <2>2 DEF WaitingOf, At
<1>4. QED BY <1>2, <1>3

LEMMA AnswerAllowInv ==
  ASSUME Known, NEW k \in Brokers, NEW d \in DecisionIds, NEW a \in AuthIds, AnswerAllow(k, d, a)
  PROVE  BInv'
<1>1. \/ UNCHANGED tx
      \/ /\ At(k, "evaluating") /\ Active(k) /\ tx[k].call \in Calls
         /\ \A l \in Brokers : l # k => tx'[l] = tx[l]
         /\ tx'[k].op = tx[k].op /\ tx'[k].call = tx[k].call /\ tx'[k].step = "consume"
         /\ tx'[k].auth = a /\ tx'[k].status = "NONE" /\ tx'[k] # NoTx
  BY AnswerShape DEF Known, AnswerAllow, Steps
<1>2. Guard!NewDecision(k, d) /\ UNCHANGED <<requestOf, status, result, effects, approval>>
  BY DEF AnswerAllow, Guard!EvaluateAllow, UnchangedRows
<1>3. /\ task[k].op = "evaluate"
      /\ decision'[d].call = task[k].call /\ decision'[d].hash = task[k].hash
      /\ approval[d] = "NONE"
  BY <1>2, NewDecisionShape
<1>4. /\ authStatus[a] = "NONE"
      /\ authStatus'[a] # "NONE" /\ auth'[a].call = task[k].call /\ auth'[a].hash = task[k].hash
      /\ \A b \in AuthIds : b # a => auth'[b] = auth[b] /\ authStatus'[b] = authStatus[b]
  BY <1>3 DEF Known, GuardianFacts, Guard!TypeOK, AnswerAllow, Guard!EvaluateAllow, Guard!IssueAuthorization
<1>10. Exclusive'
  BY <1>1, <1>2 DEF Known, BInv, Exclusive, Active
<1>11. EvaluatedOnce'
  <2>1. \A l \in Brokers : At(l, "evaluate")' => At(l, "evaluate") /\ tx'[l] = tx[l]
    BY <1>1 DEF At
  <2>2. QED BY <1>2, <1>3, <2>1, NewDecisionOnce
<1>12. Waiting'
  <2>1. \A l \in Brokers : l # k => tx'[l] = tx[l]
    BY <1>1
  <2>2. QED BY <1>2, <2>1, NewDecisionWaiting
<1>13. Paid'
  BY <1>2, <1>4 DEF Known, BInv, Paid, Auths
<1>14. Progress'
  <2> SUFFICES ASSUME NEW l \in Brokers PROVE ProgressOf(l)'
    BY DEF Progress
  <2>1. \A b, c : IssuedFor(b, c) => IssuedFor(b, c)' /\ (authStatus[b] = "CONSUMED" => authStatus'[b] = "CONSUMED")
    BY <1>2, <1>4 DEF IssuedFor
  <2>2. \A c : NoEffect(c) => NoEffect(c)'
    BY <1>2 DEF NoEffect
  <2>3. CASE tx'[l] = tx[l]
    BY <1>2, <2>1, <2>3 DEF Known, BInv, Progress, ProgressOf, At, Active, Snap, Hash, NoEffect
  <2>4. CASE tx'[l] # tx[l]
    <3>1. l = k /\ tx'[k].step = "consume" /\ At(k, "evaluating") BY <1>1, <2>4
    <3>2. task[k].call = tx[k].call /\ task[k].hash = Hash(k)
      BY <1>3, <3>1 DEF Known, BInv, Waiting, WaitingOf, Guard!Idle
    <3>3. IssuedFor(tx[k].auth, tx[k].call)'
      BY <1>1, <1>2, <1>4, <2>4, <3>1, <3>2 DEF IssuedFor, Hash
    <3>4. NoEffect(tx'[k].call)
      BY <1>1, <2>4, <3>1 DEF Known, BInv, Progress, ProgressOf, At
    <3>5. QED BY <3>1, <3>3, <3>4, <2>2 DEF ProgressOf, At
  <2>5. QED BY <2>3, <2>4
<1>15. Honest'
  BY <1>2 DEF Known, BInv, Honest, NoEffect
<1>20. QED BY <1>10, <1>11, <1>12, <1>13, <1>14, <1>15 DEF BInv

LEMMA AnswerEscalateInv ==
  ASSUME Known, NEW k \in Brokers, NEW d \in DecisionIds, AnswerEscalate(k, d)
  PROVE  BInv'
<1>1. \/ UNCHANGED tx
      \/ /\ At(k, "evaluating") /\ Active(k) /\ tx[k].call \in Calls
         /\ \A l \in Brokers : l # k => tx'[l] = tx[l]
         /\ tx'[k].op = tx[k].op /\ tx'[k].call = tx[k].call /\ tx'[k].step = "commit"
         /\ tx'[k].auth = None /\ tx'[k].status = "WAITING_APPROVAL" /\ tx'[k] # NoTx
  BY AnswerShape DEF Known, AnswerEscalate, Steps
<1>2. Guard!NewDecision(k, d) /\ UNCHANGED <<requestOf, status, result, effects, auth, authStatus>>
  BY DEF AnswerEscalate, Guard!EvaluateEscalate, UnchangedRows
<1>3. /\ \A e \in DecisionIds : e # d => approval'[e] = approval[e]
      /\ decision'[d].outcome = "ESCALATE"
  BY <1>2, NewDecisionShape DEF AnswerEscalate, Guard!EvaluateEscalate, Known, GuardianFacts, Guard!TypeOK
<1>10. Exclusive'
  BY <1>1, <1>2 DEF Known, BInv, Exclusive, Active
<1>11. EvaluatedOnce'
  <2>1. \A l \in Brokers : At(l, "evaluate")' => At(l, "evaluate") /\ tx'[l] = tx[l]
    BY <1>1 DEF At
  <2>2. QED BY <1>2, <1>3, <2>1, NewDecisionOnce
<1>12. Waiting'
  <2>1. \A l \in Brokers : l # k => tx'[l] = tx[l]
    BY <1>1
  <2>2. QED BY <1>2, <2>1, NewDecisionWaiting
<1>13. Paid'
  BY <1>2 DEF Known, BInv, Paid
<1>14. Progress'
  BY <1>1, <1>2 DEF Known, BInv, Progress, ProgressOf, At, Active, Snap, Hash, NoEffect, IssuedFor
<1>15. Honest'
  BY <1>2 DEF Known, BInv, Honest, NoEffect
<1>20. QED BY <1>10, <1>11, <1>12, <1>13, <1>14, <1>15 DEF BInv

LEMMA AnswerBlockInv ==
  ASSUME Known, NEW k \in Brokers, NEW d \in DecisionIds, AnswerBlock(k, d)
  PROVE  BInv'
<1>1. \/ UNCHANGED tx
      \/ /\ At(k, "evaluating") /\ Active(k) /\ tx[k].call \in Calls
         /\ \A l \in Brokers : l # k => tx'[l] = tx[l]
         /\ tx'[k].op = tx[k].op /\ tx'[k].call = tx[k].call /\ tx'[k].step = "commit"
         /\ tx'[k].auth = None /\ tx'[k].status = "BLOCKED" /\ tx'[k] # NoTx
  BY AnswerShape DEF Known, AnswerBlock, Steps
<1>2. Guard!NewDecision(k, d) /\ UNCHANGED <<requestOf, status, result, effects, auth, authStatus>>
  BY DEF AnswerBlock, Guard!EvaluateBlock, UnchangedRows
<1>3. approval' = approval /\ approval[d] = "NONE"
  BY <1>2, NewDecisionShape DEF AnswerBlock, Guard!EvaluateBlock, Known, GuardianFacts, Guard!TypeOK
<1>10. Exclusive'
  BY <1>1, <1>2 DEF Known, BInv, Exclusive, Active
<1>11. EvaluatedOnce'
  <2>1. \A l \in Brokers : At(l, "evaluate")' => At(l, "evaluate") /\ tx'[l] = tx[l]
    BY <1>1 DEF At
  <2>2. QED BY <1>2, <1>3, <2>1, NewDecisionOnce
<1>12. Waiting'
  <2>1. \A l \in Brokers : l # k => tx'[l] = tx[l]
    BY <1>1
  <2>2. QED BY <1>2, <2>1, NewDecisionWaiting
<1>13. Paid'
  BY <1>2 DEF Known, BInv, Paid
<1>14. Progress'
  BY <1>1, <1>2 DEF Known, BInv, Progress, ProgressOf, At, Active, Snap, Hash, NoEffect, IssuedFor
<1>15. Honest'
  BY <1>2 DEF Known, BInv, Honest, NoEffect
<1>20. QED BY <1>10, <1>11, <1>12, <1>13, <1>14, <1>15 DEF BInv

LEMMA AnswerErrorInv ==
  ASSUME Known, NEW k \in Brokers, AnswerError(k)
  PROVE  BInv'
<1>1. \/ UNCHANGED tx
      \/ /\ \A l \in Brokers : l # k => tx'[l] = tx[l]
         /\ tx'[k] = NoTx
      \/ /\ At(k, "evaluating") /\ Active(k) /\ tx[k].call \in Calls
         /\ \A l \in Brokers : l # k => tx'[l] = tx[l]
         /\ tx'[k].op = tx[k].op /\ tx'[k].call = tx[k].call /\ tx'[k].step = "commit"
         /\ tx'[k].auth = None /\ tx'[k].status = "BLOCKED" /\ tx'[k] # NoTx
  BY GoShape, DropShape, TxShape DEF Known, AnswerError, Steps, At
<1>2. /\ UNCHANGED <<requestOf, status, result, effects, decision, approval, auth, authStatus>>
      /\ \A t \in Brokers \cup Consoles : t # k => task'[t] = task[t]
      /\ task'[k] = Guard!Idle
  BY DEF AnswerError, UnchangedRows, Guard!Abort, Guard!Finish, Known, GuardianFacts, Guard!TypeOK
<1>10. Exclusive'
  BY <1>1, <1>2 DEF Known, BInv, Exclusive, Active
<1>11. EvaluatedOnce'
  <2>1. \A l \in Brokers : At(l, "evaluate")' => At(l, "evaluate") /\ tx'[l] = tx[l]
    BY <1>1 DEF At, NoTx
  <2>2. QED BY <1>2, <2>1 DEF Known, BInv, EvaluatedOnce, Undecided, Guard!Idle
<1>12. Waiting'
  BY <1>1, <1>2 DEF Known, BInv, Waiting, WaitingOf, At, Hash
<1>13. Paid'
  BY <1>2 DEF Known, BInv, Paid
<1>14. Progress'
  BY <1>1, <1>2 DEF Known, BInv, Progress, ProgressOf, At, Active, Snap, Hash, NoEffect, IssuedFor, NoTx
<1>15. Honest'
  BY <1>2 DEF Known, BInv, Honest, NoEffect
<1>20. QED BY <1>10, <1>11, <1>12, <1>13, <1>14, <1>15 DEF BInv

LEMMA AnswerAuthorizeInv ==
  ASSUME Known, NEW k \in Brokers, NEW a \in AuthIds, AnswerAuthorize(k, a)
  PROVE  BInv'
<1>1. \/ UNCHANGED tx
      \/ /\ At(k, "authorizing") /\ Active(k) /\ tx[k].call \in Calls
         /\ \A l \in Brokers : l # k => tx'[l] = tx[l]
         /\ tx'[k].op = tx[k].op /\ tx'[k].call = tx[k].call /\ tx'[k].step = "consume"
         /\ tx'[k].auth = a /\ tx'[k].status = "NONE" /\ tx'[k] # NoTx
  BY AnswerShape DEF Known, AnswerAuthorize, Steps
<1>2. /\ UNCHANGED <<requestOf, status, result, effects, decision, approval>>
      /\ \A t \in Brokers \cup Consoles : t # k => task'[t] = task[t]
      /\ task'[k] = Guard!Idle
  BY DEF AnswerAuthorize, UnchangedRows, Guard!AuthorizeIssue, Guard!Finish, Known, GuardianFacts, Guard!TypeOK
<1>3. task[k].op = "authorize"
  BY DEF AnswerAuthorize, Guard!AuthorizeIssue
<1>4. /\ authStatus[a] = "NONE" /\ authStatus'[a] # "NONE"
      /\ auth'[a].call = decision[task[k].found].call /\ auth'[a].hash = decision[task[k].found].hash
      /\ \A b \in AuthIds : b # a => auth'[b] = auth[b] /\ authStatus'[b] = authStatus[b]
  BY DEF Known, GuardianFacts, Guard!TypeOK, AnswerAuthorize, Guard!AuthorizeIssue, Guard!IssueAuthorization
<1>10. Exclusive'
  BY <1>1, <1>2 DEF Known, BInv, Exclusive, Active
<1>11. EvaluatedOnce'
  <2>1. \A l \in Brokers : At(l, "evaluate")' => At(l, "evaluate") /\ tx'[l] = tx[l]
    BY <1>1 DEF At
  <2>2. QED BY <1>2, <2>1 DEF Known, BInv, EvaluatedOnce, Undecided, Guard!Idle
<1>12. Waiting'
  BY <1>1, <1>2 DEF Known, BInv, Waiting, WaitingOf, At, Hash
<1>13. Paid'
  BY <1>2, <1>4 DEF Known, BInv, Paid, Auths
<1>14. Progress'
  <2> SUFFICES ASSUME NEW l \in Brokers PROVE ProgressOf(l)'
    BY DEF Progress
  <2>1. \A b, c : IssuedFor(b, c) => IssuedFor(b, c)' /\ (authStatus[b] = "CONSUMED" => authStatus'[b] = "CONSUMED")
    BY <1>2, <1>4 DEF IssuedFor
  <2>2. CASE tx'[l] = tx[l]
    BY <1>2, <2>1, <2>2 DEF Known, BInv, Progress, ProgressOf, At, Active, Snap, Hash, NoEffect
  <2>3. CASE tx'[l] # tx[l]
    <3>1. l = k /\ tx'[k].step = "consume" /\ At(k, "authorizing") BY <1>1, <2>3
    <3>2. /\ decision[task[k].found].call = tx[k].call /\ decision[task[k].found].hash = Hash(k)
          /\ tx[k].op = "resume"
      BY <1>3, <3>1 DEF Known, BInv, Waiting, WaitingOf, Guard!Idle, Progress, ProgressOf, At
    <3>3. IssuedFor(tx[k].auth, tx[k].call)'
      BY <1>1, <1>2, <1>4, <2>3, <3>1, <3>2 DEF IssuedFor, Hash
    <3>4. tx'[k].op = "resume"
      BY <1>1, <2>3, <3>1, <3>2
    <3>5. QED BY <3>1, <3>3, <3>4 DEF ProgressOf, At
  <2>4. QED BY <2>2, <2>3
<1>15. Honest'
  BY <1>2 DEF Known, BInv, Honest, NoEffect
<1>20. QED BY <1>10, <1>11, <1>12, <1>13, <1>14, <1>15 DEF BInv

LEMMA AnswerConsumeInv ==
  ASSUME Known, NEW k \in Brokers, AnswerConsume(k)
  PROVE  BInv'
<1>1. \/ UNCHANGED tx
      \/ /\ At(k, "consuming") /\ Active(k) /\ tx[k].call \in Calls
         /\ \A l \in Brokers : l # k => tx'[l] = tx[l]
         /\ tx'[k].op = tx[k].op /\ tx'[k].call = tx[k].call /\ tx'[k].step = "call"
         /\ tx'[k].auth = tx[k].auth /\ tx'[k].status = "NONE" /\ tx'[k] # NoTx
  BY AnswerShape DEF Known, AnswerConsume, Steps
<1>2. /\ UNCHANGED <<requestOf, status, result, effects, decision, approval, auth>>
      /\ \A t \in Brokers \cup Consoles : t # k => task'[t] = task[t]
      /\ task'[k] = Guard!Idle
  BY DEF AnswerConsume, UnchangedRows, Guard!ConsumeCommit, Guard!Finish, Known, GuardianFacts, Guard!TypeOK
<1>3. /\ task[k].op = "consume" /\ task[k].auth \in AuthIds /\ authStatus[task[k].auth] = "ACTIVE"
  BY TaskForm DEF AnswerConsume, Guard!ConsumeCommit, Known, GuardianFacts, Guard!ReadsStillHold
<1>4. /\ authStatus'[task[k].auth] = "CONSUMED"
      /\ \A b \in AuthIds : b # task[k].auth => authStatus'[b] = authStatus[b]
  BY <1>3 DEF Known, GuardianFacts, Guard!TypeOK, AnswerConsume, Guard!ConsumeCommit
<1>10. Exclusive'
  BY <1>1, <1>2 DEF Known, BInv, Exclusive, Active
<1>11. EvaluatedOnce'
  <2>1. \A l \in Brokers : At(l, "evaluate")' => At(l, "evaluate") /\ tx'[l] = tx[l]
    BY <1>1 DEF At
  <2>2. QED BY <1>2, <2>1 DEF Known, BInv, EvaluatedOnce, Undecided, Guard!Idle
<1>12. Waiting'
  BY <1>1, <1>2 DEF Known, BInv, Waiting, WaitingOf, At, Hash
<1>13. Paid'
  BY <1>2, <1>4 DEF Known, BInv, Paid, Auths
<1>14. Progress'
  <2> SUFFICES ASSUME NEW l \in Brokers PROVE ProgressOf(l)'
    BY DEF Progress
  <2>1. \A b, c : IssuedFor(b, c) => IssuedFor(b, c)' /\ (authStatus[b] = "CONSUMED" => authStatus'[b] = "CONSUMED")
    BY <1>2, <1>4 DEF IssuedFor
  <2>2. CASE tx'[l] = tx[l]
    BY <1>2, <2>1, <2>2 DEF Known, BInv, Progress, ProgressOf, At, Active, Snap, Hash, NoEffect
  <2>3. CASE tx'[l] # tx[l]
    <3>1. l = k /\ tx'[k].step = "call" /\ At(k, "consuming") BY <1>1, <2>3
    <3>2. task[k].auth = tx[k].auth /\ IssuedFor(tx[k].auth, tx[k].call)
      BY <1>3, <3>1 DEF Known, BInv, Waiting, WaitingOf, Guard!Idle, Progress, ProgressOf, At
    <3>3. /\ tx'[k].auth = tx[k].auth /\ tx'[k].call = tx[k].call /\ tx[k].call \in Calls
          /\ tx'[k].op = tx[k].op /\ Active(k)
      BY <1>1, <2>3, <3>1
    <3>4. effects[tx[k].call][tx[k].auth] = 0
      BY <1>3, <3>2, <3>3, GuardianParameters DEF Known, BInv, Paid, RowsOK, Auths
    <3>5. tx[k].op = "execute" => NoEffect(tx[k].call)
      BY <3>1, <3>3 DEF Known, BInv, Progress, ProgressOf, At
    <3>6. /\ IssuedFor(tx[k].auth, tx[k].call)' /\ authStatus'[tx'[k].auth] = "CONSUMED"
          /\ effects'[tx'[k].call][tx'[k].auth] = 0
      BY <1>2, <1>4, <3>2, <3>3, <3>4 DEF IssuedFor
    <3>7. tx'[k].op = "execute" => NoEffect(tx[k].call)'
      BY <1>2, <3>3, <3>5 DEF NoEffect
    <3>8. QED BY <3>1, <3>6, <3>7 DEF ProgressOf, At
  <2>4. QED BY <2>2, <2>3
<1>15. Honest'
  BY <1>2 DEF Known, BInv, Honest, NoEffect
<1>20. QED BY <1>10, <1>11, <1>12, <1>13, <1>14, <1>15 DEF BInv

LEMMA CallToolInv ==
  ASSUME Known, NEW k \in Brokers, NEW happened \in BOOLEAN, NEW ok \in BOOLEAN,
         CallTool(k, happened, ok)
  PROVE  BInv'
<1> DEFINE c == tx[k].call
           a == tx[k].auth
           fires == happened /\ Snap(k).sideEffects
<1>0. At(k, "call") /\ Active(k) /\ c \in Calls /\ a \in Auths /\ requestOf[c] # None
  BY TxShape DEF Known, RowsOK, Drawn, CallTool, At, Steps
<1>1. /\ \A l \in Brokers : l # k => tx'[l] = tx[l]
      /\ tx'[k].op = tx[k].op /\ tx'[k].call = c /\ tx'[k].step = "commit"
      /\ tx'[k].auth = a /\ tx'[k].status = Outcome(Snap(k), ok) /\ tx'[k] # NoTx
  BY <1>0, GoShape DEF Known, CallTool, Steps
<1>2. UNCHANGED <<requestOf, status, result>> /\ UNCHANGED guardianVars
  BY DEF CallTool
<1>3. /\ ~fires => effects' = effects
      /\ fires => effects' = [effects EXCEPT ![c][a] = @ + 1]
  BY DEF CallTool
<1>4. /\ \A e \in Calls, b \in Auths : e # c \/ b # a => effects'[e][b] = effects[e][b]
      /\ fires => effects'[c][a] = effects[c][a] + 1
      /\ ~fires => effects' = effects
  BY <1>0, <1>3 DEF Known, RowsOK
<1>5. \A l \in Brokers : l # k /\ Active(l) => tx[l].call \in Calls /\ tx[l].call # c
  BY <1>0, TxShape DEF Known, BInv, Exclusive
<1>6. \/ a = None /\ tx[k].op = "execute" /\ ~Protected(Snap(k))
      \/ IssuedFor(a, c) /\ authStatus[a] = "CONSUMED" /\ effects[c][a] = 0
  BY <1>0 DEF Known, BInv, Progress, ProgressOf
<1>7. effects[c][a] \in Nat /\ ok \in BOOLEAN /\ (ok => happened)
  BY <1>0 DEF Known, RowsOK, CallTool
<1> HIDE DEF c, a, fires
<1>8. Snap(k) = SnapOf[requestOf[c]]
  BY DEF Snap, Hash, c
<1>10. Exclusive'
  BY <1>0, <1>1, <1>2 DEF Known, BInv, Exclusive, Active, c
<1>11. EvaluatedOnce'
  <2>1. \A l \in Brokers : At(l, "evaluate")' => At(l, "evaluate") /\ tx'[l] = tx[l]
    BY <1>1 DEF At
  <2>2. QED BY <1>2, <2>1 DEF Known, BInv, EvaluatedOnce, Undecided, guardianVars
<1>12. Waiting'
  BY <1>1, <1>2 DEF Known, BInv, Waiting, WaitingOf, At, Hash, guardianVars
<1>13. Paid'
  <2> SUFFICES ASSUME NEW e \in Calls, NEW b \in Auths, effects'[e][b] > 0
               PROVE  /\ requestOf[e] # None
                      /\ SnapOf[requestOf[e]].sideEffects
                      /\ b = None => ~Protected(SnapOf[requestOf[e]])
                      /\ b # None => /\ effects'[e][b] = 1
                                     /\ authStatus[b] = "CONSUMED"
                                     /\ auth[b].call = e /\ auth[b].hash = requestOf[e]
    BY <1>2 DEF Paid, guardianVars
  <2>1. CASE effects'[e][b] = effects[e][b]
    BY <2>1 DEF Known, BInv, Paid
  <2>2. CASE effects'[e][b] # effects[e][b]
    <3>1. e = c /\ b = a /\ fires /\ effects'[c][a] = effects[c][a] + 1
      BY <1>4, <2>2
    <3>2. QED BY <3>1, <1>0, <1>6, <1>7, <1>8, GuardianParameters DEF IssuedFor, fires
  <2>3. QED BY <2>1, <2>2
<1>14. Progress'
  <2> SUFFICES ASSUME NEW l \in Brokers PROVE ProgressOf(l)'
    BY DEF Progress
  <2>1. CASE l = k
    <3>1. /\ Outcome(Snap(k), ok) \in {"SUCCEEDED", "UNKNOWN", "FAILED"}
          /\ Outcome(Snap(k), ok) = "SUCCEEDED" => ok
          /\ Outcome(Snap(k), ok) = "FAILED" => ~Snap(k).sideEffects
      BY DEF Outcome
    <3>2. ok /\ Snap(k).sideEffects => ~NoEffect(tx[k].call)'
      BY <1>0, <1>1, <1>4, <1>7 DEF NoEffect, fires
    <3>3. Snap(k)' = Snap(k)
      BY <1>1, <1>2 DEF Snap, Hash, c
    <3>4. QED BY <2>1, <1>1, <3>1, <3>2, <3>3 DEF ProgressOf, At
  <2>2. CASE l # k
    <3>1. Active(l) => \A b \in Auths : effects'[tx[l].call][b] = effects[tx[l].call][b]
      BY <2>2, <1>4, <1>5
    <3>2. tx'[l] = tx[l] /\ (Active(l) => NoEffect(tx[l].call)' <=> NoEffect(tx[l].call))
      BY <2>2, <1>1, <3>1 DEF NoEffect
    <3>3. ProgressOf(l) /\ (tx[l].step \in Steps => Active(l)) /\ Snap(l)' = Snap(l)
      BY <3>2, <1>2, TxShape DEF Known, BInv, Progress, Snap, Hash
    <3>4. (Active(l) => tx[l].auth \in Auths) /\ \A b, e : IssuedFor(b, e)' <=> IssuedFor(b, e)
      BY <1>2, TxShape DEF Known, IssuedFor, guardianVars
    <3>5. QED BY <1>2, <3>1, <3>2, <3>3, <3>4 DEF ProgressOf, At, Active, Steps, guardianVars
  <2>3. QED BY <2>1, <2>2
<1>15. Honest'
  <2>1. status[c] \in {"NONE", "WAITING_APPROVAL"}
    BY <1>0 DEF Known, BInv, Exclusive, c
  <2>2. \A e \in Calls : e # c => (NoEffect(e)' <=> NoEffect(e))
    BY <1>4 DEF NoEffect
  <2>3. QED BY <1>2, <2>1, <2>2 DEF Known, BInv, Honest
<1>20. QED BY <1>10, <1>11, <1>12, <1>13, <1>14, <1>15 DEF BInv

LEMMA CommitInv ==
  ASSUME Known, NEW k \in Brokers, Commit(k)
  PROVE  BInv'
<1>0. At(k, "commit") /\ Active(k) /\ tx[k].call \in Calls /\ requestOf[tx[k].call] # None
  BY TxShape DEF Known, RowsOK, Drawn, Commit, At, Steps
<1>1. (\A l \in Brokers : l # k => tx'[l] = tx[l]) /\ tx'[k] = NoTx
  BY DropShape DEF Known, Commit
<1>2. UNCHANGED <<requestOf, effects>> /\ UNCHANGED guardianVars
  BY DEF Commit
<1>3. status'[tx[k].call] = tx[k].status /\ \A e \in Calls : e # tx[k].call => status'[e] = status[e]
  BY <1>0 DEF Known, RowsOK, Commit
<1>4. \A l \in Brokers : l # k /\ Active(l) => tx[l].call \in Calls /\ tx[l].call # tx[k].call
  BY <1>0, TxShape DEF Known, BInv, Exclusive
<1>10. Exclusive'
  BY <1>1, <1>3, <1>4 DEF Known, BInv, Exclusive, Active
<1>11. EvaluatedOnce'
  <2>1. \A l \in Brokers : At(l, "evaluate")' => At(l, "evaluate") /\ tx'[l] = tx[l]
    BY <1>1 DEF At, NoTx
  <2>2. QED BY <1>2, <2>1 DEF Known, BInv, EvaluatedOnce, Undecided, guardianVars
<1>12. Waiting'
  BY <1>1, <1>2 DEF Known, BInv, Waiting, WaitingOf, At, Hash, guardianVars, NoTx
<1>13. Paid'
  BY <1>2 DEF Known, BInv, Paid, guardianVars
<1>14. Progress'
  BY <1>1, <1>2 DEF Known, BInv, Progress, ProgressOf, At, Active, Snap, Hash, NoEffect,
                    IssuedFor, NoTx, guardianVars
<1>15. Honest'
  <2>1. /\ tx[k].status = "SUCCEEDED" /\ Snap(k).sideEffects => ~NoEffect(tx[k].call)
        /\ tx[k].status = "BLOCKED" => NoEffect(tx[k].call)
        /\ tx[k].status = "FAILED" => ~Snap(k).sideEffects
    BY <1>0 DEF Known, BInv, Progress, ProgressOf
  <2>2. ~Snap(k).sideEffects => NoEffect(tx[k].call)
    BY <1>0 DEF Known, BInv, Paid, RowsOK, NoEffect, Snap, Hash
  <2>3. QED BY <1>2, <1>3, <2>1, <2>2 DEF Known, BInv, Honest, NoEffect, Snap, Hash
<1>20. QED BY <1>10, <1>11, <1>12, <1>13, <1>14, <1>15 DEF BInv

LEMMA TxAbortInv ==
  ASSUME Known, NEW k \in Brokers, TxAbort(k)
  PROVE  BInv'
<1>1. (\A l \in Brokers : l # k => tx'[l] = tx[l]) /\ tx'[k] = NoTx
  BY DropShape DEF Known, TxAbort
<1>2. UNCHANGED <<requestOf, status, result, effects>> /\ UNCHANGED guardianVars
  BY DEF TxAbort, UnchangedRows
<1>10. Exclusive'
  BY <1>1, <1>2 DEF Known, BInv, Exclusive, Active
<1>11. EvaluatedOnce'
  <2>1. \A l \in Brokers : At(l, "evaluate")' => At(l, "evaluate") /\ tx'[l] = tx[l]
    BY <1>1 DEF At, NoTx
  <2>2. QED BY <1>2, <2>1 DEF Known, BInv, EvaluatedOnce, Undecided, guardianVars
<1>12. Waiting'
  BY <1>1, <1>2 DEF Known, BInv, Waiting, WaitingOf, At, Hash, guardianVars, NoTx
<1>13. Paid'
  BY <1>2 DEF Known, BInv, Paid, guardianVars
<1>14. Progress'
  BY <1>1, <1>2 DEF Known, BInv, Progress, ProgressOf, At, Active, Snap, Hash, NoEffect,
                    IssuedFor, NoTx, guardianVars
<1>15. Honest'
  BY <1>2 DEF Known, BInv, Honest, NoEffect
<1>20. QED BY <1>10, <1>11, <1>12, <1>13, <1>14, <1>15 DEF BInv

(* Consoles and the clock: only an approval row and a console's own task   *)
(* change, and the approval was open before.                               *)
LEMMA ConsoleInv ==
  ASSUME Known, Tick \/ \E j \in Consoles : Approve(j)
  PROVE  BInv'
<1>1. UNCHANGED <<requestOf, status, result, effects, tx, decision, auth, authStatus>>
  BY DEF Tick, Approve, brokerVars, Guard!Tick, Guard!ActRead, Guard!ActExpired,
         Guard!ActCommit, Guard!Abort
<1>2. \A t \in Brokers : task'[t] = task[t]
  BY BrokerAssumption DEF Tick, Approve, Guard!Tick, Guard!ActRead, Guard!ActExpired,
         Guard!ActCommit, Guard!Abort, Guard!Finish, Known, GuardianFacts, Guard!TypeOK
<1>3. \A t \in Brokers \cup Consoles : task'[t].op = "evaluate" => task'[t] = task[t]
  BY DEF Tick, Approve, Guard!Tick, Guard!ActRead, Guard!ActExpired,
         Guard!ActCommit, Guard!Abort, Guard!Finish, Guard!Idle, Known, GuardianFacts, Guard!TypeOK
<1>4. \A d \in DecisionIds : approval'[d] # "NONE" => approval[d] # "NONE"
  <2>1. CASE Tick
    BY <2>1 DEF Tick, Guard!Tick
  <2>2. ASSUME NEW j \in Consoles, Guard!ActCommit(j)
        PROVE  \A d \in DecisionIds : approval'[d] # "NONE" => approval[d] # "NONE"
    <3>1. task[j].op = "act" /\ approval[task[j].act.decision] = "PENDING"
      BY <2>2 DEF Guard!ActCommit, Known, GuardianFacts, Guard!ReadsStillHold
    <3>2. QED BY <2>2, <3>1 DEF Guard!ActCommit, Known, GuardianFacts, Guard!TypeOK
  <2>3. ASSUME NEW j \in Consoles, Approve(j), ~Guard!ActCommit(j)
        PROVE  approval' = approval
    BY <2>3 DEF Approve, Guard!ActRead, Guard!ActExpired, Guard!Abort
  <2>4. QED BY <2>1, <2>2, <2>3
<1>10. Exclusive'
  BY <1>1 DEF Known, BInv, Exclusive, Active
<1>11. EvaluatedOnce'
  BY <1>1, <1>3, <1>4 DEF Known, BInv, EvaluatedOnce, Undecided, At
<1>12. Waiting'
  BY <1>1, <1>2 DEF Known, BInv, Waiting, WaitingOf, At, Hash
<1>13. Paid'
  BY <1>1 DEF Known, BInv, Paid
<1>14. Progress'
  BY <1>1 DEF Known, BInv, Progress, ProgressOf, At, Active, Snap, Hash, NoEffect, IssuedFor
<1>15. Honest'
  BY <1>1 DEF Known, BInv, Honest, NoEffect
<1>20. QED BY <1>10, <1>11, <1>12, <1>13, <1>14, <1>15 DEF BInv

LEMMA InitBInv == Init => BInv
<1> SUFFICES ASSUME Init PROVE BInv
  OBVIOUS
<1>1. \A k \in Brokers : tx[k] = NoTx /\ task[k] = Guard!Idle
  BY DEF Init, Guard!Init
<1>2. \A d \in DecisionIds : decision[d] = Guard!NoDecision
  BY DEF Init, Guard!Init
<1>3. \A t \in Brokers \cup Consoles : task[t].op = "idle"
  BY DEF Init, Guard!Init, Guard!Idle
<1>4. \A c \in Calls : status[c] = "NONE" /\ NoEffect(c)
  BY DEF Init, NoEffect, Auths
<1>5. Exclusive /\ Waiting
  BY <1>1 DEF Exclusive, Waiting, WaitingOf, Active
<1>6. EvaluatedOnce
  BY <1>1, <1>2, <1>3 DEF EvaluatedOnce, At, NoTx
<1>7. Paid /\ Honest
  BY <1>4 DEF Paid, Honest, NoEffect
<1>8. Progress
  BY <1>1 DEF Progress, ProgressOf, At, NoTx, Active
<1>9. QED BY <1>5, <1>6, <1>7, <1>8 DEF BInv

LEMMA NextBInv == Known /\ [Next]_vars => BInv'
<1> SUFFICES ASSUME Known, [Next]_vars PROVE BInv'
  OBVIOUS
<1>1. CASE UNCHANGED vars
  BY <1>1 DEF vars, Known, BInv, Exclusive, EvaluatedOnce, Waiting, WaitingOf, Paid, Progress,
              ProgressOf, Honest, Active, NoEffect, Undecided, IssuedFor, At, Hash, Snap
<1>2. CASE Next
  BY <1>2, ExecuteStartInv, ResumeStartInv, SendEvaluateInv, AnswerAllowInv, AnswerEscalateInv,
     AnswerBlockInv, AnswerErrorInv, SendAuthorizeInv, AnswerAuthorizeInv, SendConsumeInv,
     AnswerConsumeInv, CallToolInv, CommitInv, TxAbortInv, ConsoleInv DEF Next
<1>3. QED BY <1>1, <1>2

(* The inductive invariant of the broker holds throughout: what a          *)
(* transaction of execute or resume knows of its call, its authorization   *)
(* and the Guardian's rows stays true until it commits.                    *)
THEOREM BrokerInvariant == Spec => []Known
<1>1. QED
  BY InitBInv, NextBInv, RowsInit, RowsStep, GuardianKnown, PTL DEF Spec, Known

-----------------------------------------------------------------------------
(* Call rows, results, transactions and effects keep their types.          *)
THEOREM BrokerTypeCorrect == Spec => []TypeOK
<1>1. Known => TypeOK
  BY DEF Known, RowsOK, GuardianFacts, TypeOK, Auths
<1>2. QED BY <1>1, BrokerInvariant, PTL

(* No effect of a protected tool without an authorization the Guardian     *)
(* consumed for exactly that call and hash, and no authorization pays for  *)
(* two effects (execute, resume and _call, whatever crashes in between).   *)
THEOREM EveryEffectAuthorized == Spec => []EffectAuthorized
<1>1. Known => EffectAuthorized
  BY DEF Known, BInv, Paid, EffectAuthorized, Auths
<1>2. QED BY <1>1, BrokerInvariant, PTL

(* A call an approver rejected never has an effect: it has one decision,   *)
(* and the authorization that would pay for the effect rests on it.        *)
THEOREM RejectionIsFinal == Spec => []RejectedNeverRuns
<1>1. Known => RejectedNeverRuns
  <2> SUFFICES ASSUME Known, NEW d \in DecisionIds, approval[d] = "REJECTED",
                      NEW a \in AuthIds \cup {None}, effects[decision[d].call][a] # 0
               PROVE  FALSE
    BY DEF RejectedNeverRuns
  <2> DEFINE c == decision[d].call
  <2>1. decision[d] # Guard!NoDecision /\ c \in Calls
    BY DecisionForm DEF Known, GuardianFacts
  <2>2. Protected(SnapOf[requestOf[c]]) /\ decision[d].outcome = "ESCALATE"
    BY <2>1 DEF Known, BInv, EvaluatedOnce
  <2>3. effects[c][a] > 0
    BY <2>1 DEF Known, RowsOK, Auths
  <2>4. a \in AuthIds /\ authStatus[a] = "CONSUMED" /\ auth[a].call = c
    BY <2>1, <2>2, <2>3 DEF Known, BInv, Paid, Auths
  <2>5. PICK e \in DecisionIds :
          /\ decision[e] # Guard!NoDecision /\ decision[e].call = c
          /\ \/ decision[e].outcome = "ALLOW"
             \/ \E u \in Approvers :
                  [decision |-> e, user |-> u, action |-> "APPROVE"] \in acted
    <3>1. auth[a].decision \in DecisionIds
      BY <2>1, <2>4, GuardianParameters DEF Known, GuardianFacts, Guard!TypeOK, Guard!AuthRow, Guard!NoAuth
    <3>2. LET e == auth[a].decision IN
            /\ decision[e] # Guard!NoDecision /\ decision[e].call = c
            /\ \/ decision[e].outcome = "ALLOW"
               \/ \E u \in Approvers :
                    [decision |-> e, user |-> u, action |-> "APPROVE"] \in acted
      BY <2>4 DEF Known, GuardianFacts, Guard!AuthGrounded
    <3>3. QED BY <3>1, <3>2
  <2>6. e = d
    BY <2>1, <2>5 DEF Known, BInv, EvaluatedOnce
  <2>7. PICK u \in Approvers : [decision |-> d, user |-> u, action |-> "APPROVE"] \in acted
    BY <2>2, <2>5, <2>6
  <2>8. approval[d] = "APPROVED"
    BY <2>7 DEF Known, GuardianFacts, Guard!OneVerdict, Guard!StatusFor, Guard!Verbs, Guard!Verdicts
  <2>9. QED BY <2>8
<1>2. QED BY <1>1, BrokerInvariant, PTL

(* The outcome that execute or resume stores does not contradict what the  *)
(* remote tool did, for every instance.                                    *)
THEOREM OutcomesHonest == Spec => []OutcomeHonest
<1>1. Known => OutcomeHonest
  BY HonestForm DEF Known, BInv
<1>2. QED BY <1>1, BrokerInvariant, PTL

(* A call stored with a result is never touched again: neither a retried   *)
(* execute nor a resume changes its row or repeats its effect.             *)
THEOREM SettledIsFinal == Spec => SettledStaysSettled
<1>1. Known /\ [Next]_vars =>
        [\A c \in Calls : status[c] \in Terminal =>
           /\ status'[c] = status[c] /\ result'[c] = result[c]
           /\ \A a \in AuthIds \cup {None} : effects'[c][a] = effects[c][a]]_vars
  <2> SUFFICES ASSUME Known, Next, NEW c \in Calls, status[c] \in Terminal
               PROVE  /\ status'[c] = status[c] /\ result'[c] = result[c]
                      /\ \A a \in AuthIds \cup {None} : effects'[c][a] = effects[c][a]
    OBVIOUS
  <2>1. \A k \in Brokers : Active(k) => tx[k].call \in Calls /\ tx[k].call # c /\ tx[k].auth \in Auths
    BY TxShape DEF Known, BInv, Exclusive, Terminal
  <2>2. ASSUME NEW k \in Brokers, Commit(k)
        PROVE  status'[c] = status[c] /\ result'[c] = result[c] /\ effects' = effects
    BY <2>1, <2>2, TxShape DEF Commit, Known, RowsOK, At, Steps
  <2>3. ASSUME NEW k \in Brokers, NEW happened \in BOOLEAN, NEW ok \in BOOLEAN, CallTool(k, happened, ok)
        PROVE  status' = status /\ result' = result /\ effects'[c] = effects[c]
    BY <2>1, <2>3, TxShape DEF CallTool, Known, RowsOK, At, Steps
  <2>4. \/ UNCHANGED <<status, result, effects>>
        \/ \E k \in Brokers : Commit(k)
        \/ \E k \in Brokers, happened, ok \in BOOLEAN : CallTool(k, happened, ok)
    BY DEF Next, ExecuteStart, ResumeStart, SendEvaluate, AnswerAllow, AnswerEscalate, AnswerBlock,
           AnswerError, SendAuthorize, AnswerAuthorize, SendConsume, AnswerConsume, TxAbort,
           UnchangedRows, Approve, Tick, brokerVars
  <2>5. QED BY <2>2, <2>3, <2>4
<1>2. QED BY <1>1, BrokerInvariant, PTL DEF Spec, SettledStaysSettled

-----------------------------------------------------------------------------
(***************************************************************************)
(* The access checks that a transaction takes as one step above, for every *)
(* set of agents, roles, purposes and consents (AccessGate).  The          *)
(* inductive invariant says what the step a call has reached tells about   *)
(* its snapshot.                                                           *)
(***************************************************************************)
\* What each step has established.
Reached ==
    /\ step \in {"guardian", "waiting", "blocked", "calling"} => ValidateAccess(snap)
    /\ step = "waiting" => PolicyEvaluate(snap) = "ESCALATE"
    /\ step = "calling" => PolicyEvaluate(snap) = "ALLOW" \/ ~Protected(snap)

\* A snapshot keeps its type and the steps of the pipeline mean what they say.
GateInv == GateTypeOK /\ Reached

\* A policy without a human asks for the same grants.
LEMMA RelaxedKeepsGrants ==
    ASSUME NEW s \in Snapshot
    PROVE  /\ Relaxed(s).risk = "MUTATE" /\ ~NeedsHuman(Relaxed(s))
           /\ Relaxed(s).scopeValid = s.scopeValid
           /\ AgentGranted(s) => AgentGranted(Relaxed(s))
           /\ RolesHeld(s) => RolesHeld(Relaxed(s))
           /\ PurposeAllowed(s) => PurposeAllowed(Relaxed(s))
           /\ ConsentsHeld(s) => ConsentsHeld(Relaxed(s))
           /\ KeyPresent(s) => KeyPresent(Relaxed(s))
  BY DEF Relaxed, NeedsHuman, AgentGranted, RolesHeld, PurposeAllowed, ConsentsHeld, KeyPresent

\* The broker's shortcut agrees with the Guardian: what skips it would have
\* been allowed (broker.py:116 against policy.py).
LEMMA ShortcutAllowed ==
    ASSUME NEW s \in Snapshot, ValidateAccess(s), ~Protected(s), s.scopeValid
    PROVE  PolicyEvaluate(s) = "ALLOW"
  BY DEF Snapshot, ApprovalModes, RiskClasses, ValidateAccess, Protected, PolicyEvaluate, NeedsHuman

\* What the Guardian's policy escalates holds every grant and the key.
LEMMA EscalatedHoldsGrants ==
    ASSUME NEW s \in Snapshot, PolicyEvaluate(s) = "ESCALATE"
    PROVE  /\ s.scopeValid /\ AgentGranted(s) /\ RolesHeld(s) /\ PurposeAllowed(s)
           /\ ConsentsHeld(s) /\ KeyPresent(s)
  BY DEF PolicyEvaluate

\* What the policy allows is no call that a human must approve.
LEMMA AllowedNeedsNoHuman ==
    ASSUME NEW s \in Snapshot, PolicyEvaluate(s) = "ALLOW"
    PROVE  ~NeedsHuman(s)
  BY DEF PolicyEvaluate

\* The pipeline keeps the invariant.
THEOREM GateInvariant == GateSpec => []GateInv
<1>1. GateInit => GateInv
  BY DEF GateInit, GateInv, GateTypeOK, GateSteps, Reached
<1>2. GateInv /\ [GateNext]_gateVars => GateInv'
  <2> SUFFICES ASSUME GateInv, [GateNext]_gateVars PROVE GateInv'
    OBVIOUS
  <2> USE DEF GateInv, GateTypeOK, GateSteps, Reached, Move
  <2>1. CASE Refuse       BY <2>1 DEF Refuse
  <2>2. CASE Bypass       BY <2>2 DEF Bypass
  <2>3. CASE AskGuardian  BY <2>3 DEF AskGuardian
  <2>4. CASE GuardianBlock    BY <2>4 DEF GuardianBlock
  <2>5. CASE GuardianEscalate BY <2>5 DEF GuardianEscalate
  <2>6. CASE GuardianAllow    BY <2>6 DEF GuardianAllow
  <2>7. CASE UNCHANGED gateVars   BY <2>7 DEF gateVars
  <2> QED BY <2>1, <2>2, <2>3, <2>4, <2>5, <2>6, <2>7 DEF GateNext
<1> QED BY <1>1, <1>2, PTL DEF GateSpec

\* A call that runs at once is one the Guardian's policy allows, whether or not
\* the broker asked (broker.py:116, policy.py).
THEOREM GateAgreesAlways == GateSpec => []GateAgrees
<1>1. GateInv => GateAgrees
  BY ShortcutAllowed DEF GateInv, GateTypeOK, Reached, GateAgrees
<1> QED BY <1>1, GateInvariant, PTL

\* A call that runs at once needs no human and holds every grant and the key
\* (_validate_access, evaluate).
THEOREM RunsOnlyGrantedAlways == GateSpec => []RunsOnlyGranted
<1>1. GateInv => RunsOnlyGranted
  <2> SUFFICES ASSUME GateInv, step = "calling" PROVE RunsOnlyGranted
    BY DEF RunsOnlyGranted
  <2>1. snap \in Snapshot /\ ValidateAccess(snap)
    BY DEF GateInv, GateTypeOK, Reached
  <2>2. ~NeedsHuman(snap)
    <3>1. CASE PolicyEvaluate(snap) = "ALLOW"  BY <2>1, <3>1, AllowedNeedsNoHuman
    <3>2. CASE ~Protected(snap)
      BY <3>2 DEF Protected, NeedsHuman
    <3> QED BY <3>1, <3>2 DEF GateInv, Reached
  <2> QED BY <2>1, <2>2 DEF RunsOnlyGranted, ValidateAccess, NeedsHuman, RolesHeld, ConsentsHeld,
                             KeyPresent
<1> QED BY <1>1, GateInvariant, PTL

\* A human is asked only about a call that lacks nothing else (evaluate).
THEOREM ApprovalNeverReplacesGrants == GateSpec => []ApprovalIsNotAGrant
<1>1. GateInv => ApprovalIsNotAGrant
  <2> SUFFICES ASSUME GateInv, step = "waiting" PROVE ApprovalIsNotAGrant
    BY DEF ApprovalIsNotAGrant
  <2>1. snap \in Snapshot /\ PolicyEvaluate(snap) = "ESCALATE"
    BY DEF GateInv, GateTypeOK, Reached
  <2>2. PolicyEvaluate(Relaxed(snap)) = "ALLOW"
    BY <2>1, EscalatedHoldsGrants, RelaxedKeepsGrants DEF PolicyEvaluate
  <2> QED BY <2>2 DEF ApprovalIsNotAGrant
<1> QED BY <1>1, GateInvariant, PTL
=============================================================================
