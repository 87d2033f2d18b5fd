--------------------------- MODULE FinancingFlow ---------------------------
(***************************************************************************)
(* The financing flow (demos/e2e/xyena_financing_flow.py) over the bank    *)
(* and the ledger: prepare in both, post the disbursement, execute the     *)
(* transfer, report the settlement.  Other clients use the two services    *)
(* at the same time.                                                       *)
(*                                                                         *)
(* The coordinator keeps its state in memory and writes the checkpoint     *)
(* file only when start or resume ends, so whatever kills it in between    *)
(* loses the execution id it had drawn; an operator may start again.       *)
(*                                                                         *)
(* The broker is reduced to what ToolBroker shows of it.  A request it has *)
(* let through is delivered late, repeatedly or never.  Each of the two    *)
(* protected calls has a fixed idempotency key, but the broker looks only  *)
(* for stored calls: two executions with one key that overlap in it both   *)
(* reach the service.  The key is unique, so one of them is stored; only a *)
(* waiting call can be resumed.                                            *)
(***************************************************************************)
EXTENDS Integers, FiniteSets

CONSTANTS
    Transfers, Holds, Reversals, Journals, Executions, Amounts,
    Funds, PerTransfer, Daily, Cash, BankSessions, LedgerSessions, None,
    CaseTransfer,   \* the transfer of the case's idempotency key
    CaseJournal,    \* the journal of the case's idempotency key
    CaseAmount

VARIABLES
    current, available, transfer, execution, hold, reversal, lapsed, bankSession,
    bankBehind, bankLost,
    journal, payment, balance, receipts, ledgerSession, ledgerBehind, ledgerLost,
    stage,          \* what the coordinator waits for, "down" when it is not running
    drawn,          \* the bank_execution_id in its memory
    used,           \* execution ids drawn so far
    checkpoint,     \* the state file: stage and execution id
    call,           \* the stored broker call of each kind: status and execution id
    sent            \* requests that may reach the services

bankVars == <<current, available, transfer, execution, hold, reversal, lapsed, bankSession,
              bankBehind, bankLost>>
ledgerVars == <<journal, payment, balance, receipts, ledgerSession, ledgerBehind, ledgerLost>>
flowVars == <<stage, drawn, used, checkpoint, call, sent>>
vars == <<current, available, transfer, execution, hold, reversal, lapsed, bankSession,
          bankBehind, bankLost,
          journal, payment, balance, receipts, ledgerSession, ledgerBehind, ledgerLost,
          stage, drawn, used, checkpoint, call, sent>>

B == INSTANCE Bank
L == INSTANCE Ledger

ASSUME FlowAssumption ==
    /\ Amounts \subseteq Nat \ {0}
    /\ {Funds, PerTransfer, Daily} \subseteq Nat /\ Cash \in Int
    /\ CaseTransfer \in Transfers /\ CaseJournal \in Journals /\ CaseAmount \in Amounts
    /\ None \notin Executions \cup Transfers
    /\ IsFiniteSet(Transfers) /\ IsFiniteSet(Holds)
    /\ IsFiniteSet(Reversals) /\ IsFiniteSet(Journals)

Kinds == {"ledger", "bank"}
Requests == [kind : Kinds \cup {"settle"}, execution : Executions]
Stages == {"down", "bankPrepare", "ledgerPrepare", "ledgerCall", "ledgerAnswer",
           "bankCall", "bankAnswer", "settle", "settleAnswer"}

TypeOK ==
    /\ B!TypeOK /\ L!TypeOK
    /\ stage \in Stages
    /\ drawn \in Executions \cup {None} /\ used \subseteq Executions
    /\ checkpoint \in [stage : {"NONE", "ledger", "bank", "RECONCILED"},
                       execution : Executions \cup {None}]
    /\ call \in [Kinds -> [status : {"NONE", "WAITING_APPROVAL", "SUCCEEDED", "FAILED"},
                           execution : Executions \cup {None}]]
    /\ sent \subseteq Requests

Init ==
    /\ B!Init /\ L!Init
    /\ stage = "down" /\ drawn = None /\ used = {}
    /\ checkpoint = [stage |-> "NONE", execution |-> None]
    /\ call = [k \in Kinds |-> [status |-> "NONE", execution |-> None]]
    /\ sent = {}

-----------------------------------------------------------------------------
Services == UNCHANGED bankVars /\ UNCHANGED ledgerVars

\* Each run of the start command draws a new execution id.
Start(x) ==
    /\ stage = "down" /\ x \notin used
    /\ stage' = "bankPrepare" /\ drawn' = x /\ used' = used \cup {x}
    /\ UNCHANGED <<checkpoint, call, sent>> /\ Services

\* Preparing answers with the prepared row, whatever has become of it.
BankPrepared ==
    /\ stage = "bankPrepare" /\ transfer[CaseTransfer].status # "NONE"
    /\ stage' = "ledgerPrepare"
    /\ UNCHANGED <<drawn, used, checkpoint, call, sent>> /\ Services

LedgerPrepared ==
    /\ stage = "ledgerPrepare" /\ journal[CaseJournal].status # "NONE"
    /\ stage' = "ledgerCall"
    /\ UNCHANGED <<drawn, used, checkpoint, call, sent>> /\ Services

At(k) == stage = (IF k = "ledger" THEN "ledgerCall" ELSE "bankCall")
Answering(k) == IF k = "ledger" THEN "ledgerAnswer" ELSE "bankAnswer"

\* The Guardian allows the call and the broker sends it.
CallAllowed(k) ==
    /\ At(k) /\ call[k].status = "NONE"
    /\ sent' = sent \cup {[kind |-> k, execution |-> drawn]}
    /\ stage' = Answering(k)
    /\ UNCHANGED <<drawn, used, checkpoint, call>> /\ Services

\* Mutated form: a transfer that waits for an approval is taken for settled.
CallEscalatedIgnored(k) ==
    /\ At(k) /\ call[k].status = "NONE"
    /\ call' = [call EXCEPT ![k] = [status |-> "WAITING_APPROVAL", execution |-> drawn]]
    /\ checkpoint' = [stage |-> k, execution |-> drawn]
    /\ stage' = (IF k = "bank" THEN "settle" ELSE "down")
    /\ drawn' = (IF k = "bank" THEN drawn ELSE None)
    /\ UNCHANGED <<used, sent>> /\ Services

\* The Guardian escalates: the checkpoint is written and the command ends.
CallEscalated(k) ==
    /\ At(k) /\ call[k].status = "NONE"
    /\ call' = [call EXCEPT ![k] = [status |-> "WAITING_APPROVAL", execution |-> drawn]]
    /\ checkpoint' = [stage |-> k, execution |-> drawn]
    /\ stage' = "down" /\ drawn' = None
    /\ UNCHANGED <<used, sent>> /\ Services

\* The resume command after an approval.
Resume(k) ==
    /\ stage = "down" /\ checkpoint.stage = k
    /\ call[k] = [status |-> "WAITING_APPROVAL", execution |-> checkpoint.execution]
    /\ sent' = sent \cup {[kind |-> k, execution |-> checkpoint.execution]}
    /\ drawn' = checkpoint.execution /\ stage' = Answering(k)
    /\ UNCHANGED <<used, checkpoint, call>> /\ Services

\* Mutated form: any posted journal is taken for success.
DoneIfPosted(k, x) == IF k = "ledger" THEN journal[CaseJournal].status = "POSTED"
                      ELSE execution[CaseTransfer] # None

\* A service has carried the request out.  The ledger compares the execution
\* id; the bank answers with the execution of the action, under whatever id.
Done(k, x) == IF k = "ledger" THEN payment[CaseJournal].execution = x
              ELSE execution[CaseTransfer] # None

\* A call the broker has sent and whose outcome it has not stored; of two that
\* overlap, the one that is not stored first never is.
InBroker(k, x) ==
    /\ [kind |-> k, execution |-> x] \in sent
    /\ call[k] \in {[status |-> "NONE", execution |-> None],
                    [status |-> "WAITING_APPROVAL", execution |-> x]}

BrokerCommits(k, x) ==
    /\ InBroker(k, x) /\ Done(k, x)
    /\ call' = [call EXCEPT ![k] = [status |-> "SUCCEEDED", execution |-> x]]
    /\ UNCHANGED <<stage, drawn, used, checkpoint, sent>> /\ Services

\* The tool refuses or times out: the call is FAILED or UNKNOWN, its key spent.
BrokerFails(k, x) ==
    /\ InBroker(k, x)
    /\ call' = [call EXCEPT ![k] = [status |-> "FAILED", execution |-> x]]
    /\ UNCHANGED <<stage, drawn, used, checkpoint, sent>> /\ Services

Answered(k) ==
    /\ stage = Answering(k)
    /\ call[k] = [status |-> "SUCCEEDED", execution |-> drawn]
    /\ stage' = (IF k = "ledger" THEN "bankCall" ELSE "settle")
    /\ UNCHANGED <<drawn, used, checkpoint, call, sent>> /\ Services

Settle ==
    /\ stage = "settle"
    /\ sent' = sent \cup {[kind |-> "settle", execution |-> drawn]}
    /\ stage' = "settleAnswer"
    /\ UNCHANGED <<drawn, used, checkpoint, call>> /\ Services

Settled ==
    /\ stage = "settleAnswer"
    /\ [journal |-> CaseJournal, execution |-> drawn] \in receipts
    /\ checkpoint' = [stage |-> "RECONCILED", execution |-> drawn]
    /\ stage' = "down" /\ drawn' = None
    /\ UNCHANGED <<used, call, sent>> /\ Services

\* A refusal, an error or a crash ends the command without a checkpoint.
CommandDies ==
    /\ stage # "down"
    /\ stage' = "down" /\ drawn' = None
    /\ UNCHANGED <<used, checkpoint, call, sent>> /\ Services

-----------------------------------------------------------------------------
\* The case's requests reach the services only when they were sent.
BankStep ==
    /\ \E s \in BankSessions :
         \/ stage = "bankPrepare" /\ B!BeginPrepare(s, CaseTransfer, CaseAmount)
         \/ \E x \in Executions : [kind |-> "bank", execution |-> x] \in sent
                                  /\ B!BeginExecute(s, CaseTransfer, x)
         \/ \E t \in Transfers \ {CaseTransfer} :
              \/ \E m \in Amounts : B!BeginPrepare(s, t, m)
              \/ \E x \in Executions \ used : B!BeginExecute(s, t, x)
         \/ \E t \in Transfers : B!BeginStatus(s, t)
         \/ \E h \in Holds, m \in Amounts : B!BeginHold(s, h, m)
         \/ \E h \in Holds : B!BeginRelease(s, h)
         \/ \E r \in Reversals : B!BeginBankReversal(s, r)
         \/ B!SessionStep(s)
    /\ UNCHANGED ledgerVars /\ UNCHANGED flowVars

BankRowStep ==
    /\ \/ \E r \in Reversals, t \in Transfers, m \in Amounts : B!PrepareBankReversal(r, t, m)
       \/ \E row \in Transfers \cup Reversals : B!Lapse(row)
    /\ UNCHANGED ledgerVars /\ UNCHANGED flowVars

LedgerStep ==
    /\ \/ stage = "ledgerPrepare" /\ L!PrepareDisbursement(CaseJournal, CaseAmount)
       \/ \E j \in Journals \ {CaseJournal}, k \in Journals : L!PrepareReversal(j, k)
       \/ \E s \in LedgerSessions :
            \/ \E x \in Executions : [kind |-> "ledger", execution |-> x] \in sent
                                     /\ L!BeginDisbursement(s, CaseJournal, x)
            \/ \E j \in Journals : L!BeginReversal(s, j)
            \/ \E x \in Executions : [kind |-> "settle", execution |-> x] \in sent
                 /\ L!BeginSettlement(s, CaseJournal, x, transfer[CaseTransfer].amount)
            \/ L!SessionStep(s)
    /\ UNCHANGED bankVars /\ UNCHANGED flowVars

FlowStep ==
    \/ \E x \in Executions : Start(x)
    \/ BankPrepared \/ LedgerPrepared
    \/ \E k \in Kinds : CallAllowed(k) \/ CallEscalated(k) \/ Resume(k) \/ Answered(k)
    \/ \E k \in Kinds, x \in Executions : BrokerCommits(k, x) \/ BrokerFails(k, x)
    \/ Settle \/ Settled \/ CommandDies

Next == FlowStep \/ BankStep \/ BankRowStep \/ LedgerStep

Spec == Init /\ [][Next]_vars

-----------------------------------------------------------------------------
(* The bank's balances are explained by its movements, up to a lost update. *)
BankBooks == B!MovementsExplainBalance

(* The ledger's balances are explained by its postings, up to a lost update. *)
LedgerBooks == L!PostingsExplainBalance

(* The case's money leaves the bank only after its disbursement is posted, *)
(* however often the flow is killed, started again with another id, or     *)
(* resumed, and whatever requests overlap (xyena_financing_flow.py:99).    *)
(* It leaves under the execution id the payment carries                    *)
(* (ledger_demo/service.py:126), unless the journal was posted by a        *)
(* request that had checked it before another posting was committed: then  *)
(* the later of two overlapping executions has replaced the id.            *)
PaidWasPosted ==
    execution[CaseTransfer] # None =>
      /\ journal[CaseJournal].status = "POSTED"
      /\ CaseJournal \in ledgerLost \/ payment[CaseJournal].execution = execution[CaseTransfer]

(* The ledger calls a payment reconciled only when the bank has executed   *)
(* the transfer it names, for the posted amount (service.py:236).          *)
ReconciledMeansPaid ==
    \A r \in receipts :
      /\ r.journal = CaseJournal
      /\ execution[CaseTransfer] = r.execution
      /\ transfer[CaseTransfer].amount = journal[r.journal].amount
      /\ journal[r.journal].status = "POSTED"
=============================================================================
