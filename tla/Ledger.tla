------------------------------- MODULE Ledger -------------------------------
(***************************************************************************)
(* The ledger and payment service                                          *)
(* (demos/ledger-payment/ledger_demo/service.py) of one tenant: journals,  *)
(* the payment of each disbursement, and the settlements the bank reports. *)
(*                                                                         *)
(* A request is one transaction at READ COMMITTED without row locks.  It   *)
(* checks the journal, reads the balance of one account after the other,   *)
(* and writes back at the commit what it computed from them.  Preparing a  *)
(* journal only inserts rows and is one step.                              *)
(*                                                                         *)
(* A journal is named by its idempotency key, which is unique and bound to *)
(* the hash of the request.  A Guardian call belongs to one request, so    *)
(* its uniqueness refuses nothing more.  The event id of a settlement is   *)
(* derived from the bank's execution id.                                   *)
(***************************************************************************)
EXTENDS Integers, FiniteSets, Functions

CONSTANTS
    Journals,
    Executions,      \* the bank's execution ids
    Amounts,
    Cash,            \* opening balance of the cash clearing account
    LedgerSessions,  \* requests the service handles at a time
    None

VARIABLES
    journal,       \* each journal: status, amount, and the account it debits
    payment,       \* the payment of each disbursement: status and execution
    balance,       \* LedgerAccount.balance of the two accounts
    receipts,      \* settlement receipts, each with its reconciliation record
    ledgerSession, \* open transactions
    ledgerBehind,  \* history: of those, the postings begun before another's commit
    ledgerLost     \* history: journals that one of those has posted

ledgerVars == <<journal, payment, balance, receipts, ledgerSession,
                ledgerBehind, ledgerLost>>

Accounts == {"ledger_cash_clearing", "ledger_loan_receivable"}

Idle == [op |-> "idle"]
NoJournal == [status |-> "NONE", amount |-> 0, debit |-> "ledger_loan_receivable"]
NoPayment == [status |-> "NONE", execution |-> None]
Unread == [a \in Accounts |-> None]

Posting == [op : {"disburse", "reverse"}, journal : Journals,
            execution : Executions \cup {None}, seen : [Accounts -> Int \cup {None}]]
Settling == [op : {"settle"}, journal : Journals, execution : Executions]

TypeOK ==
    /\ journal \in [Journals ->
         [status : {"NONE", "VALIDATED", "REVIEW_REQUIRED", "POSTED"},
          amount : Amounts \cup {0}, debit : Accounts]]
    /\ payment \in [Journals ->
         [status : {"NONE", "PREPARED", "SUBMITTED", "SETTLED"},
          execution : Executions \cup {None}]]
    /\ balance \in [Accounts -> Int]
    /\ receipts \subseteq [journal : Journals, execution : Executions]
    /\ ledgerSession \in [LedgerSessions -> {Idle} \cup Posting \cup Settling]
    /\ ledgerBehind \subseteq LedgerSessions /\ ledgerLost \subseteq Journals

Init ==
    /\ journal = [j \in Journals |-> NoJournal]
    /\ payment = [j \in Journals |-> NoPayment]
    /\ balance = [a \in Accounts |-> IF a = "ledger_cash_clearing" THEN Cash ELSE 0]
    /\ receipts = {}
    /\ ledgerSession = [s \in LedgerSessions |-> Idle]
    /\ ledgerBehind = {} /\ ledgerLost = {}

-----------------------------------------------------------------------------
\* prepare_disbursement: a balanced journal and its payment.
PrepareDisbursement(j, m) ==
    /\ journal[j].status = "NONE"
    /\ journal' = [journal EXCEPT ![j] = [status |-> "VALIDATED", amount |-> m,
                                          debit |-> "ledger_loan_receivable"]]
    /\ payment' = [payment EXCEPT ![j] = [status |-> "PREPARED", execution |-> None]]
    /\ UNCHANGED <<balance, receipts, ledgerSession, ledgerBehind, ledgerLost>>

\* prepare_reversal: the lines of a posted journal with their sides swapped.
PrepareReversal(j, original) ==
    /\ journal[original].status = "POSTED"
    /\ journal[j].status = "NONE"
    /\ \E a \in Accounts \ {journal[original].debit} :
         journal' = [journal EXCEPT ![j] = [status |-> "REVIEW_REQUIRED", debit |-> a,
                                            amount |-> journal[original].amount]]
    /\ UNCHANGED <<payment, balance, receipts, ledgerSession, ledgerBehind, ledgerLost>>

Open(s, tx) ==
    /\ ledgerSession[s] = Idle
    /\ ledgerSession' = [ledgerSession EXCEPT ![s] = tx]
    /\ UNCHANGED <<journal, payment, balance, receipts, ledgerBehind, ledgerLost>>

\* Mutated form: a journal that is already posted is posted again.
DisbursableAgain(j) == journal[j].status \in {"VALIDATED", "POSTED"}
                         /\ payment[j].status # "NONE"

\* A posted journal only answers what was posted, or refuses other parameters.
Disbursable(j) == journal[j].status = "VALIDATED"

\* execute_disbursement up to the lines it reads.
BeginDisbursement(s, j, x) ==
    /\ Disbursable(j)
    /\ Open(s, [op |-> "disburse", journal |-> j, execution |-> x, seen |-> Unread])

\* execute_reversal up to the lines it reads.
BeginReversal(s, j) ==
    /\ journal[j].status = "REVIEW_REQUIRED"
    /\ Open(s, [op |-> "reverse", journal |-> j, execution |-> None, seen |-> Unread])

\* _post_lines reads the accounts one by one, in the order the lines come in.
ReadBalance(s, a) ==
    /\ ledgerSession[s].op \in {"disburse", "reverse"}
    /\ ledgerSession[s].seen[a] = None
    /\ ledgerSession' = [ledgerSession EXCEPT ![s].seen[a] = balance[a]]
    /\ UNCHANGED <<journal, payment, balance, receipts, ledgerBehind, ledgerLost>>

\* Both accounts have a normal debit side.
Effect(j, a) == IF a = journal[j].debit THEN journal[j].amount ELSE -journal[j].amount

\* bank_execution_id is unique among the payments.
ExecutionFree(j, x) == \A k \in Journals \ {j} : payment[k].execution # x

CommitPosting(s) ==
    LET tx == ledgerSession[s] IN
    /\ tx.op \in {"disburse", "reverse"}
    /\ \A a \in Accounts : tx.seen[a] # None
    /\ tx.op = "disburse" => ExecutionFree(tx.journal, tx.execution)
    /\ balance' = [a \in Accounts |-> tx.seen[a] + Effect(tx.journal, a)]
    /\ journal' = [journal EXCEPT ![tx.journal].status = "POSTED"]
    /\ payment' = IF tx.op = "reverse" THEN payment
                  ELSE [payment EXCEPT ![tx.journal] =
                          [status |-> "SUBMITTED", execution |-> tx.execution]]
    /\ ledgerSession' = [ledgerSession EXCEPT ![s] = Idle]
    /\ ledgerBehind' = {u \in LedgerSessions \ {s} :
                          ledgerSession[u].op \in {"disburse", "reverse"}}
    /\ ledgerLost' = ledgerLost \cup (IF s \in ledgerBehind THEN {tx.journal} ELSE {})
    /\ UNCHANGED receipts

\* What accept_bank_settlement requires of an event it has not seen.
SettlementMatches(j, x, m) ==
    /\ payment[j].execution = x
    /\ journal[j].amount = m

BeginSettlement(s, j, x, m) ==
    /\ \A r \in receipts : r.execution # x
    /\ SettlementMatches(j, x, m)
    /\ Open(s, [op |-> "settle", journal |-> j, execution |-> x])

\* A payment, and an execution, has one receipt and one reconciliation record.
CommitSettlement(s) ==
    LET tx == ledgerSession[s] IN
    /\ tx.op = "settle"
    /\ \A r \in receipts : r.journal # tx.journal /\ r.execution # tx.execution
    /\ receipts' = receipts \cup {[journal |-> tx.journal, execution |-> tx.execution]}
    /\ payment' = [payment EXCEPT ![tx.journal].status = "SETTLED"]
    /\ ledgerSession' = [ledgerSession EXCEPT ![s] = Idle]
    /\ UNCHANGED <<journal, balance, ledgerBehind, ledgerLost>>

\* A constraint is violated, the database fails or the process dies.
AbortLedger(s) ==
    /\ ledgerSession[s] # Idle
    /\ ledgerSession' = [ledgerSession EXCEPT ![s] = Idle]
    /\ ledgerBehind' = ledgerBehind \ {s}
    /\ UNCHANGED <<journal, payment, balance, receipts, ledgerLost>>

SessionStep(s) ==
    \/ \E a \in Accounts : ReadBalance(s, a)
    \/ CommitPosting(s) \/ CommitSettlement(s) \/ AbortLedger(s)

Next ==
    \/ \E j \in Journals, m \in Amounts : PrepareDisbursement(j, m)
    \/ \E j, k \in Journals : PrepareReversal(j, k)
    \/ \E s \in LedgerSessions :
         \/ \E j \in Journals, x \in Executions : BeginDisbursement(s, j, x)
         \/ \E j \in Journals : BeginReversal(s, j)
         \/ \E j \in Journals, x \in Executions, m \in Amounts : BeginSettlement(s, j, x, m)
         \/ SessionStep(s)

Spec == Init /\ [][Next]_ledgerVars

-----------------------------------------------------------------------------
Posted == {j \in Journals : journal[j].status = "POSTED"}
PostedEffect(a) == SumFunctionOnSet([j \in Journals |-> Effect(j, a)], Posted)

(* Each account's balance is its opening balance and the lines of the      *)
(* posted journals, each once: a repeated execution request, which         *)
(* service.py:126 answers from the posted journal, moves nothing.  This    *)
(* holds, whatever requests overlap, until a posting is committed that     *)
(* began before another's commit: execute_disbursement (service.py:121)    *)
(* reads journal and accounts without a lock.                              *)
PostingsExplainBalance ==
    ledgerLost = {} =>
      \A a \in Accounts :
        balance[a] = PostedEffect(a) + (IF a = "ledger_cash_clearing" THEN Cash ELSE 0)

(* Debits equal credits over all accounts.  main.py:133 lists this among   *)
(* the service's invariants and LEDGER_PAYMENT_APP.md has "transaction     *)
(* isolation enforce balance invariants"; _post_lines (service.py:278)     *)
(* reads the two accounts in two statements.                               *)
DebitsEqualCredits ==
    balance["ledger_cash_clearing"] + balance["ledger_loan_receivable"] = Cash
=============================================================================
