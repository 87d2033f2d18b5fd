-------------------------------- MODULE Bank --------------------------------
(***************************************************************************)
(* The payment side of the demo bank (demos/bank-mcp/bank_demo/service.py) *)
(* for one account: prepared transfers and their execution, holds, and     *)
(* reversals.                                                              *)
(*                                                                         *)
(* A request is one transaction at READ COMMITTED without row locks.  It   *)
(* checks the row it is about, then reads the account, and at the commit   *)
(* writes back the balances it computed from what it read: only the        *)
(* columns it changed.  Unique constraints can still refuse it there.      *)
(*                                                                         *)
(* Transfers, holds and reversals are named by their idempotency keys,     *)
(* which are unique and bound to the parameters: repeating a preparation   *)
(* changes nothing.  A Guardian call belongs to one request, so its        *)
(* uniqueness refuses nothing more.  The beneficiary is verified and stays *)
(* so (execute_beneficiary_change only ever sets it to verified).          *)
(***************************************************************************)
EXTENDS Integers, FiniteSets, Functions

CONSTANTS
    Transfers, Holds, Reversals,
    Executions,     \* execution ids
    Amounts,
    Funds,          \* opening balance of the account
    PerTransfer,    \* Account.per_transfer_limit
    Daily,          \* Account.daily_limit
    BankSessions,   \* requests the service handles at a time
    None

VARIABLES
    current, available,  \* the account's two balances
    transfer,            \* PreparedTransfer: status and amount
    execution,           \* TransferExecution of each transfer: its id
    hold,                \* AccountHold: status and amount
    reversal,            \* PreparedReversal: status, transfer and amount
    lapsed,              \* transfers and reversals past their expires_at
    bankSession,         \* open transactions
    bankBehind,          \* history: of those, the ones that are to write balances
                         \* which another has changed since they began
    bankLost             \* history: one of those has been committed

bankVars == <<current, available, transfer, execution, hold, reversal, lapsed, bankSession,
              bankBehind, bankLost>>

Idle == [op |-> "idle"]
Unread == [current |-> None, available |-> None]
Moving == {"execute", "hold", "release", "reverse"}   \* these write balances
Ops == Moving \cup {"prepare", "status"}

TypeOK ==
    /\ current \in Int /\ available \in Int
    /\ transfer \in [Transfers ->
         [status : {"NONE", "READY_FOR_GUARDIAN", "SETTLED", "EXPIRED"},
          amount : Amounts \cup {0}]]
    /\ execution \in [Transfers -> Executions \cup {None}]
    /\ hold \in [Holds -> [status : {"NONE", "ACTIVE", "RELEASED"}, amount : Amounts \cup {0}]]
    /\ reversal \in [Reversals ->
         [status : {"NONE", "REVIEW_REQUIRED", "SETTLED"},
          transfer : Transfers \cup {None}, amount : Amounts \cup {0}]]
    /\ lapsed \subseteq Transfers \cup Reversals
    /\ bankSession \in [BankSessions -> {Idle} \cup
         [op : Ops, row : Transfers \cup Holds \cup Reversals, amount : Amounts,
          execution : Executions \cup {None},
          seen : [current : Int \cup {None}, available : Int \cup {None}]]]
    /\ bankBehind \subseteq BankSessions /\ bankLost \in BOOLEAN

Init ==
    /\ current = Funds /\ available = Funds
    /\ transfer = [t \in Transfers |-> [status |-> "NONE", amount |-> 0]]
    /\ execution = [t \in Transfers |-> None]
    /\ hold = [h \in Holds |-> [status |-> "NONE", amount |-> 0]]
    /\ reversal = [r \in Reversals |-> [status |-> "NONE", transfer |-> None, amount |-> 0]]
    /\ lapsed = {}
    /\ bankSession = [s \in BankSessions |-> Idle]
    /\ bankBehind = {} /\ bankLost = FALSE

-----------------------------------------------------------------------------
Open(s, op, row, m, x) ==
    /\ bankSession[s] = Idle
    /\ bankSession' = [bankSession EXCEPT ![s] =
         [op |-> op, row |-> row, amount |-> m, execution |-> x, seen |-> Unread]]
    /\ UNCHANGED <<current, available, transfer, execution, hold, reversal, lapsed,
                   bankBehind, bankLost>>

Close(s) == bankSession' = [bankSession EXCEPT ![s] = Idle]

\* The end of a request that leaves the balances alone, and of one that writes them.
CloseOnly(s) == Close(s) /\ bankBehind' = bankBehind \ {s} /\ UNCHANGED bankLost

CloseMoved(s) ==
    /\ Close(s)
    /\ bankBehind' = {u \in BankSessions \ {s} : bankSession[u].op \in Moving}
    /\ bankLost' = (bankLost \/ s \in bankBehind)

Ready(t) == transfer[t].status = "READY_FOR_GUARDIAN" /\ t \notin lapsed

\* prepare_transfer with a key that has not been used.
BeginPrepare(s, t, m) ==
    transfer[t].status = "NONE" /\ Open(s, "prepare", t, m, None)

\* A known execution id or action is answered from the earlier execution.
Executable(t, x) ==
    /\ \A u \in Transfers : execution[u] # x
    /\ execution[t] = None
    /\ Ready(t)

BeginExecute(s, t, x) ==
    Executable(t, x) /\ Open(s, "execute", t, transfer[t].amount, x)

\* transfer_status finds no execution and an expired preparation.
BeginStatus(s, t) ==
    /\ execution[t] = None
    /\ transfer[t].status = "READY_FOR_GUARDIAN" /\ t \in lapsed
    /\ Open(s, "status", t, transfer[t].amount, None)

BeginHold(s, h, m) == hold[h].status = "NONE" /\ Open(s, "hold", h, m, None)

\* Mutated form: a released hold can be released again.
ReleasableTwice(h) == hold[h].status # "NONE"

Releasable(h) == hold[h].status = "ACTIVE"

BeginRelease(s, h) == Releasable(h) /\ Open(s, "release", h, hold[h].amount, None)

\* bank.prepare_reversal: compared with the transfer, not with other reversals.
PrepareBankReversal(r, t, m) ==
    /\ execution[t] # None
    /\ m <= transfer[t].amount
    /\ reversal[r].status = "NONE"
    /\ reversal' = [reversal EXCEPT ![r] =
         [status |-> "REVIEW_REQUIRED", transfer |-> t, amount |-> m]]
    /\ UNCHANGED <<current, available, transfer, execution, hold, lapsed, bankSession,
                   bankBehind, bankLost>>

BeginBankReversal(s, r) ==
    /\ reversal[r].status = "REVIEW_REQUIRED" /\ r \notin lapsed
    /\ Open(s, "reverse", r, reversal[r].amount, None)

-----------------------------------------------------------------------------
TransferAmount == [t \in Transfers |-> transfer[t].amount]

\* Amounts of the active preparations, apart from the one being executed.
Pending(except) ==
    SumFunctionOnSet(TransferAmount, {t \in Transfers \ {except} : Ready(t)})

\* _check_payment_capacity
Capacity(t, m) == m <= PerTransfer /\ m <= available /\ Pending(t) + m <= Daily

\* The account is read, and refused if it cannot pay.
ReadAccount(s) ==
    LET tx == bankSession[s] IN
    /\ tx.op \in Ops \ {"status"} /\ tx.seen = Unread
    /\ tx.op \in {"prepare", "execute"} => Capacity(tx.row, tx.amount)
    /\ tx.op = "hold" => tx.amount <= available
    /\ bankSession' = [bankSession EXCEPT ![s].seen =
         [current |-> current, available |-> available]]
    /\ UNCHANGED <<current, available, transfer, execution, hold, reversal, lapsed,
                   bankBehind, bankLost>>

Committing(s, op) == bankSession[s].op = op /\ bankSession[s].seen # Unread

CommitPrepare(s) ==
    LET tx == bankSession[s] IN
    /\ Committing(s, "prepare")
    /\ transfer[tx.row].status = "NONE"
    /\ transfer' = [transfer EXCEPT ![tx.row] =
         [status |-> "READY_FOR_GUARDIAN", amount |-> tx.amount]]
    /\ CloseOnly(s)
    /\ UNCHANGED <<current, available, execution, hold, reversal, lapsed>>

CommitExecute(s) ==
    LET tx == bankSession[s] IN
    /\ Committing(s, "execute")
    /\ execution[tx.row] = None /\ \A u \in Transfers : execution[u] # tx.execution
    /\ current' = tx.seen.current - tx.amount
    /\ available' = tx.seen.available - tx.amount
    /\ transfer' = [transfer EXCEPT ![tx.row].status = "SETTLED"]
    /\ execution' = [execution EXCEPT ![tx.row] = tx.execution]
    /\ CloseMoved(s)
    /\ UNCHANGED <<hold, reversal, lapsed>>

CommitStatus(s) ==
    /\ bankSession[s].op = "status"
    /\ transfer' = [transfer EXCEPT ![bankSession[s].row].status = "EXPIRED"]
    /\ CloseOnly(s)
    /\ UNCHANGED <<current, available, execution, hold, reversal, lapsed>>

CommitHold(s) ==
    LET tx == bankSession[s] IN
    /\ Committing(s, "hold")
    /\ hold[tx.row].status = "NONE"
    /\ available' = tx.seen.available - tx.amount
    /\ hold' = [hold EXCEPT ![tx.row] = [status |-> "ACTIVE", amount |-> tx.amount]]
    /\ CloseMoved(s)
    /\ UNCHANGED <<current, transfer, execution, reversal, lapsed>>

CommitRelease(s) ==
    LET tx == bankSession[s] IN
    /\ Committing(s, "release")
    /\ available' = tx.seen.available + tx.amount
    /\ hold' = [hold EXCEPT ![tx.row].status = "RELEASED"]
    /\ CloseMoved(s)
    /\ UNCHANGED <<current, transfer, execution, reversal, lapsed>>

CommitBankReversal(s) ==
    LET tx == bankSession[s] IN
    /\ Committing(s, "reverse")
    /\ current' = tx.seen.current + tx.amount
    /\ available' = tx.seen.available + tx.amount
    /\ reversal' = [reversal EXCEPT ![tx.row].status = "SETTLED"]
    /\ CloseMoved(s)
    /\ UNCHANGED <<transfer, execution, hold, lapsed>>

\* A refusal, a violated constraint, a failing database or a dead process.
AbortBank(s) ==
    /\ bankSession[s] # Idle
    /\ CloseOnly(s)
    /\ UNCHANGED <<current, available, transfer, execution, hold, reversal, lapsed>>

Lapse(row) ==
    /\ row \in Transfers \cup Reversals /\ row \notin lapsed
    /\ \/ row \in Transfers /\ transfer[row].status = "READY_FOR_GUARDIAN"
       \/ row \in Reversals /\ reversal[row].status = "REVIEW_REQUIRED"
    /\ lapsed' = lapsed \cup {row}
    /\ UNCHANGED <<current, available, transfer, execution, hold, reversal, bankSession,
                   bankBehind, bankLost>>

SessionStep(s) ==
    \/ ReadAccount(s)
    \/ CommitPrepare(s) \/ CommitExecute(s) \/ CommitStatus(s)
    \/ CommitHold(s) \/ CommitRelease(s) \/ CommitBankReversal(s)
    \/ AbortBank(s)

Next ==
    \/ \E r \in Reversals, t \in Transfers, m \in Amounts : PrepareBankReversal(r, t, m)
    \/ \E row \in Transfers \cup Reversals : Lapse(row)
    \/ \E s \in BankSessions :
         \/ \E t \in Transfers :
              \/ \E m \in Amounts : BeginPrepare(s, t, m)
              \/ \E x \in Executions : BeginExecute(s, t, x)
              \/ BeginStatus(s, t)
         \/ \E h \in Holds : (\E m \in Amounts : BeginHold(s, h, m)) \/ BeginRelease(s, h)
         \/ \E r \in Reversals : BeginBankReversal(s, r)
         \/ SessionStep(s)

Spec == Init /\ [][Next]_bankVars

-----------------------------------------------------------------------------
ReversalAmount == [r \in Reversals |-> reversal[r].amount]
HoldAmount == [h \in Holds |-> hold[h].amount]

Executed == {t \in Transfers : execution[t] # None}
Reversed == {r \in Reversals : reversal[r].status = "SETTLED"}
Blocked == {h \in Holds : hold[h].status = "ACTIVE"}

Paid == SumFunctionOnSet(TransferAmount, Executed)
Returned == SumFunctionOnSet(ReversalAmount, Reversed)
Held == SumFunctionOnSet(HoldAmount, Blocked)

(* The current balance is what executed transfers and settled reversals    *)
(* make of the opening balance, and the available balance is "balance      *)
(* minus active holds" (docs/ext-demo/BANK_AA_APP.md), whatever requests   *)
(* overlap, are repeated, refused or expire, until a request writes        *)
(* balances that another has changed since it began: the rows are read     *)
(* without a lock (service.py:237, 330, 355, 462), where the document has  *)
(* "locked or serializable" mutations.                                     *)
MovementsExplainBalance ==
    ~bankLost =>
      /\ current = Funds - Paid + Returned
      /\ available = current - Held
=============================================================================
